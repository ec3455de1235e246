---------------------------- MODULE MCUserEmails ----------------------------
(* Instance of UserEmails for TLC: one user is registered, the other may   *)
(* be.  No symmetry, for the run checks liveness.                          *)
EXTENDS UserEmails

CONSTANTS u1, u2, e1, e2

OneRegistered == [u \in User |-> IF u = u1 THEN e1 ELSE NoEmail]

=============================================================================
