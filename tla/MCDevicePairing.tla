--------------------------- MODULE MCDevicePairing ---------------------------
(* Instance of DevicePairing for TLC.                                      *)
EXTENDS DevicePairing, TLC

Symmetry == Permutations(Id) \cup Permutations(Request)
=============================================================================
