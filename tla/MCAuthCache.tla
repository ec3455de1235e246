----------------------------- MODULE MCAuthCache -----------------------------
(* Instance of AuthCache for TLC.                                          *)
EXTENDS AuthCache, TLC

Symmetry == Permutations(Token) \cup Permutations(Request)
=============================================================================
