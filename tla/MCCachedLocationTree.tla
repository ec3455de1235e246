------------------------ MODULE MCCachedLocationTree ------------------------
(* Instance of CachedLocationTree for TLC.                                 *)
EXTENDS CachedLocationTree, TLC

Symmetry == Permutations(Location) \cup Permutations(Writer)
=============================================================================
