--------------------------- MODULE MCSubscriptions ---------------------------
(* Instance of Subscriptions for TLC.                                      *)
EXTENDS Subscriptions, TLC

Symmetry == Permutations(Location) \cup Permutations(Id) \cup Permutations(Sub)
                \cup Permutations(Process)
=============================================================================
