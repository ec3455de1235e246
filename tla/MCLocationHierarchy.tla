------------------------ MODULE MCLocationHierarchy ------------------------
(* Instance of LocationHierarchy for TLC.                                  *)
EXTENDS LocationHierarchy, TLC

Symmetry == Permutations(Location) \cup Permutations(Request)

(* Bound: once nothing is promised of any location, the behaviour is not   *)
(* followed further (every property holds there by its own exceptions).    *)
StillPromised == interrupted \cup overlapped # Location
=============================================================================
