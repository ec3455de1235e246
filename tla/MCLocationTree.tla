--------------------------- MODULE MCLocationTree ---------------------------
(* Instance of LocationTree for TLC: four locations, enough for a subtree  *)
(* of depth two to be moved below a location that is itself below another, *)
(* for a location with two parents and for every attempt at a cycle.       *)
EXTENDS LocationTree
=============================================================================
