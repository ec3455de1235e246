-------------------------- MODULE MCLocationDevices --------------------------
(* Instance of LocationDevices for TLC: a parent and a child with a device *)
(* each, a location of another tree, and ids for clones.  No symmetry,  *)
(* for the run checks liveness.                                            *)
EXTENDS LocationDevices

CONSTANTS parent, child, other, clone1, clone2, d1, d2

BelowParent == [l \in Location |-> IF l = parent THEN {child} ELSE {}]
CloneOfRequest == <<clone1, clone2>>
HomeOfDevices == [d \in Device |-> IF d = d1 THEN parent ELSE child]

=============================================================================
