--------------------------- MODULE LocationForest ---------------------------
(***************************************************************************)
(* What the service promises of the hierarchy of an account, although each *)
(* request writes two stores: locations are created, moved and removed one *)
(* at a time and at once, a location has at most one parent and is never   *)
(* below itself, and is removed only when nothing is below it.  Nothing is *)
(* promised of a location that is broken: one that requests worked on at   *)
(* the same time, or whose request stopped half-way.                       *)
(* Abstract specification of LocationHierarchy.                            *)
(***************************************************************************)
CONSTANT Location

VARIABLES
    state,    \* [Location -> "unused", "present", "removed" or "broken"]
    parents   \* [Location -> its parents while it is present, else {}]

vars == <<state, parents>>

Init ==
    /\ state = [id \in Location |-> "unused"]
    /\ parents = [id \in Location |-> {}]

Become(id, s, P) ==
    /\ state' = [state EXCEPT ![id] = s]
    /\ parents' = [parents EXCEPT ![id] = P]

OneOrNone == {{}} \cup {{p} : p \in Location}

(* p is not below id, as far as unbroken locations tell: some locations,   *)
(* p but not id among them, have all their parents among them.             *)
NotBelow(p, id) ==
    \E S \in SUBSET Location : p \in S /\ id \notin S /\ \A x \in S : parents[x] \subseteq S

Create(id) ==
    /\ state[id] = "unused"
    /\ Become(id, "present", {})

Move(id, P) ==
    /\ state[id] = "present"
    /\ \A p \in P : state[p] \in {"present", "broken"} /\ NotBelow(p, id)
    /\ Become(id, "present", P)

Remove(id) ==
    /\ state[id] = "present"
    /\ \A x \in Location : id \notin parents[x]
    /\ Become(id, "removed", {})

Break(B) ==
    /\ state' = [id \in Location |-> IF id \in B THEN "broken" ELSE state[id]]
    /\ parents' = [id \in Location |-> IF id \in B THEN {} ELSE parents[id]]

Next ==
    \/ \E B \in SUBSET Location : Break(B)
    \/ \E id \in Location :
        \/ Create(id)
        \/ \E P \in OneOrNone : Move(id, P)
        \/ Remove(id)

Spec == Init /\ [][Next]_vars

=============================================================================
