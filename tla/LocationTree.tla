---------------------------- MODULE LocationTree ----------------------------
(***************************************************************************)
(* The Postgres table "location_tree": the closure table that keeps, for   *)
(* every ancestor p and every descendant c of a hierarchy of locations,    *)
(* the row (parent_id = p, child_id = c, depth).  A location that was ever *)
(* linked also has the row (x, x, 0).  The pair (parent_id, child_id) is   *)
(* unique, so the table is a function from pairs to depths.                *)
(*                                                                         *)
(* Source: src/src/core/location/LocationTreeTable.ts.  Each action is one *)
(* SQL transaction, taken atomically.                                      *)
(***************************************************************************)
EXTENDS Naturals

CONSTANT Location   \* location ids of one account

VARIABLE tree   \* [rows -> depth], rows \subseteq Location \X Location

Rows == DOMAIN tree

Init == tree = [k \in {} |-> 0]

-----------------------------------------------------------------------------
(* The statements of the transaction, as operators on a table t.           *)

(* Mutant: forgets that rows within the subtree stay.                      *)
DetachedRowsWithin(t, id) == {k \in DOMAIN t : <<id, k[2]>> \in DOMAIN t /\ k[1] # k[2]}

(* Mutant: without the join on what is below id.                           *)
DetachedRowsOfIdOnly(t, id) == {k \in DOMAIN t : k[2] = id /\ k[1] # id}

(* "d" JOIN "p" JOIN "c" LEFT JOIN "l" ... "l" IS NULL: the rows that lead *)
(* from outside the subtree of id into it.                                 *)
DetachedRows(t, id) ==
    {k \in DOMAIN t : /\ <<id, k[2]>> \in DOMAIN t
                      /\ <<id, k[1]>> \notin DOMAIN t}

DeleteRows(t, K) == [k \in DOMAIN t \ K |-> t[k]]

(* INSERT (x, x, 0) ... ON CONFLICT DO NOTHING *)
SelfLink(t, x) ==
    [k \in DOMAIN t \cup {<<x, x>>} |-> IF k \in DOMAIN t THEN t[k] ELSE 0]

(* Mutant: links id alone, not what is below it.                           *)
NewRowsOfIdOnly(t, id, parent) ==
    {k \in Location \X Location : <<k[1], parent>> \in DOMAIN t /\ k[2] = id}

(* The cross join of the ancestors-or-self of parent with the              *)
(* descendants-or-self of id.                                              *)
NewRows(t, id, parent) ==
    {k \in Location \X Location : /\ <<k[1], parent>> \in DOMAIN t
                                  /\ <<id, k[2]>> \in DOMAIN t}

(* Mutant: depth + depth.                                                  *)
InsertRowsTooClose(t, id, parent) ==
    [k \in DOMAIN t \cup NewRows(t, id, parent) |->
        IF k \in NewRows(t, id, parent) THEN t[<<k[1], parent>>] + t[<<id, k[2]>>] ELSE t[k]]

InsertRows(t, id, parent) ==
    [k \in DOMAIN t \cup NewRows(t, id, parent) |->
        IF k \in NewRows(t, id, parent)
        THEN t[<<k[1], parent>>] + t[<<id, k[2]>>] + 1
        ELSE t[k]]

Detached(t, id, hasPrevParent) ==
    IF hasPrevParent THEN DeleteRows(t, DetachedRows(t, id)) ELSE t

Linked(t, id, parent, hasPrevParent) ==
    SelfLink(SelfLink(Detached(t, id, hasPrevParent), parent), id)

(* Mutant: ON CONFLICT DO UPDATE in buildNewSubtree as well.               *)
ConflictsNever(t, id, parent) == FALSE

(* The plain INSERT of buildNewSubtree meets a row that is already there:  *)
(* Postgres raises a unique violation and executeTransaction rolls back.   *)
Conflicts(t, id, parent) == NewRows(t, id, parent) \cap DOMAIN t # {}

-----------------------------------------------------------------------------
(* updateParent with parentId = null: only the DELETE, if anything, runs.  *)
Detach(id, hasPrevParent) ==
    tree' = Detached(tree, id, hasPrevParent)

(* updateParent with a parent: the transaction commits ...                 *)
Attach(id, parent, hasPrevParent) ==
    LET linked == Linked(tree, id, parent, hasPrevParent)
    IN  /\ ~Conflicts(linked, id, parent)
        /\ tree' = InsertRows(linked, id, parent)

(* ... or it is rolled back and updateParent throws.                       *)
AttachRolledBack(id, parent, hasPrevParent) ==
    /\ Conflicts(Linked(tree, id, parent, hasPrevParent), id, parent)
    /\ UNCHANGED tree

(* removeSubTree: every row whose child is in the subtree of id.           *)
RemoveSubTree(id) ==
    tree' = DeleteRows(tree, {k \in Rows : <<id, k[2]>> \in Rows})

(* The callers choose id, parent and hasPrevParent.  LocationService never *)
(* passes parentId = id (LocationService.ts:129); nothing relates          *)
(* hasPrevParent to the rows, since it is read from the location's record. *)
Next ==
    \E id \in Location :
        \/ RemoveSubTree(id)
        \/ \E hasPrevParent \in BOOLEAN :
            \/ Detach(id, hasPrevParent)
            \/ \E parent \in Location \ {id} :
                \/ Attach(id, parent, hasPrevParent)
                \/ AttachRolledBack(id, parent, hasPrevParent)

Spec == Init /\ [][Next]_tree

-----------------------------------------------------------------------------
(* Reads.                                                                  *)

ImmediateChildren(t, id) ==
    {c \in Location : <<id, c>> \in DOMAIN t /\ t[<<id, c>>] = 1}

AllChildren(t, id) ==
    {c \in Location : <<id, c>> \in DOMAIN t /\ t[<<id, c>>] > 0}

AllParents(t, id) ==
    {p \in Location : <<p, id>> \in DOMAIN t /\ t[<<p, id>>] > 0}

-----------------------------------------------------------------------------
(* Properties.                                                             *)

(* The same predicates are stated of any table t, so that what a statement *)
(* preserves can be said of the statement alone.                           *)

IsTable(t) ==
    /\ DOMAIN t \subseteq Location \X Location
    /\ t \in [DOMAIN t -> Nat]

IsReflexive(t) ==
    \A k \in DOMAIN t : <<k[1], k[1]>> \in DOMAIN t /\ <<k[2], k[2]>> \in DOMAIN t

IsTransitive(t) ==
    \A a, b, c \in Location :
        <<a, b>> \in DOMAIN t /\ <<b, c>> \in DOMAIN t => <<a, c>> \in DOMAIN t

IsAcyclic(t) ==
    \A a, b \in Location :
        <<a, b>> \in DOMAIN t /\ <<b, a>> \in DOMAIN t => a = b

IsDistance(t) ==
    /\ \A k \in DOMAIN t : t[k] = 0 <=> k[1] = k[2]
    /\ \A a, b, c \in Location :
        <<a, b>> \in DOMAIN t /\ <<b, c>> \in DOMAIN t =>
            t[<<a, c>>] = t[<<a, b>>] + t[<<b, c>>]

IsReachedByChildren(t) ==
    \A a, c \in Location :
        <<a, c>> \in DOMAIN t /\ a # c =>
            \E b \in ImmediateChildren(t, a) : <<b, c>> \in DOMAIN t

(* Every row joins two locations and has a natural number as depth.        *)
TypeOK == IsTable(tree)

(* The table is a closure, also after subtrees were moved, detached or     *)
(* removed, and moved with a wrong hasPrevParent: a location that occurs   *)
(* in a row has its self row, which the cross join of a later updateParent *)
(* needs, and an ancestor of an ancestor is an ancestor, which the         *)
(* inheritance of roles (LocationResolver.ts:60) and cascades rely on.     *)
Closure == IsReflexive(tree) /\ IsTransitive(tree)

(* No location is its own proper ancestor.  updateParent has no check for  *)
(* cycles: moving a location below its own descendant is stopped only      *)
(* because the insertion then always repeats a self row.                   *)
Acyclic == IsAcyclic(tree)

(* Depth 0 is exactly the self rows, so that the reads with depth > 0      *)
(* return the proper ancestors and descendants, and all of them; and       *)
(* depths add up along every chain, also when a location was linked below  *)
(* two parents.                                                            *)
DepthIsDistance == IsDistance(tree)

(* Every proper descendant is reached through an immediate child: walking  *)
(* getImmediateChildren finds all that getAllChildren lists, so a location *)
(* without immediate children has no subtree that its removal would hit.   *)
ReachedByChildren == IsReachedByChildren(tree)

(* A move that commits leaves the location below its new parent and, when  *)
(* hasPrevParent was set, below no other: all rows from former ancestors   *)
(* are gone, and its own descendants are the same as before.               *)
MovedExactly ==
    [][\A id \in Location, parent \in Location :
        (id # parent /\ Attach(id, parent, TRUE)) =>
            /\ AllParents(tree', id) = {parent} \cup AllParents(tree', parent)
            /\ AllChildren(tree', id) = AllChildren(tree, id)]_tree

=============================================================================
