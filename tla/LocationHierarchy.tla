------------------------- MODULE LocationHierarchy -------------------------
(***************************************************************************)
(* The hierarchy of an account's locations as the service keeps it: each   *)
(* location's record in DynamoDB names its parent, and the closure table   *)
(* of LocationTree holds the same relation in Postgres.  createLocation,   *)
(* updatePartialLocation and removeLocation write the two stores one after *)
(* the other, without a transaction, and may stop between the two.         *)
(*                                                                         *)
(* Source: src/src/core/location/LocationService.ts, LocationResolver.ts.  *)
(* The location cache is off here (see CachedLocationTree), and locations  *)
(* have no devices.                                                        *)
(***************************************************************************)
EXTENDS Naturals, FiniteSets

CONSTANTS
    Location,    \* uuids, each created at most once
    NoParent,    \* the absent parent
    Request,     \* requests that may run at the same time
    MaxCrashes   \* bound: requests that stop half-way

ASSUME HierarchyAssumption ==
    /\ NoParent \notin Location
    /\ {"unused", "removed"} \cap (Location \cup {NoParent}) = {}
    /\ MaxCrashes \in Nat

VARIABLES
    record,       \* [Location -> "unused", "removed", NoParent or a parent id]
    tree,         \* the closure table
    request,      \* progress of each request
    interrupted,  \* history: locations whose request stopped half-way
    overlapped    \* history: locations that requests worked on at the same time

vars == <<record, tree, request, interrupted, overlapped>>

T == INSTANCE LocationTree WITH Location <- Location, tree <- tree

Idle == [pc |-> "idle"]
Exists(id) == record[id] \notin {"unused", "removed"}

Init ==
    /\ record = [id \in Location |-> "unused"]
    /\ T!Init
    /\ request = [r \in Request |-> Idle]
    /\ interrupted = {}
    /\ overlapped = {}

Become(r, state) == request' = [request EXCEPT ![r] = state]

(* The locations that a request names.                                     *)
Named(q) ==
    CASE q.pc = "idle"              -> {}
      [] q.pc \in {"link", "save"} -> {q.id, q.parent}
      [] q.pc = "remove"            -> {q.id}

(* The locations on which two requests get into each other's way: the one  *)
(* that both change, and all of them if the one removes what the other     *)
(* names, since the rows go with the whole subtree.                        *)
Overlap(q, s) ==
    IF Named(q) \cap Named(s) = {} THEN {}
    ELSE IF "remove" \in {q.pc, s.pc} THEN Location
    ELSE {q.id} \cap {s.id}

Start(r, state) ==
    /\ request[r].pc = "idle"
    /\ Become(r, state)
    /\ overlapped' = overlapped \cup UNION {Overlap(state, request[s]) : s \in Request}

-----------------------------------------------------------------------------
(* createLocation: validateParent, put the record, then link it.           *)
CreateLocation(r, id, parent) ==
    /\ record[id] = "unused"
    /\ parent # NoParent => Exists(parent)
    /\ record' = [record EXCEPT ![id] = parent]
    /\ Start(r, IF parent = NoParent THEN Idle
                ELSE [pc |-> "link", id |-> id, parent |-> parent,
                      hasPrev |-> FALSE, saves |-> FALSE])
    /\ UNCHANGED <<tree, interrupted>>

(* Mutant: the previous parent is never passed on.                         *)
UpdateLocationParentAsNew(r, id, parent) ==
    /\ parent # id
    /\ Exists(id)
    /\ parent # NoParent => Exists(parent)
    /\ Start(r, [pc |-> IF parent \in Location /\ parent = record[id] THEN "save" ELSE "link",
                 id |-> id, parent |-> parent, hasPrev |-> FALSE, saves |-> TRUE])
    /\ UNCHANGED <<record, tree, interrupted>>

(* updatePartialLocation with another location as parent, or null: reads   *)
(* the record and the parent's.  The parent property is the recorded id,   *)
(* also when that location is gone.  Nothing is linked if the parent is    *)
(* not changing (an absent parent is not null, and changes); the record is *)
(* saved in any case.                                                      *)
UpdateLocationParent(r, id, parent) ==
    /\ parent # id
    /\ Exists(id)
    /\ parent # NoParent => Exists(parent)
    /\ Start(r, [pc |-> IF parent \in Location /\ parent = record[id] THEN "save" ELSE "link",
                 id |-> id, parent |-> parent,
                 hasPrev |-> record[id] # NoParent, saves |-> TRUE])
    /\ UNCHANGED <<record, tree, interrupted>>

(* updatePartialLocation with the location itself as parent: nothing is    *)
(* read or linked, only the record is saved.                               *)
NameItselfParent(r, id) ==
    /\ record[id] # "unused"
    /\ Start(r, [pc |-> "save", id |-> id, parent |-> id, hasPrev |-> FALSE, saves |-> TRUE])
    /\ UNCHANGED <<record, tree, interrupted>>

(* locationTreeTable.updateParent commits ...                              *)
Link(r) ==
    /\ request[r].pc = "link"
    /\ LET q == request[r]
       IN  /\ IF q.parent = NoParent
              THEN T!Detach(q.id, q.hasPrev)
              ELSE T!Attach(q.id, q.parent, q.hasPrev)
           /\ Become(r, IF q.saves THEN [q EXCEPT !.pc = "save"] ELSE Idle)
    /\ UNCHANGED <<record, interrupted, overlapped>>

(* ... or rolls back: the request fails, and a new location keeps a record *)
(* that names the parent.                                                  *)
LinkFails(r) ==
    /\ request[r].pc = "link"
    /\ request[r].parent # NoParent
    /\ T!AttachRolledBack(request[r].id, request[r].parent, request[r].hasPrev)
    /\ interrupted' = IF request[r].saves THEN interrupted
                      ELSE interrupted \cup {request[r].id}
    /\ Become(r, Idle)
    /\ UNCHANGED <<record, overlapped>>

(* locationResolver.updatePartialLocation; it throws if the record is gone *)
(* (the update is conditional on the key).                                 *)
SaveRecord(r) ==
    /\ request[r].pc = "save"
    /\ LET q == request[r]
       IN  record' = IF Exists(q.id) THEN [record EXCEPT ![q.id] = q.parent] ELSE record
    /\ Become(r, Idle)
    /\ UNCHANGED <<tree, interrupted, overlapped>>

-----------------------------------------------------------------------------
(* Mutant: asks the children's records for their parent.                   *)
HasChildrenOnRecord(id) ==
    \E c \in T!ImmediateChildren(tree, id) : Exists(c) /\ record[c] = id

(* removeLocation: refused while the location has children, as far as the  *)
(* tree lists them and they still have a record.                           *)
HasChildren(id) == \E c \in T!ImmediateChildren(tree, id) : Exists(c)

RemoveLocation(r, id) ==
    /\ Exists(id)
    /\ ~HasChildren(id)
    /\ Start(r, [pc |-> "remove", id |-> id, todo |-> {"record", "tree"}])
    /\ UNCHANGED <<record, tree, interrupted>>

(* Promise.all over the stores: each removal completes on its own.         *)
RemoveFrom(r, store) ==
    /\ request[r].pc = "remove"
    /\ store \in request[r].todo
    /\ LET q == request[r]
       IN  /\ CASE store = "record" -> /\ record' = [record EXCEPT ![q.id] = "removed"]
                                       /\ UNCHANGED tree
                [] store = "tree"   -> T!RemoveSubTree(q.id) /\ UNCHANGED record
           /\ Become(r, IF q.todo = {store} THEN Idle
                        ELSE [q EXCEPT !.todo = @ \ {store}])
    /\ UNCHANGED <<interrupted, overlapped>>

-----------------------------------------------------------------------------
(* The process stops, or one store fails, before the request is done.      *)
Interrupt(r) ==
    /\ request[r].pc # "idle"
    /\ Cardinality(interrupted) < MaxCrashes
    /\ interrupted' = interrupted \cup {request[r].id}
    /\ Become(r, Idle)
    /\ UNCHANGED <<record, tree, overlapped>>

Next ==
    \E r \in Request :
        \/ \E id \in Location :
            \/ \E parent \in Location \cup {NoParent} :
                \/ CreateLocation(r, id, parent)
                \/ UpdateLocationParent(r, id, parent)
            \/ NameItselfParent(r, id)
            \/ RemoveLocation(r, id)
        \/ Link(r)
        \/ LinkFails(r)
        \/ SaveRecord(r)
        \/ \E store \in {"record", "tree"} : RemoveFrom(r, store)
        \/ Interrupt(r)

Spec == Init /\ [][Next]_vars

-----------------------------------------------------------------------------
TreeParents(id) == {p \in Location : id \in T!ImmediateChildren(tree, p)}

(* The parent that the record of an existing location names is the one     *)
(* that the rows name.  A record that names the location itself says       *)
(* nothing of the rows, which still hold one parent at most.               *)
SameParent(id) ==
    IF record[id] = id
    THEN \A p, q \in TreeParents(id) : p = q
    ELSE TreeParents(id) = IF record[id] = NoParent THEN {} ELSE {record[id]}

(* Whatever overlaps on other locations, the two stores name the same      *)
(* parent for every location on which no request is at work and whose own  *)
(* requests ran to the end one after the other, and that parent exists.    *)
(* The exception is a location that was given itself as parent             *)
(* (LocationService.ts:132 skips the rows, 173 saves the record).          *)
StoresAgree ==
    \A id \in Location \ (interrupted \cup overlapped) :
        (\A r \in Request : request[r].pc = "idle" \/ request[r].id # id) =>
            /\ Exists(id) => SameParent(id)
            /\ ~Exists(id) => TreeParents(id) = {}
            /\ \A p \in Location : p \in TreeParents(id) \/ p = record[id] => Exists(p)

(* The closure table refuses only a move below the location's own subtree, *)
(* whatever overlaps or stops half-way on locations outside the subtree.   *)
(* (If the move of a location without parent stopped before its record was *)
(* saved, moves of the location, and of what is above it, may be refused:  *)
(* repeating the move finds its rows there.)                               *)
OnlyCyclesAreRefused ==
    \A r \in Request :
        LET q == request[r]
        IN  (/\ q.pc = "link"
             /\ q.parent # NoParent
             /\ <<q.id, q.parent>> \notin DOMAIN tree
             /\ \A x \in interrupted \cup overlapped :
                    x # q.id /\ <<q.id, x>> \notin DOMAIN tree)
            => ~T!Conflicts(T!Linked(tree, q.id, q.parent, q.hasPrev), q.id, q.parent)

-----------------------------------------------------------------------------
(* A location as LocationForest sees it: it is created without parent and  *)
(* moved when its rows are, and is removed when the first store is done.   *)
BeingRemoved(id) ==
    \E r \in Request :
        /\ request[r].pc = "remove" /\ request[r].id = id
        /\ request[r].todo # {"record", "tree"}

ForestState(id) ==
    IF id \in interrupted \cup overlapped THEN "broken"
    ELSE IF record[id] = "unused" THEN "unused"
    ELSE IF record[id] = "removed" \/ BeingRemoved(id) THEN "removed"
    ELSE "present"

ForestParents(id) == IF ForestState(id) = "present" THEN TreeParents(id) ELSE {}

F == INSTANCE LocationForest WITH
        state <- [id \in Location |-> ForestState(id)],
        parents <- [id \in Location |-> ForestParents(id)]

(* Two stores written one after the other look like one hierarchy that is  *)
(* changed at once: a location never gets a second parent or a cycle, its  *)
(* move takes nothing else along, and it is removed only when childless,   *)
(* however requests on different locations interleave, and but for the     *)
(* locations whose own requests overlapped or stopped half-way.            *)
ForestSpec == F!Spec

=============================================================================
