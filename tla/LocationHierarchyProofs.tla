---------------------- MODULE LocationHierarchyProofs ----------------------
(***************************************************************************)
(* For any set of locations and any number of overlapping and interrupted  *)
(* requests: the rows that the service keeps are a hierarchy, since what   *)
(* is proved of the table in LocationTreeProofs holds of them; the two     *)
(* stores agree and the table refuses no sensible move but for locations   *)
(* that are named as exceptions; and so the service implements             *)
(* LocationForest.  The invariant Apart says what a request at work knows  *)
(* of both stores, whatever other requests do meanwhile.                   *)
(***************************************************************************)
EXTENDS LocationHierarchy, TLAPS

(* Of these proofs only what they say of the table is needed, so the cache *)
(* is given no calls.                                                      *)
P == INSTANCE LocationTreeProofs WITH
        Reader <- {}, Writer <- {}, CachePolicy <- {}, MaxWrites <- 0,
        cache <- <<>>, reader <- <<>>, writer <- <<>>, writes <- 0, suspect <- {}

RequestType ==
    [pc : {"idle"}]
    \cup {q \in [pc : {"link", "save"}, id : Location, parent : Location \cup {NoParent},
                 hasPrev : BOOLEAN, saves : BOOLEAN] : q.pc = "link" => q.parent # q.id}
    \cup [pc : {"remove"}, id : Location, todo : SUBSET {"record", "tree"}]

(* The requests in flight are well formed; in particular no location is    *)
(* being linked below itself, which LocationTree takes from its callers.   *)
RequestOK == request \in [Request -> RequestType]

LEMMA Fields ==
    ASSUME RequestOK, NEW r \in Request
    PROVE  /\ request[r].pc \in {"link", "save"} =>
                /\ request[r] \in [pc : {"link", "save"}, id : Location, parent : Location \cup {NoParent},
                                   hasPrev : BOOLEAN, saves : BOOLEAN]
                /\ request[r].pc = "link" => request[r].parent # request[r].id
           /\ request[r].pc = "remove" =>
                request[r] \in [pc : {"remove"}, id : Location, todo : SUBSET {"record", "tree"}]
  BY DEF RequestOK, RequestType

LEMMA BecomeType ==
    ASSUME RequestOK, NEW r \in Request, NEW state \in RequestType, Become(r, state)
    PROVE  RequestOK'
  BY DEF RequestOK, Become

LEMMA IdleType == Idle \in RequestType
  BY DEF Idle, RequestType

LEMMA NextRequest == RequestOK /\ [Next]_vars => RequestOK'
<1> SUFFICES ASSUME RequestOK, [Next]_vars PROVE RequestOK'
  OBVIOUS
<1>1. ASSUME NEW r \in Request, NEW id \in Location, NEW parent \in Location \cup {NoParent},
             CreateLocation(r, id, parent)
      PROVE  RequestOK'
  <2>1. CASE parent = NoParent
    BY <1>1, <2>1, IdleType, BecomeType DEF CreateLocation, Start
  <2>2. CASE parent # NoParent
    <3> DEFINE state == [pc |-> "link", id |-> id, parent |-> parent, hasPrev |-> FALSE, saves |-> FALSE]
    <3>1. parent # id
      BY <1>1, <2>2 DEF CreateLocation, Exists
    <3>2. state \in RequestType
      BY <3>1 DEF RequestType
    <3>3. Become(r, state)
      BY <1>1, <2>2 DEF CreateLocation, Start
    <3> QED
      BY <3>2, <3>3, BecomeType
  <2> QED
    BY <2>1, <2>2
<1>2. ASSUME NEW r \in Request, NEW id \in Location, NEW parent \in Location \cup {NoParent},
             UpdateLocationParent(r, id, parent)
      PROVE  RequestOK'
  <2> DEFINE state == [pc |-> IF parent \in Location /\ parent = record[id] THEN "save" ELSE "link",
                       id |-> id, parent |-> parent,
                       hasPrev |-> record[id] # NoParent, saves |-> TRUE]
  <2>1. parent # id /\ Become(r, state)
    BY <1>2 DEF UpdateLocationParent, Start
  <2>2. state \in RequestType
    BY <2>1 DEF RequestType
  <2> QED
    BY <2>1, <2>2, BecomeType
<1>8. ASSUME NEW r \in Request, NEW id \in Location, NameItselfParent(r, id)
      PROVE  RequestOK'
  <2> DEFINE state == [pc |-> "save", id |-> id, parent |-> id, hasPrev |-> FALSE, saves |-> TRUE]
  <2>1. state \in RequestType
    BY DEF RequestType
  <2>2. Become(r, state)
    BY <1>8 DEF NameItselfParent, Start
  <2> QED
    BY <2>1, <2>2, BecomeType
<1>3. ASSUME NEW r \in Request, NEW id \in Location, RemoveLocation(r, id)
      PROVE  RequestOK'
  <2> DEFINE state == [pc |-> "remove", id |-> id, todo |-> {"record", "tree"}]
  <2>1. state \in RequestType
    BY DEF RequestType
  <2>2. Become(r, state)
    BY <1>3 DEF RemoveLocation, Start
  <2> QED
    BY <2>1, <2>2, BecomeType
<1>4. ASSUME NEW r \in Request, Link(r)
      PROVE  RequestOK'
  <2>1. [request[r] EXCEPT !.pc = "save"] \in RequestType
    BY <1>4, Fields DEF Link, RequestType
  <2> QED
    BY <1>4, <2>1, IdleType, BecomeType DEF Link
<1>5. ASSUME NEW r \in Request, LinkFails(r) \/ SaveRecord(r) \/ Interrupt(r)
      PROVE  RequestOK'
  BY <1>5, IdleType, BecomeType DEF LinkFails, SaveRecord, Interrupt
<1>6. ASSUME NEW r \in Request, NEW store \in {"record", "tree"}, RemoveFrom(r, store)
      PROVE  RequestOK'
  <2>1. [request[r] EXCEPT !.todo = @ \ {store}] \in RequestType
    BY <1>6, Fields DEF RemoveFrom, RequestType
  <2> QED
    BY <1>6, <2>1, IdleType, BecomeType DEF RemoveFrom
<1>7. CASE UNCHANGED vars
  BY <1>7 DEF vars, RequestOK
<1> QED
  BY <1>1, <1>2, <1>3, <1>4, <1>5, <1>6, <1>7, <1>8 DEF Next

(* Every step of the service is a step of the table, or none.              *)
LEMMA StepRefines == RequestOK /\ [Next]_vars => [T!Next]_tree
<1> SUFFICES ASSUME RequestOK, [Next]_vars PROVE [T!Next]_tree
  OBVIOUS
<1>1. ASSUME NEW r \in Request, Link(r)
      PROVE  T!Next
  <2> DEFINE q == request[r]
  <2>1. q.id \in Location /\ q.parent \in Location \cup {NoParent} /\ q.hasPrev \in BOOLEAN
        /\ q.parent # q.id
    BY <1>1, Fields DEF Link
  <2>2. IF q.parent = NoParent THEN T!Detach(q.id, q.hasPrev) ELSE T!Attach(q.id, q.parent, q.hasPrev)
    BY <1>1 DEF Link
  <2> HIDE DEF q
  <2> QED
    BY <2>1, <2>2 DEF T!Next
<1>2. ASSUME NEW r \in Request, LinkFails(r)
      PROVE  UNCHANGED tree
  BY <1>2 DEF LinkFails, T!AttachRolledBack
<1>3. ASSUME NEW r \in Request, NEW store \in {"record", "tree"}, RemoveFrom(r, store)
      PROVE  [T!Next]_tree
  <2>1. request[r].id \in Location
    BY <1>3, Fields DEF RemoveFrom
  <2>2. UNCHANGED tree \/ T!RemoveSubTree(request[r].id)
    BY <1>3 DEF RemoveFrom
  <2> QED
    BY <2>1, <2>2 DEF T!Next
<1>4. ASSUME NEW r \in Request,
             \/ \E id \in Location, parent \in Location \cup {NoParent} :
                    CreateLocation(r, id, parent) \/ UpdateLocationParent(r, id, parent)
             \/ \E id \in Location : NameItselfParent(r, id) \/ RemoveLocation(r, id)
             \/ SaveRecord(r) \/ Interrupt(r)
      PROVE  UNCHANGED tree
  BY <1>4 DEF CreateLocation, UpdateLocationParent, NameItselfParent, RemoveLocation,
     SaveRecord, Interrupt
<1> QED
  BY <1>1, <1>2, <1>3, <1>4 DEF Next, vars

LEMMA RowsChangeAsTable == Spec => T!Spec
<1>1. Init => RequestOK
  BY IdleType DEF Init, RequestOK
<1>2. Init => T!Init
  BY DEF Init
<1> QED
  BY <1>1, <1>2, NextRequest, StepRefines, PTL DEF Spec, T!Spec

-----------------------------------------------------------------------------
(* The theorems about the table, carried over.                             *)

(* What CachedLocationTree assumes, of the instance without calls.         *)
LEMMA NoCallers ==
    /\ NoParent \notin Location
    /\ {} \subseteq {"READ_WRITE", "READ_ONLY", "WRITE_ONLY", "OFF"}
    /\ 0 \in Nat
  BY HierarchyAssumption

LEMMA SameTable == T!Spec => P!Spec
<1>1. T!Init => P!Init
  BY SMTT(30) DEF T!Init, P!Init
<1>2. [T!Next]_tree => [P!Next]_tree
  BY DEF T!Next, P!Next, T!RemoveSubTree, P!RemoveSubTree, T!Detach, P!Detach, T!Attach, P!Attach,
         T!AttachRolledBack, P!AttachRolledBack, T!Rows, P!Rows, T!DeleteRows, P!DeleteRows,
         T!Detached, P!Detached, T!DetachedRows, P!DetachedRows, T!Linked, P!Linked,
         T!SelfLink, P!SelfLink, T!Conflicts, P!Conflicts, T!NewRows, P!NewRows,
         T!InsertRows, P!InsertRows
<1> QED
  BY <1>1, <1>2, PTL DEF T!Spec, P!Spec

(* The rows that the service keeps are a transitive closure without        *)
(* cycles, whose depths are distances.                                     *)
THEOREM RowsAreHierarchy == Spec => [](T!Closure /\ T!Acyclic /\ T!DepthIsDistance)
<1>1. P!Closure => T!Closure
  BY DEF P!Closure, T!Closure, P!IsReflexive, T!IsReflexive, P!IsTransitive, T!IsTransitive
<1>2. P!Acyclic => T!Acyclic
  BY DEF P!Acyclic, T!Acyclic, P!IsAcyclic, T!IsAcyclic
<1>3. P!DepthIsDistance => T!DepthIsDistance
  BY DEF P!DepthIsDistance, T!DepthIsDistance, P!IsDistance, T!IsDistance
<1> QED
  BY <1>1, <1>2, <1>3, NoCallers, RowsChangeAsTable, SameTable,
     P!ClosureInvariant, P!AcyclicInvariant, P!DepthInvariant, PTL

-----------------------------------------------------------------------------
(* What the statements do to rows and parents.                             *)

Row(a, b) == <<a, b>> \in DOMAIN tree

(* What the reads return of a table in which every chain of rows has a     *)
(* first and a last link.                                                  *)
LEMMA TreeFacts ==
    ASSUME P!Stepwise(tree)
    PROVE  /\ \A a, b \in Location : Row(a, b) => Row(a, a) /\ Row(b, b)
           /\ \A a, b, c \in Location : Row(a, b) /\ Row(b, c) => Row(a, c)
           /\ \A a, b \in Location : Row(a, b) /\ Row(b, a) => a = b
           /\ \A a, b \in Location : a \in TreeParents(b) => Row(a, b) /\ a # b
           /\ \A a, c \in Location : Row(a, c) /\ a # c =>
                /\ \E b \in T!ImmediateChildren(tree, a) : Row(b, c)
                /\ \E b \in TreeParents(c) : Row(a, b)
<1>1. P!IsHierarchy(tree) /\ P!IsStepwise(tree)
  BY DEF P!Stepwise
<1>2. \A a, b \in Location : Row(a, b) => Row(a, a) /\ Row(b, b)
  <2> SUFFICES ASSUME NEW a \in Location, NEW b \in Location, Row(a, b)
               PROVE  Row(a, a) /\ Row(b, b)
    OBVIOUS
  <2>1. <<a, b>>[1] = a /\ <<a, b>>[2] = b
    OBVIOUS
  <2> QED
    BY <1>1, <2>1 DEF Row, P!IsHierarchy, P!IsClosure, P!IsReflexive
<1>3. \A a, b, c \in Location : Row(a, b) /\ Row(b, c) => Row(a, c)
  BY <1>1 DEF Row, P!IsHierarchy, P!IsClosure, P!IsTransitive
<1>4. \A a, b \in Location : Row(a, b) /\ Row(b, a) => a = b
  BY <1>1 DEF Row, P!IsHierarchy, P!IsAcyclic
<1>5. \A a, b \in Location : P!Link(tree, a, b) <=> a \in TreeParents(b)
  BY DEF P!Link, TreeParents, T!ImmediateChildren
<1>6. \A a, b \in Location : P!Link(tree, a, b) <=> b \in T!ImmediateChildren(tree, a)
  BY DEF P!Link, T!ImmediateChildren
<1>7. \A a, b \in Location : a \in TreeParents(b) => Row(a, b) /\ a # b
  <2> SUFFICES ASSUME NEW a \in Location, NEW b \in Location, P!Link(tree, a, b)
               PROVE  Row(a, b) /\ a # b
    BY <1>5
  <2>1. <<a, b>> \in DOMAIN tree /\ tree[<<a, b>>] = 1 /\ <<a, b>>[1] = a /\ <<a, b>>[2] = b
    BY DEF P!Link
  <2> QED
    BY <1>1, <2>1 DEF Row, P!IsHierarchy, P!IsDistance
<1>8. \A a, c \in Location : Row(a, c) /\ a # c =>
          /\ \E b \in T!ImmediateChildren(tree, a) : Row(b, c)
          /\ \E b \in TreeParents(c) : Row(a, b)
  BY <1>1, <1>5, <1>6 DEF P!IsStepwise, Row
<1> QED
  BY <1>2, <1>3, <1>4, <1>7, <1>8

(* The rows that the deletion of a move leaves, and those before its cross *)
(* join.                                                                   *)
Kept(id, hasPrev, a, b) == Row(a, b) /\ (hasPrev /\ Row(id, b) => Row(id, a))
Joined(id, parent, hasPrev, a, b) ==
    Kept(id, hasPrev, a, b) \/ (a = b /\ a \in {id, parent})

LEMMA DetachFacts ==
    ASSUME NEW id \in Location, NEW hasPrev \in BOOLEAN, T!Detach(id, hasPrev)
    PROVE  \A a, b \in Location :
               /\ Row(a, b)' <=> Kept(id, hasPrev, a, b)
               /\ a \in TreeParents(b)' <=> a \in TreeParents(b) /\ Kept(id, hasPrev, a, b)
<1>1. \A a, b \in Location : Row(a, b)' <=> Kept(id, hasPrev, a, b)
  BY DEF T!Detach, T!Detached, T!DeleteRows, T!DetachedRows, Row, Kept
<1>2. \A k \in DOMAIN tree' : k \in DOMAIN tree /\ tree'[k] = tree[k]
  BY DEF T!Detach, T!Detached, T!DeleteRows
<1> QED
  BY <1>1, <1>2 DEF TreeParents, T!ImmediateChildren, Row, Kept

LEMMA RemoveFacts ==
    ASSUME NEW id \in Location, T!RemoveSubTree(id)
    PROVE  \A a, b \in Location :
               /\ Row(a, b)' <=> Row(a, b) /\ ~Row(id, b)
               /\ a \in TreeParents(b)' <=> a \in TreeParents(b) /\ ~Row(id, b)
<1>1. \A a, b \in Location : Row(a, b)' <=> Row(a, b) /\ ~Row(id, b)
  BY DEF T!RemoveSubTree, T!Rows, T!DeleteRows, Row
<1>2. \A k \in DOMAIN tree' : k \in DOMAIN tree /\ tree'[k] = tree[k]
  BY DEF T!RemoveSubTree, T!DeleteRows
<1> QED
  BY <1>1, <1>2 DEF TreeParents, T!ImmediateChildren, Row

LEMMA SameMove ==
    ASSUME NEW id, NEW parent, NEW hasPrev
    PROVE  /\ T!Linked(tree, id, parent, hasPrev) = P!Linked(tree, id, parent, hasPrev)
           /\ \A t : T!Conflicts(t, id, parent) <=> P!Conflicts(t, id, parent)
           /\ \A t : T!InsertRows(t, id, parent) = P!InsertRows(t, id, parent)
  BY DEF T!Linked, P!Linked, T!SelfLink, P!SelfLink, T!Detached, P!Detached,
         T!DeleteRows, P!DeleteRows, T!DetachedRows, P!DetachedRows, T!Conflicts,
         P!Conflicts, T!NewRows, P!NewRows, T!InsertRows, P!InsertRows

LEMMA AttachFacts ==
    ASSUME P!Stepwise(tree), NEW id \in Location, NEW parent \in Location, id # parent,
           NEW hasPrev \in BOOLEAN, T!Attach(id, parent, hasPrev)
    PROVE  /\ \A a, b \in Location :
               /\ Row(a, b)' <=>
                    \/ Joined(id, parent, hasPrev, a, b)
                    \/ Joined(id, parent, hasPrev, a, parent) /\ Joined(id, parent, hasPrev, id, b)
               /\ a \in TreeParents(b)' <=>
                    \/ a \in TreeParents(b) /\ Kept(id, hasPrev, a, b)
                    \/ a = parent /\ b = id
           /\ ~Joined(id, parent, hasPrev, id, parent)
<1> DEFINE l == P!Linked(tree, id, parent, hasPrev)
<1>1. ~P!Conflicts(l, id, parent) /\ tree' = P!InsertRows(l, id, parent)
  BY SameMove DEF T!Attach
<1>2. /\ \A a, b \in Location : <<a, b>> \in DOMAIN l <=>
            \/ a = b /\ a \in {id, parent}
            \/ P!Stays(tree, id, hasPrev, a, b)
      /\ \A a, b \in Location : <<a, b>> \in DOMAIN tree' <=>
            \/ <<a, b>> \in DOMAIN l
            \/ <<a, parent>> \in DOMAIN l /\ <<id, b>> \in DOMAIN l
      /\ <<id, parent>> \notin DOMAIN l
      /\ \A k \in DOMAIN tree \cap DOMAIN l : tree'[k] = tree[k]
      /\ \A a, b \in Location : P!Link(tree', a, b) <=>
            \/ P!Link(tree, a, b) /\ <<a, b>> \in DOMAIN l
            \/ a = parent /\ b = id
  BY <1>1, NoCallers, P!RowsOfMove
<1> HIDE DEF l
<1>3. \A a, b \in Location : <<a, b>> \in DOMAIN l <=> Joined(id, parent, hasPrev, a, b)
  BY <1>2 DEF Joined, Kept, Row, P!Stays
<1>4. \A a, b \in Location :
          /\ P!Link(tree, a, b) <=> a \in TreeParents(b)
          /\ P!Link(tree', a, b) <=> a \in TreeParents(b)'
  BY DEF P!Link, TreeParents, T!ImmediateChildren
<1>5. \A a, b \in Location : a \in TreeParents(b) => Row(a, b) /\ a # b
  BY TreeFacts
<1> QED
  BY <1>2, <1>3, <1>4, <1>5 DEF Row, Joined

-----------------------------------------------------------------------------
(* The invariant of requests that may overlap.                             *)

RecordOK == record \in [Location -> {"unused", "removed", NoParent} \cup Location]

(* The locations that are exceptions, and: every location is one.          *)
Broken == interrupted \cup overlapped
Lost == Location \subseteq overlapped

Only(id, parent) == TreeParents(id) = IF parent = NoParent THEN {} ELSE {parent}

(* What StoresAgree says of one location.                                  *)
Agree(id) ==
    /\ Exists(id) => SameParent(id)
    /\ ~Exists(id) => TreeParents(id) = {}
    /\ record[id] \in Location => Exists(record[id])

(* No rows of a location that is still to be created.                      *)
Unused == \A a, b \in Location : Row(a, b) => record[a] # "unused" /\ record[b] # "unused"

(* Whatever is above an existing location exists.                          *)
Upward == \A a, b \in Location : Row(a, b) /\ Exists(b) => Exists(a)

OneParent ==
    \A x \in Location : x \notin Broken => \A a, b \in TreeParents(x) : a = b

(* Of two locations above a third, one is above the other, if no location  *)
(* between the third and one of them is an exception.                      *)
Forest ==
    \A a, b, c \in Location :
        Row(a, c) /\ Row(b, c) /\ (\A x \in Location : x \in Broken /\ Row(b, x) /\ Row(x, c) => x = b)
            => Row(a, b) \/ Row(b, a)

(* Of two requests that work on one location it is an exception, and       *)
(* nothing that is being removed is named by another request.              *)
Alone ==
    \A r, s \in Request :
        r # s /\ request[r].pc # "idle" /\ request[s].pc # "idle" =>
            /\ request[r].id = request[s].id => request[r].id \in overlapped
            /\ request[r].pc = "remove" => request[r].id \notin Named(request[s])

(* Locations that no request is working on agree.                          *)
Settled ==
    \A id \in Location \ Broken :
        (\A r \in Request : request[r].pc = "idle" \/ request[r].id # id) => Agree(id)

(* Nothing that exists is below the location.                              *)
Leaf(y) == \A c \in Location : Row(y, c) /\ Exists(c) => c = y

(* What a request has found or brought about so far: where it links and    *)
(* saves there are locations; before the link of a new location it has no  *)
(* parent, before the link of an old one the stores agree; what is removed *)
(* has no existing location below it.                                      *)
AtWork(q) ==
    /\ q.pc # "idle" => record[q.id] # "unused"
    /\ q.pc \in {"link", "save"} /\ q.parent # q.id =>
        Exists(q.id) /\ (q.parent # NoParent => Exists(q.parent))
    /\ q.pc = "link" /\ q.id \notin Broken =>
        /\ q.saves => Agree(q.id) /\ (q.hasPrev \/ record[q.id] = NoParent)
        /\ ~q.saves => /\ q.parent # NoParent /\ record[q.id] = q.parent
                       /\ TreeParents(q.id) = {}
    /\ q.pc = "save" /\ q.id \notin Broken =>
        /\ q.parent = q.id => Agree(q.id)
        /\ q.parent # q.id => Only(q.id, q.parent)
    /\ q.pc = "remove" =>
        /\ Leaf(q.id)
        /\ "record" \notin q.todo => record[q.id] = "removed"
        /\ q.id \notin Broken /\ "tree" \notin q.todo => TreeParents(q.id) = {}

Apart ==
    /\ Unused /\ Upward /\ OneParent /\ Forest /\ Alone /\ Settled
    /\ \A r \in Request : AtWork(request[r])

-----------------------------------------------------------------------------
(* What a step on one location leaves of the others.                       *)

LEMMA Existing ==
    ASSUME RecordOK, NEW id \in Location
    PROVE  Exists(id) <=> record[id] \in Location \cup {NoParent}
  BY HierarchyAssumption DEF RecordOK, Exists

LEMMA NoRowsNoParents ==
    ASSUME P!Stepwise(tree), NEW id \in Location, \A a \in Location : ~Row(a, id)
    PROVE  TreeParents(id) = {}
  BY TreeFacts DEF TreeParents

(* Nothing changes of the other locations, as far as they exist.           *)
Around(id) ==
    /\ Broken \subseteq Broken'
    /\ \A x \in Location : x # id => record'[x] = record[x]
    /\ \A x \in Location : x # id /\ x \notin Broken /\ (Exists(x) \/ TreeParents(x) = {}) =>
            TreeParents(x)' = TreeParents(x)

LEMMA AgreeKept ==
    ASSUME NEW id \in Location, Around(id), NEW x \in Location, x # id, x \notin Broken, Agree(x),
           record[x] = id => (Exists(id) => Exists(id)')
    PROVE  Agree(x)'
<1>1. record'[x] = record[x] /\ (Exists(x)' <=> Exists(x)) /\ TreeParents(x)' = TreeParents(x)
  BY DEF Around, Agree, Exists
<1>2. ASSUME NEW y \in Location, y = record[x]
      PROVE  Exists(y)'
  <2>1. Exists(y)
    BY <1>2 DEF Agree
  <2>2. CASE y = id
    BY <1>2, <2>1, <2>2
  <2>3. CASE y # id
    BY <2>1, <2>3 DEF Around, Exists
  <2> QED
    BY <2>2, <2>3
<1>3. SameParent(x) => SameParent(x)'
  BY <1>1 DEF SameParent
<1> QED
  BY <1>1, <1>2, <1>3 DEF Agree

(* What another request q has found stays true.                            *)
LEMMA AtWorkKept ==
    ASSUME NEW id \in Location, Around(id), NEW q \in RequestType, AtWork(q),
           q.pc # "idle" /\ q.id = id => id \in Broken' /\ q.pc # "remove",
           record'[id] # "unused",
           q.pc \in {"link", "save"} /\ (q.id = id \/ q.parent = id) => (Exists(id) => Exists(id)'),
           \A x \in Location : x # id /\ x \notin Broken /\ Agree(x) => Agree(x)',
           q.pc = "remove" => Leaf(q.id)'
    PROVE  AtWork(q)'
<1>1. CASE q.pc = "idle"
  BY <1>1 DEF AtWork
<1>2. CASE q.pc \in {"link", "save"}
  <2>1. q.id \in Location /\ q.parent \in Location \cup {NoParent} /\ (q.pc = "link" => q.parent # q.id)
    BY <1>2 DEF RequestType
  <2>2. record'[q.id] # "unused"
    BY <1>2, <2>1 DEF AtWork, Around
  <2>3. q.parent # q.id => Exists(q.id)' /\ (q.parent # NoParent => Exists(q.parent)')
    <3>1. \A x \in Location : x # id => (Exists(x)' <=> Exists(x))
      BY DEF Around, Exists
    <3> QED
      BY <1>2, <2>1, <3>1 DEF AtWork
  <2>4. CASE q.id \in Broken'
    BY <1>2, <2>2, <2>3, <2>4 DEF AtWork
  <2>5. CASE q.id \notin Broken'
    <3>1. /\ q.id # id /\ q.id \notin Broken /\ record'[q.id] = record[q.id]
          /\ Exists(q.id) \/ TreeParents(q.id) = {} => TreeParents(q.id)' = TreeParents(q.id)
          /\ Agree(q.id) => Agree(q.id)'
      BY <1>2, <2>1, <2>5 DEF Around
    <3>2. CASE q.pc = "link"
      BY <2>1, <2>2, <2>3, <3>1, <3>2 DEF AtWork
    <3>3. CASE q.pc = "save"
      <4>1. q.parent # q.id => Only(q.id, q.parent)'
        BY <3>1, <3>3 DEF AtWork, Only
      <4> QED
        BY <2>1, <2>2, <2>3, <3>1, <3>3, <4>1 DEF AtWork
    <3> QED
      BY <1>2, <3>2, <3>3
  <2> QED
    BY <2>4, <2>5
<1>3. CASE q.pc = "remove"
  <2>1. q.id \in Location /\ q.id # id
    BY <1>3 DEF RequestType
  <2>2. record'[q.id] = record[q.id]
    BY <2>1 DEF Around
  <2>3. q.id \notin Broken' /\ "tree" \notin q.todo => TreeParents(q.id)' = {}
    BY <1>3, <2>1 DEF Around, AtWork
  <2> QED
    BY <1>3, <2>2, <2>3 DEF AtWork
<1> QED
  BY <1>1, <1>2, <1>3 DEF RequestType

(* A request that starts or goes on becomes state.                         *)
LEMMA ApartStep ==
    ASSUME RequestOK, NEW r \in Request, NEW state \in RequestType, Become(r, state),
           Alone, overlapped \subseteq overlapped',
           \A s \in Request \ {r} : state.pc # "idle" /\ request[s].pc # "idle" =>
                /\ state.id = request[s].id => state.id \in overlapped'
                /\ state.pc = "remove" => state.id \notin Named(request[s])
                /\ request[s].pc = "remove" => request[s].id \notin Named(state),
           Unused', Upward', OneParent', Forest',
           \A id \in Location : /\ id \notin Broken'
                                /\ state.pc = "idle" \/ state.id # id
                                /\ \A s \in Request \ {r} : request[s].pc = "idle" \/ request[s].id # id
                                => Agree(id)',
           AtWork(state)',
           \A q \in RequestType : (\E s \in Request \ {r} : q = request[s]) => AtWork(q)'
    PROVE  Apart'
<1>1. /\ request'[r] = state
      /\ \A q \in Request \ {r} : request'[q] = request[q]
      /\ \A q \in Request : request[q] \in RequestType
  BY DEF Become, RequestOK
<1>2. Alone'
  <2>1. \A q, s \in Request :
            q # s /\ request'[q].pc # "idle" /\ request'[s].pc # "idle" =>
                /\ request'[q].id = request'[s].id => request'[q].id \in overlapped'
                /\ request'[q].pc = "remove" => request'[q].id \notin Named(request'[s])
    BY <1>1 DEF Alone
  <2> QED
    BY <2>1 DEF Alone, Named
<1>3. Settled'
  <2>1. \A id \in Location \ Broken' :
            (\A q \in Request : request'[q].pc = "idle" \/ request'[q].id # id) => Agree(id)'
    BY <1>1
  <2> QED
    BY <2>1 DEF Settled
<1>4. ASSUME NEW q \in Request
      PROVE  AtWork(request[q])'
  <2>1. PICK t \in RequestType : t = request'[q] /\ AtWork(t)'
    BY <1>1
  <2> QED
    BY <2>1 DEF AtWork, Exists, Only, Agree, SameParent, TreeParents, Row, Broken, Leaf
<1> QED
  BY <1>2, <1>3, <1>4 DEF Apart

LEMMA SameStores ==
    ASSUME UNCHANGED <<record, tree>>, Broken \subseteq Broken'
    PROVE  /\ Unused => Unused'
           /\ Upward => Upward'
           /\ OneParent => OneParent'
           /\ Forest => Forest'
           /\ \A x : Agree(x) => Agree(x)'
           /\ \A x : (Exists(x)' <=> Exists(x)) /\ TreeParents(x)' = TreeParents(x)
           /\ \A a, b : Row(a, b)' <=> Row(a, b)
           /\ \A q : AtWork(q) => AtWork(q)'
<1>1. /\ \A x : (Exists(x)' <=> Exists(x)) /\ TreeParents(x)' = TreeParents(x)
      /\ \A a, b : Row(a, b)' <=> Row(a, b)
      /\ \A x : Agree(x) => Agree(x)'
  BY DEF Agree, SameParent, Exists, TreeParents, Row, T!ImmediateChildren
<1>2. Unused => Unused'
  BY <1>1 DEF Unused
<1>3. Upward => Upward'
  BY <1>1 DEF Upward
<1>4. OneParent => OneParent'
  BY <1>1 DEF OneParent
<1>5. Forest => Forest'
  BY <1>1 DEF Forest
<1>6. \A q : AtWork(q) => AtWork(q)'
  BY <1>1 DEF AtWork, Only, Leaf
<1> QED
  BY <1>1, <1>2, <1>3, <1>4, <1>5, <1>6

-----------------------------------------------------------------------------
(* How the statements of the requests change the two stores.               *)

(* What every one of them keeps.                                           *)
Keeps(id) ==
    /\ Around(id) /\ Unused' /\ Upward' /\ OneParent' /\ Forest'
    /\ \A x \in Location : x # id /\ x \notin Broken /\ Agree(x) => Agree(x)'

LEMMA RecordOfNew ==
    ASSUME P!Stepwise(tree), RecordOK, Unused, Upward, OneParent, Forest, Broken \subseteq Broken',
           NEW id \in Location, record[id] = "unused",
           NEW parent \in Location \cup {NoParent}, parent # NoParent => Exists(parent),
           record' = [record EXCEPT ![id] = parent], UNCHANGED tree
    PROVE  /\ Keeps(id)
           /\ record'[id] = parent /\ Exists(id)' /\ (parent # NoParent => Exists(parent)')
           /\ TreeParents(id) = {} /\ TreeParents(id)' = {}
           /\ \A y \in Location \ {id} : Leaf(y) => Leaf(y)'
<1>1. \A a \in Location : ~Row(a, id) /\ ~Row(id, a)
  BY DEF Unused
<1>2. /\ record'[id] = parent
      /\ \A x \in Location \ {id} : record'[x] = record[x]
  BY DEF RecordOK
<1>3. \A x \in Location : x # id => (Exists(x) <=> Exists(x)')
  BY <1>2 DEF Exists
<1>4. Exists(id)' /\ (parent # NoParent => Exists(parent)') /\ ~Exists(id)
  BY <1>2, <1>3, HierarchyAssumption DEF Exists
<1>5. /\ \A a, b \in Location : Row(a, b)' <=> Row(a, b)
      /\ \A x \in Location : TreeParents(x)' = TreeParents(x)
  BY DEF Row, TreeParents, T!ImmediateChildren
<1>6. Unused'
  <2>1. \A a, b \in Location : Row(a, b)' => record'[a] # "unused" /\ record'[b] # "unused"
    BY <1>1, <1>2, <1>5 DEF Unused
  <2> QED
    BY <2>1 DEF Unused
<1>7. Upward'
  <2>1. \A a, b \in Location : Row(a, b)' /\ Exists(b)' => Exists(a)'
    BY <1>1, <1>3, <1>4, <1>5 DEF Upward
  <2> QED
    BY <2>1 DEF Upward
<1>8. OneParent' /\ Forest'
  BY <1>5 DEF OneParent, Forest
<1>9. Around(id)
  BY <1>2, <1>5 DEF Around
<1>10. \A x \in Location : x # id /\ x \notin Broken /\ Agree(x) => Agree(x)'
  BY <1>4, <1>9, AgreeKept
<1>11. TreeParents(id) = {}
  BY <1>1, NoRowsNoParents
<1>12. \A y \in Location \ {id} : Leaf(y) => Leaf(y)'
  <2>1. ASSUME NEW y \in Location \ {id}, Leaf(y), NEW c \in Location, Row(y, c)', Exists(c)'
        PROVE  c = y
    BY <1>1, <1>3, <1>5, <2>1 DEF Leaf
  <2> QED
    BY <2>1 DEF Leaf
<1> QED
  BY <1>2, <1>4, <1>5, <1>6, <1>7, <1>8, <1>9, <1>10, <1>11, <1>12 DEF Keeps

LEMMA RecordOfOld ==
    ASSUME RecordOK, Unused, Upward, OneParent, Forest, Broken \subseteq Broken',
           NEW id \in Location, Exists(id),
           NEW parent \in Location \cup {NoParent}, parent # NoParent => Exists(parent),
           record' = [record EXCEPT ![id] = parent], UNCHANGED tree
    PROVE  /\ Keeps(id)
           /\ \A x \in Location : Exists(x)' <=> Exists(x)
           /\ record'[id] # "unused"
           /\ parent = id /\ Agree(id) => Agree(id)'
           /\ parent # id /\ Only(id, parent) => Agree(id)'
           /\ \A x \in Location : TreeParents(x)' = TreeParents(x)
           /\ \A y \in Location : Leaf(y) => Leaf(y)'
<1>1. /\ record'[id] = parent
      /\ \A x \in Location \ {id} : record'[x] = record[x]
  BY DEF RecordOK
<1>2. Exists(id)' /\ record'[id] # "unused"
  BY <1>1, HierarchyAssumption DEF Exists
<1>3. \A x \in Location : Exists(x) <=> Exists(x)'
  BY <1>1, <1>2 DEF Exists
<1>4. /\ \A a, b \in Location : Row(a, b)' <=> Row(a, b)
      /\ \A x \in Location : TreeParents(x)' = TreeParents(x)
  BY DEF Row, TreeParents, T!ImmediateChildren
<1>5. Unused'
  <2>1. \A x \in Location : record[x] # "unused" => record'[x] # "unused"
    BY <1>1, <1>2 DEF Exists
  <2> QED
    BY <1>4, <2>1 DEF Unused
<1>6. Upward' /\ OneParent' /\ Forest'
  BY <1>3, <1>4 DEF Upward, OneParent, Forest
<1>7. Around(id)
  BY <1>1, <1>4 DEF Around
<1>8. \A x \in Location : x # id /\ x \notin Broken /\ Agree(x) => Agree(x)'
  BY <1>2, <1>7, AgreeKept
<1>9. parent \in Location => \A y \in Location : y = parent => Exists(y)'
  BY <1>3, HierarchyAssumption
<1>10. CASE parent = id
  <2>1. Agree(id) => \A p, q \in TreeParents(id) : p = q
    BY DEF Agree, SameParent
  <2>2. Agree(id) => Agree(id)'
    BY <1>1, <1>2, <1>4, <1>10, <2>1 DEF Agree, SameParent
  <2> QED
    BY <1>2, <1>3, <1>4, <1>5, <1>6, <1>7, <1>8, <1>10, <2>2 DEF Keeps, Leaf
<1>11. CASE parent # id
  <2>1. Only(id, parent) => SameParent(id)'
    BY <1>1, <1>4, <1>11 DEF Only, SameParent
  <2>2. Only(id, parent) => Agree(id)'
    BY <1>1, <1>2, <1>9, <2>1 DEF Agree
  <2> QED
    BY <1>2, <1>3, <1>4, <1>5, <1>6, <1>7, <1>8, <1>11, <2>2 DEF Keeps, Leaf
<1> QED
  BY <1>10, <1>11

LEMMA RecordRemoved ==
    ASSUME P!Stepwise(tree), RecordOK, Unused, Upward, OneParent, Forest, Broken \subseteq Broken',
           NEW id \in Location, Leaf(id),
           record' = [record EXCEPT ![id] = "removed"], UNCHANGED tree
    PROVE  /\ Keeps(id)
           /\ TreeParents(id) = {} => Agree(id)'
           /\ record'[id] = "removed"
           /\ \A x \in Location : TreeParents(x)' = TreeParents(x)
           /\ \A y \in Location : Leaf(y) => Leaf(y)'
<1>1. /\ record'[id] = "removed"
      /\ \A x \in Location \ {id} : record'[x] = record[x]
  BY DEF RecordOK
<1>2. ~Exists(id)' /\ \A x \in Location \ {id} : Exists(x) <=> Exists(x)'
  BY <1>1 DEF Exists
<1>3. /\ \A a, b \in Location : Row(a, b)' <=> Row(a, b)
      /\ \A x \in Location : TreeParents(x)' = TreeParents(x)
  BY DEF Row, TreeParents, T!ImmediateChildren
<1>4. Unused'
  <2>1. \A x \in Location : record[x] # "unused" => record'[x] # "unused"
    BY <1>1
  <2> QED
    BY <1>3, <2>1 DEF Unused
<1>5. Upward'
  <2>1. \A a, b \in Location : Row(a, b)' /\ Exists(b)' => Exists(a)'
    BY <1>2, <1>3 DEF Upward, Leaf
  <2> QED
    BY <2>1 DEF Upward
<1>6. OneParent' /\ Forest'
  BY <1>3 DEF OneParent, Forest
<1>7. Around(id)
  BY <1>1, <1>3 DEF Around
<1>8. ASSUME NEW x \in Location, x # id, x \notin Broken, Agree(x)
      PROVE  Agree(x)'
  <2>1. record[x] # id
    <3> SUFFICES ASSUME record[x] = id PROVE FALSE
      OBVIOUS
    <3>1. Exists(x)
      BY Existing
    <3>2. id \in TreeParents(x)
      BY <1>8, <3>1, HierarchyAssumption DEF Agree, SameParent
    <3> QED
      BY <1>8, <3>1, <3>2, TreeFacts DEF Leaf
  <2> QED
    BY <1>7, <1>8, <2>1, AgreeKept
<1>9. TreeParents(id) = {} => Agree(id)'
  BY <1>1, <1>2, <1>3, HierarchyAssumption DEF Agree
<1>10. \A y \in Location : Leaf(y) => Leaf(y)'
  BY <1>2, <1>3 DEF Leaf
<1> QED
  BY <1>1, <1>3, <1>4, <1>5, <1>6, <1>7, <1>8, <1>9, <1>10 DEF Keeps

LEMMA RowsRemoved ==
    ASSUME P!Stepwise(tree), Unused, Upward, OneParent, Forest, Broken \subseteq Broken',
           NEW id \in Location, Leaf(id), T!RemoveSubTree(id), UNCHANGED record
    PROVE  /\ Keeps(id)
           /\ TreeParents(id)' = {}
           /\ \A y \in Location : Leaf(y) => Leaf(y)'
<1>1. \A a, b \in Location :
          /\ Row(a, b)' <=> Row(a, b) /\ ~Row(id, b)
          /\ a \in TreeParents(b)' <=> a \in TreeParents(b) /\ ~Row(id, b)
  BY RemoveFacts
<1>2. \A x : Exists(x)' <=> Exists(x)
  BY DEF Exists
<1>3. \A x : TreeParents(x) \subseteq Location /\ TreeParents(x)' \subseteq Location
  BY DEF TreeParents
<1>4. Unused' /\ Upward'
  <2>1. \A a, b \in Location : Row(a, b)' => record'[a] # "unused" /\ record'[b] # "unused"
    BY <1>1 DEF Unused
  <2>2. \A a, b \in Location : Row(a, b)' /\ Exists(b)' => Exists(a)'
    BY <1>1, <1>2 DEF Upward
  <2> QED
    BY <2>1, <2>2 DEF Unused, Upward
<1>5. OneParent'
  <2>1. ASSUME NEW x \in Location, x \notin Broken', NEW a \in TreeParents(x)', NEW b \in TreeParents(x)'
        PROVE  a = b
    BY <1>1, <1>3, <2>1 DEF OneParent
  <2> QED
    BY <2>1 DEF OneParent
<1>6. Forest'
  <2>1. \A a, b, c \in Location : Row(a, b) /\ Row(b, c) => Row(a, c)
    BY TreeFacts
  <2>2. ASSUME NEW a \in Location, NEW b \in Location, NEW c \in Location, Row(a, c)', Row(b, c)',
               \A x \in Location : x \in Broken' /\ Row(b, x)' /\ Row(x, c)' => x = b
        PROVE  Row(a, b)' \/ Row(b, a)'
    <3>1. Row(a, c) /\ Row(b, c) /\ ~Row(id, c)
      BY <1>1, <2>2
    <3>2. \A x \in Location : Row(x, c) => ~Row(id, x)
      BY <2>1, <3>1
    <3>3. \A x \in Location : x \in Broken /\ Row(b, x) /\ Row(x, c) => x = b
      BY <1>1, <2>2, <3>1, <3>2
    <3> QED
      BY <1>1, <3>1, <3>2, <3>3 DEF Forest
  <2> QED
    BY <2>2 DEF Forest
<1>7. Around(id)
  <2>1. ASSUME NEW x \in Location, x # id, Exists(x) \/ TreeParents(x) = {}
        PROVE  TreeParents(x)' = TreeParents(x)
    BY <1>1, <1>3, <2>1 DEF Leaf
  <2> QED
    BY <2>1 DEF Around
<1>8. \A x \in Location : x # id /\ x \notin Broken /\ Agree(x) => Agree(x)'
  BY <1>2, <1>7, AgreeKept
<1>9. TreeParents(id)' = {}
  <2>1. \A a \in Location : a \in TreeParents(id) => Row(id, id)
    BY TreeFacts
  <2> QED
    BY <1>1, <1>3, <2>1
<1>10. \A y \in Location : Leaf(y) => Leaf(y)'
  BY <1>1, <1>2 DEF Leaf
<1> QED
  BY <1>4, <1>5, <1>6, <1>7, <1>8, <1>9, <1>10 DEF Keeps

(* After the deletion of a move of id, or if id had no parent, none but    *)
(* its self row leads to id.                                               *)
LEMMA KeptFacts ==
    ASSUME P!Stepwise(tree), NEW id \in Location, NEW hasPrev \in BOOLEAN
    PROVE  /\ hasPrev \/ TreeParents(id) = {} =>
                \A a \in Location : Kept(id, hasPrev, a, id) => a = id
           /\ \A a, b, c \in Location :
                Kept(id, hasPrev, a, b) /\ Kept(id, hasPrev, b, c) => Kept(id, hasPrev, a, c)
<1>1. /\ \A a, b \in Location : Row(a, b) => Row(a, a) /\ Row(b, b)
      /\ \A a, b, c \in Location : Row(a, b) /\ Row(b, c) => Row(a, c)
      /\ \A a, b \in Location : Row(a, b) /\ Row(b, a) => a = b
  BY TreeFacts
<1>2. CASE hasPrev
  BY <1>1, <1>2 DEF Kept
<1>3. CASE ~hasPrev
  BY <1>1, <1>3, TreeFacts DEF Kept
<1> QED
  BY <1>2, <1>3

(* Two locations above a third, after the deletion.                        *)
LEMMA KeptForest ==
    ASSUME P!Stepwise(tree), Forest, NEW id \in Location, NEW hasPrev \in BOOLEAN,
           NEW a \in Location, NEW b \in Location, NEW c \in Location,
           Kept(id, hasPrev, a, c), Kept(id, hasPrev, b, c),
           \A x \in Location :
                x \in Broken /\ Kept(id, hasPrev, b, x) /\ Kept(id, hasPrev, x, c) => x = b
    PROVE  Kept(id, hasPrev, a, b) \/ Kept(id, hasPrev, b, a)
<1>1. \A x, y, z \in Location : Row(x, y) /\ Row(y, z) => Row(x, z)
  BY TreeFacts
<1>2. Row(a, c) /\ Row(b, c)
  BY DEF Kept
<1>3. \A x \in Location : Row(b, x) /\ Row(x, c) =>
          Kept(id, hasPrev, b, x) /\ Kept(id, hasPrev, x, c)
  BY <1>1 DEF Kept
<1>4. Row(a, b) \/ Row(b, a)
  BY <1>2, <1>3 DEF Forest
<1> QED
  BY <1>1, <1>4 DEF Kept

(* A move of another location leaves the parent of x: whatever is above x  *)
(* is above its parent.                                                    *)
LEMMA ParentKept ==
    ASSUME P!Stepwise(tree), OneParent, NEW id \in Location, NEW hasPrev \in BOOLEAN,
           NEW x \in Location, x # id, x \notin Broken
    PROVE  \A p \in TreeParents(x) : Kept(id, hasPrev, p, x)
<1> SUFFICES ASSUME NEW p \in TreeParents(x), Row(id, x)
             PROVE  Row(id, p)
  BY TreeFacts DEF Kept, TreeParents
<1>1. PICK b \in TreeParents(x) : Row(id, b)
  BY TreeFacts
<1> QED
  BY <1>1 DEF OneParent

LEMMA DetachKeeps ==
    ASSUME P!Stepwise(tree), Unused, Upward, OneParent, Forest, Broken \subseteq Broken',
           NEW id \in Location, NEW hasPrev \in BOOLEAN, T!Detach(id, hasPrev), UNCHANGED record
    PROVE  /\ Keeps(id)
           /\ hasPrev \/ TreeParents(id) = {} => TreeParents(id)' = {}
           /\ \A y \in Location : Leaf(y) => Leaf(y)'
<1>1. \A a, b \in Location :
          /\ Row(a, b)' <=> Kept(id, hasPrev, a, b)
          /\ a \in TreeParents(b)' <=> a \in TreeParents(b) /\ Kept(id, hasPrev, a, b)
  BY DetachFacts
<1>2. \A x : Exists(x)' <=> Exists(x)
  BY DEF Exists
<1>3. \A x : TreeParents(x) \subseteq Location /\ TreeParents(x)' \subseteq Location
  BY DEF TreeParents
<1>4. Unused' /\ Upward'
  <2>1. \A a, b \in Location : Row(a, b)' => record'[a] # "unused" /\ record'[b] # "unused"
    BY <1>1 DEF Unused, Kept
  <2>2. \A a, b \in Location : Row(a, b)' /\ Exists(b)' => Exists(a)'
    BY <1>1, <1>2 DEF Upward, Kept
  <2> QED
    BY <2>1, <2>2 DEF Unused, Upward
<1>5. OneParent'
  <2>1. ASSUME NEW x \in Location, x \notin Broken', NEW a \in TreeParents(x)', NEW b \in TreeParents(x)'
        PROVE  a = b
    BY <1>1, <1>3, <2>1 DEF OneParent
  <2> QED
    BY <2>1 DEF OneParent
<1>6. Forest'
  <2>1. ASSUME NEW a \in Location, NEW b \in Location, NEW c \in Location, Row(a, c)', Row(b, c)',
               \A x \in Location : x \in Broken' /\ Row(b, x)' /\ Row(x, c)' => x = b
        PROVE  Row(a, b)' \/ Row(b, a)'
    BY <1>1, <2>1, KeptForest
  <2> QED
    BY <2>1 DEF Forest
<1>7. Around(id)
  <2>1. ASSUME NEW x \in Location, x # id, x \notin Broken
        PROVE  TreeParents(x)' = TreeParents(x)
    BY <1>1, <1>3, <2>1, ParentKept
  <2> QED
    BY <2>1 DEF Around
<1>8. \A x \in Location : x # id /\ x \notin Broken /\ Agree(x) => Agree(x)'
  BY <1>2, <1>7, AgreeKept
<1>9. hasPrev \/ TreeParents(id) = {} => TreeParents(id)' = {}
  BY <1>1, <1>3, KeptFacts, TreeFacts
<1>10. \A y \in Location : Leaf(y) => Leaf(y)'
  BY <1>1, <1>2 DEF Leaf, Kept
<1> QED
  BY <1>4, <1>5, <1>6, <1>7, <1>8, <1>9, <1>10 DEF Keeps

LEMMA AttachKeeps ==
    ASSUME P!Stepwise(tree), Unused, Upward, OneParent, Forest, Broken \subseteq Broken',
           NEW id \in Location, NEW parent \in Location, id # parent, Exists(id), Exists(parent),
           NEW hasPrev \in BOOLEAN, T!Attach(id, parent, hasPrev), UNCHANGED record,
           hasPrev \/ TreeParents(id) = {} \/ id \in Broken
    PROVE  /\ Keeps(id)
           /\ hasPrev \/ TreeParents(id) = {} => TreeParents(id)' = {parent}
           /\ \A y \in Location \ {parent} : Leaf(y) => Leaf(y)'
           /\ ~Row(id, parent)
<1> DEFINE K(a, b) == Kept(id, hasPrev, a, b)
           J(a, b) == Joined(id, parent, hasPrev, a, b)
<1>1. /\ \A a, b \in Location :
            /\ Row(a, b)' <=> J(a, b) \/ (J(a, parent) /\ J(id, b))
            /\ a \in TreeParents(b)' <=>
                    \/ a \in TreeParents(b) /\ K(a, b)
                    \/ a = parent /\ b = id
      /\ ~J(id, parent)
  BY AttachFacts
<1>2. \A x : Exists(x)' <=> Exists(x)
  BY DEF Exists
<1>3. \A x : TreeParents(x) \subseteq Location /\ TreeParents(x)' \subseteq Location
  BY DEF TreeParents
<1>4. \A a, b \in Location : J(a, b) <=> K(a, b) \/ (a = b /\ a \in {id, parent})
  BY DEF Joined
<1>5. \A a, b \in Location : K(a, b) => Row(a, b)
  BY DEF Kept
<1>6. ~Row(id, parent)
  BY <1>1, <1>4, TreeFacts DEF Kept
<1>7. \A x \in Location : x # id /\ x \notin Broken => \A p \in TreeParents(x) : K(p, x)
  BY ParentKept
<1>8. /\ hasPrev \/ TreeParents(id) = {} => \A a \in Location : K(a, id) => a = id
      /\ \A a, b, c \in Location : K(a, b) /\ K(b, c) => K(a, c)
  BY KeptFacts
<1>9. ASSUME NEW a \in Location, NEW b \in Location, NEW c \in Location, K(a, c), K(b, c),
             \A x \in Location : x \in Broken /\ K(b, x) /\ K(x, c) => x = b
      PROVE  K(a, b) \/ K(b, a)
  BY <1>9, KeptForest
<1> HIDE DEF K, J
<1>10. \A a, b \in Location : J(a, b) => record[a] # "unused" /\ record[b] # "unused"
                                         /\ (Exists(b) => Exists(a))
  BY <1>4, <1>5 DEF Unused, Upward, Exists
<1>11. Unused' /\ Upward'
  <2>1. \A a, b \in Location : Row(a, b)' => record'[a] # "unused" /\ record'[b] # "unused"
    BY <1>1, <1>10
  <2>2. \A a, b \in Location : Row(a, b)' /\ Exists(b)' => Exists(a)'
    BY <1>1, <1>2, <1>10
  <2> QED
    BY <2>1, <2>2 DEF Unused, Upward
<1>12. hasPrev \/ TreeParents(id) = {} => TreeParents(id)' = {parent}
  <2>1. ASSUME hasPrev \/ TreeParents(id) = {}, NEW a \in TreeParents(id)
        PROVE  ~K(a, id)
    BY <1>3, <1>8, <2>1, TreeFacts
  <2> QED
    BY <1>1, <1>3, <2>1
<1>13. OneParent'
  <2>1. ASSUME NEW x \in Location, x \notin Broken', NEW a \in TreeParents(x)', NEW b \in TreeParents(x)'
        PROVE  a = b
    <3>1. CASE x = id
      BY <1>12, <2>1, <3>1
    <3>2. CASE x # id
      BY <1>1, <1>3, <2>1, <3>2 DEF OneParent
    <3> QED
      BY <3>1, <3>2
  <2> QED
    BY <2>1 DEF OneParent
<1>14. /\ \A a, b, c \in Location : J(a, b) /\ J(b, c) => J(a, c)
       /\ J(id, id) /\ J(parent, parent)
       /\ id \notin Broken => \A a \in Location : J(a, id) => a = id
  BY <1>4, <1>8
<1>15. ASSUME NEW a \in Location, NEW b \in Location, NEW c \in Location, J(a, c), J(b, c),
              \A x \in Location : x \in Broken /\ J(b, x) /\ J(x, c) => x = b
       PROVE  J(a, b) \/ J(b, a)
  BY <1>4, <1>9, <1>15
<1>16. ASSUME NEW a \in Location, NEW b \in Location, NEW c \in Location, Row(a, c)', Row(b, c)',
              \A x \in Location : x \in Broken' /\ Row(b, x)' /\ Row(x, c)' => x = b
       PROVE  Row(a, b)' \/ Row(b, a)'
  <2>1. \A x, y \in Location : J(x, y) => Row(x, y)'
    BY <1>1
  <2>2. \A x \in Location : x \in Broken /\ J(b, x) /\ J(x, c) => x = b
    BY <1>16, <2>1
  <2>3. CASE J(a, c) /\ J(b, c)
    BY <1>15, <2>1, <2>2, <2>3
  <2>4. CASE J(b, parent) /\ J(id, c)
    <3>1. id \notin Broken
      <4> SUFFICES ASSUME id \in Broken PROVE FALSE
        OBVIOUS
      <4>1. Row(b, id)' /\ Row(id, c)'
        BY <1>1, <1>14, <2>4
      <4>2. id = b
        BY <1>16, <4>1
      <4> QED
        BY <1>1, <2>4, <4>2
    <3>2. CASE J(a, parent)
      <4>1. \A x \in Location : x \in Broken /\ J(b, x) /\ J(x, parent) => x = b
        BY <1>1, <1>16, <2>1, <2>4
      <4> QED
        BY <1>15, <2>1, <2>4, <3>2, <4>1
    <3>3. CASE J(a, c)
      <4>1. \A x \in Location : x \in Broken /\ J(id, x) /\ J(x, c) => x = b
        BY <1>1, <1>16, <2>1, <2>4
      <4>2. \A x \in Location : x \in Broken /\ J(id, x) /\ J(x, c) => x = id
        BY <1>1, <1>14, <2>4, <4>1
      <4>3. J(a, id) \/ J(id, a)
        BY <1>15, <2>4, <3>3, <4>2
      <4>4. CASE J(a, id)
        BY <1>1, <1>14, <2>4, <3>1, <4>4
      <4>5. CASE J(id, a)
        BY <1>1, <2>4, <4>5
      <4> QED
        BY <4>3, <4>4, <4>5
    <3> QED
      BY <1>1, <1>16, <3>2, <3>3
  <2>5. CASE J(b, c) /\ J(a, parent) /\ J(id, c)
    <3>1. J(id, b) \/ J(b, id)
      BY <1>15, <2>2, <2>5
    <3>2. CASE J(id, b)
      BY <1>1, <2>5, <3>2
    <3>3. CASE J(b, id)
      <4>1. b = id
        BY <1>14, <2>2, <2>5, <3>3
      <4> QED
        BY <1>1, <1>14, <2>5, <4>1
    <3> QED
      BY <3>1, <3>2, <3>3
  <2> QED
    BY <1>1, <1>16, <2>3, <2>4, <2>5
<1>17. Forest'
  BY <1>16 DEF Forest
<1>18. Around(id)
  <2>1. ASSUME NEW x \in Location, x # id, x \notin Broken
        PROVE  TreeParents(x)' = TreeParents(x)
    BY <1>1, <1>3, <1>7, <2>1, ZenonT(40)
  <2> QED
    BY <2>1 DEF Around
<1>19. \A x \in Location : x # id /\ x \notin Broken /\ Agree(x) => Agree(x)'
  BY <1>2, <1>18, AgreeKept
<1>20. ASSUME NEW y \in Location \ {parent}, Leaf(y), NEW c \in Location, Row(y, c)', Exists(c)'
       PROVE  c = y
  <2>1. ~J(y, parent)
    BY <1>4, <1>5, <1>20 DEF Leaf
  <2> QED
    BY <1>1, <1>2, <1>4, <1>5, <1>20, <2>1 DEF Leaf
<1>21. \A y \in Location \ {parent} : Leaf(y) => Leaf(y)'
  BY <1>20 DEF Leaf
<1> QED
  BY <1>6, <1>11, <1>12, <1>13, <1>17, <1>18, <1>19, <1>21 DEF Keeps

-----------------------------------------------------------------------------
(* The steps.                                                              *)

(* How a request in the given state, r's next, fits with the others.       *)
Fits(r, state) ==
    \A s \in Request \ {r} : state.pc # "idle" /\ request[s].pc # "idle" =>
        /\ state.id = request[s].id => state.id \in overlapped'
        /\ state.pc = "remove" => state.id \notin Named(request[s])
        /\ request[s].pc = "remove" => request[s].id \notin Named(state)

LEMMA NamedFacts ==
    ASSUME NEW q \in RequestType, q.pc # "idle"
    PROVE  /\ q.id \in Location /\ q.id \in Named(q)
           /\ q.pc = "remove" => Named(q) = {q.id}
           /\ q.pc \in {"link", "save"} => Named(q) = {q.id, q.parent}
  BY DEF RequestType, Named

LEMMA StartFits ==
    ASSUME RequestOK, NEW r \in Request, NEW state \in RequestType, Start(r, state), ~Lost'
    PROVE  /\ ~Lost /\ Become(r, state) /\ request[r].pc = "idle" /\ overlapped \subseteq overlapped'
           /\ Fits(r, state)
<1>1. /\ Become(r, state) /\ request[r].pc = "idle" /\ overlapped \subseteq overlapped'
      /\ \A s \in Request : Overlap(state, request[s]) \subseteq overlapped'
  BY DEF Start
<1>2. ~Lost
  BY <1>1 DEF Lost
<1>3. ASSUME NEW s \in Request \ {r}, state.pc # "idle", request[s].pc # "idle"
      PROVE  /\ state.id = request[s].id => state.id \in overlapped'
             /\ state.pc = "remove" => state.id \notin Named(request[s])
             /\ request[s].pc = "remove" => request[s].id \notin Named(state)
  <2>1. PICK q \in RequestType : q = request[s]
    BY DEF RequestOK
  <2>2. /\ state.id \in Location /\ state.id \in Named(state)
        /\ q.id \in Location /\ q.id \in Named(q)
    BY <1>3, <2>1, NamedFacts
  <2>3. ~(Named(state) \cap Named(q) # {} /\ "remove" \in {state.pc, q.pc})
    BY <1>1, <2>1 DEF Overlap, Lost
  <2>4. state.id = q.id => state.id \in overlapped'
    BY <1>1, <2>1, <2>2, <2>3 DEF Overlap
  <2> QED
    BY <2>1, <2>2, <2>3, <2>4
<1> QED
  BY <1>1, <1>2, <1>3 DEF Fits

LEMMA GoesOnFits ==
    ASSUME RequestOK, Alone, overlapped \subseteq overlapped', NEW r \in Request, request[r].pc # "idle",
           NEW state \in RequestType,
           state.pc # "idle" => /\ state.id = request[r].id /\ Named(state) = Named(request[r])
                                /\ state.pc = "remove" <=> request[r].pc = "remove"
    PROVE  Fits(r, state)
  BY DEF Fits, Alone

LEMMA StoresKept ==
    ASSUME RequestOK, Apart, NEW r \in Request, NEW state \in RequestType, Become(r, state),
           UNCHANGED <<record, tree>>, overlapped \subseteq overlapped', interrupted \subseteq interrupted',
           Fits(r, state), AtWork(state)',
           request[r].pc # "idle" => request[r].id \in Broken' \/ Agree(request[r].id)
    PROVE  Apart'
<1>1. Broken \subseteq Broken'
  BY DEF Broken
<1>2. /\ Unused' /\ Upward' /\ OneParent' /\ Forest'
      /\ \A x : Agree(x) => Agree(x)'
      /\ \A q : AtWork(q) => AtWork(q)'
  BY <1>1, SameStores DEF Apart
<1>3. ASSUME NEW x \in Location, x \notin Broken',
             \A s \in Request \ {r} : request[s].pc = "idle" \/ request[s].id # x
      PROVE  Agree(x)'
  <2>1. Agree(x)
    BY <1>1, <1>3 DEF Apart, Settled
  <2> QED
    BY <1>2, <2>1
<1>4. \A q \in RequestType : (\E s \in Request \ {r} : q = request[s]) => AtWork(q)'
  BY <1>2 DEF Apart
<1> QED
  BY <1>2, <1>3, <1>4, ApartStep DEF Apart, Fits

LEMMA StoresChanged ==
    ASSUME RequestOK, Apart, NEW r \in Request, NEW state \in RequestType, Become(r, state),
           overlapped \subseteq overlapped', Broken \subseteq Broken', Fits(r, state),
           NEW id \in Location, Keeps(id), record'[id] # "unused",
           \A s \in Request \ {r} : request[s].pc # "idle" =>
                /\ request[s].id = id => id \in Broken' /\ request[s].pc # "remove"
                /\ id \in Named(request[s]) => (Exists(id) => Exists(id)')
                /\ request[s].pc = "remove" =>
                        \A y \in Location : y = request[s].id /\ Leaf(y) => Leaf(y)',
           request[r].pc = "idle" \/ request[r].id = id,
           state.pc # "idle" => state.id = id,
           state.pc = "idle" /\ id \notin Broken' => Agree(id)',
           AtWork(state)'
    PROVE  Apart'
<1>1. /\ Around(id) /\ Unused' /\ Upward' /\ OneParent' /\ Forest'
      /\ \A x \in Location : x # id /\ x \notin Broken /\ Agree(x) => Agree(x)'
  BY DEF Keeps
<1>2. ASSUME NEW x \in Location, x \notin Broken', state.pc = "idle" \/ state.id # x,
             \A s \in Request \ {r} : request[s].pc = "idle" \/ request[s].id # x
      PROVE  Agree(x)'
  <2>1. CASE x = id
    BY <1>2, <2>1
  <2>2. CASE x # id
    <3>1. Agree(x) /\ x \notin Broken
      BY <1>2, <2>2 DEF Apart, Settled
    <3> QED
      BY <1>1, <2>2, <3>1
  <2> QED
    BY <2>1, <2>2
<1>3. ASSUME NEW q \in RequestType, NEW s \in Request \ {r}, q = request[s]
      PROVE  AtWork(q)'
  <2>1. CASE q.pc = "idle"
    BY <2>1 DEF AtWork
  <2>2. CASE q.pc # "idle"
    <3>1. AtWork(q) /\ q.id \in Location
      BY <1>3, <2>2, NamedFacts DEF Apart
    <3>2. q.pc \in {"link", "save"} /\ (q.id = id \/ q.parent = id) => id \in Named(q)
      BY DEF Named
    <3>3. q.pc = "remove" => Leaf(q.id)'
      <4>1. PICK y \in Location : y = q.id
        BY <3>1
      <4>2. q.pc = "remove" => Leaf(y)'
        BY <1>3, <2>2, <3>1, <4>1 DEF AtWork
      <4> QED
        BY <4>1, <4>2
    <3> QED
      BY <1>1, <1>3, <2>2, <3>1, <3>2, <3>3, AtWorkKept
  <2> QED
    BY <2>1, <2>2
<1> QED
  BY <1>1, <1>2, <1>3, ApartStep DEF Apart, Fits

LEMMA NextApart ==
    ASSUME RequestOK, RecordOK, P!Stepwise(tree), ~Lost => Apart, [Next]_vars, ~Lost'
    PROVE  Apart'
<1>1. ASSUME overlapped \subseteq overlapped'
      PROVE  /\ Apart /\ Alone /\ Unused /\ Upward /\ OneParent /\ Forest /\ Settled
             /\ \A r \in Request : AtWork(request[r])
             /\ interrupted \subseteq interrupted' => Broken \subseteq Broken'
  <2>1. ~Lost
    BY <1>1 DEF Lost
  <2> QED
    BY <1>1, <2>1 DEF Apart, Broken
<1>2. Idle \in RequestType /\ AtWork(Idle)' /\ Idle.pc = "idle"
  BY IdleType DEF AtWork, Idle
<1>3. \A r \in Request : request[r] \in RequestType
  BY DEF RequestOK
<1>4. ASSUME NEW r \in Request, NEW id \in Location, NEW parent \in Location \cup {NoParent},
             CreateLocation(r, id, parent)
      PROVE  Apart'
  <2>1. PICK state : state = IF parent = NoParent THEN Idle
                             ELSE [pc |-> "link", id |-> id, parent |-> parent,
                                   hasPrev |-> FALSE, saves |-> FALSE]
    OBVIOUS
  <2>2. /\ record[id] = "unused" /\ (parent # NoParent => Exists(parent))
        /\ record' = [record EXCEPT ![id] = parent]
        /\ tree' = tree /\ interrupted' = interrupted
        /\ Start(r, state)
    BY <1>4, <2>1 DEF CreateLocation
  <2>3. parent # id
    BY <2>2, HierarchyAssumption DEF Exists
  <2>4. state \in RequestType
    BY <1>2, <2>1, <2>3 DEF RequestType
  <2>5. /\ Become(r, state) /\ request[r].pc = "idle" /\ overlapped \subseteq overlapped'
        /\ Fits(r, state)
    BY <2>2, <2>4, StartFits
  <2>6. /\ Keeps(id)
        /\ record'[id] = parent /\ Exists(id)' /\ (parent # NoParent => Exists(parent)')
        /\ TreeParents(id) = {} /\ TreeParents(id)' = {}
        /\ \A y \in Location \ {id} : Leaf(y) => Leaf(y)'
    BY <1>1, <2>2, <2>5, RecordOfNew
  <2>7. record'[id] # "unused"
    BY <2>6, HierarchyAssumption
  <2>8. ASSUME NEW s \in Request, request[s].pc # "idle"
        PROVE  request[s].id # id
    BY <1>1, <2>2, <2>5, <2>8 DEF AtWork
  <2>9. AtWork(state)'
    <3>1. CASE parent = NoParent
      BY <1>2, <2>1, <3>1
    <3>2. CASE parent # NoParent
      BY <2>1, <2>6, <2>7, <3>2 DEF AtWork
    <3> QED
      BY <3>1, <3>2
  <2>10. state.pc = "idle" => Agree(id)'
    <3> SUFFICES ASSUME parent = NoParent PROVE Agree(id)'
      BY <2>1
    <3> QED
      BY <2>6, HierarchyAssumption DEF Agree, SameParent
  <2>11. state.pc # "idle" => state.id = id
    BY <1>2, <2>1
  <2> QED
    BY <1>1, <2>2, <2>4, <2>5, <2>6, <2>7, <2>8, <2>9, <2>10, <2>11, StoresChanged
<1>5. ASSUME NEW r \in Request, NEW id \in Location, NEW parent \in Location \cup {NoParent},
             UpdateLocationParent(r, id, parent)
      PROVE  Apart'
  <2>1. PICK state :
            state = [pc |-> IF parent \in Location /\ parent = record[id] THEN "save" ELSE "link",
                     id |-> id, parent |-> parent,
                     hasPrev |-> record[id] # NoParent, saves |-> TRUE]
    OBVIOUS
  <2>2. /\ Exists(id) /\ (parent # NoParent => Exists(parent)) /\ parent # id
        /\ UNCHANGED <<record, tree>> /\ interrupted' = interrupted
        /\ Start(r, state)
    BY <1>5, <2>1 DEF UpdateLocationParent
  <2>3. state \in RequestType
    BY <2>1, <2>2 DEF RequestType
  <2>4. /\ Become(r, state) /\ request[r].pc = "idle" /\ overlapped \subseteq overlapped'
        /\ Fits(r, state)
    BY <2>2, <2>3, StartFits
  <2>5. /\ Exists(id)' /\ (parent # NoParent => Exists(parent)') /\ record'[id] # "unused"
        /\ Broken \subseteq Broken'
    BY <1>1, <2>2, <2>4 DEF Exists
  <2>6. id \notin Broken' => Agree(id) /\ Agree(id)'
    <3> SUFFICES ASSUME id \notin Broken' PROVE Agree(id) /\ Agree(id)'
      OBVIOUS
    <3>1. \A s \in Request : request[s].pc = "idle" \/ request[s].id # id
      BY <2>1, <2>4 DEF Fits, Broken
    <3>2. Agree(id)
      BY <1>1, <2>4, <2>5, <3>1 DEF Settled
    <3> QED
      BY <2>2, <2>5, <3>2, SameStores
  <2>7. id \notin Broken' /\ state.pc = "save" => Only(id, parent)'
    BY <2>1, <2>2, <2>5, <2>6, HierarchyAssumption DEF Agree, SameParent, Only
  <2>8. state.hasPrev \/ record'[id] = NoParent
    BY <2>1, <2>2
  <2>9. AtWork(state)'
    BY <2>1, <2>2, <2>5, <2>6, <2>7, <2>8 DEF AtWork
  <2> QED
    BY <1>1, <2>2, <2>3, <2>4, <2>9, StoresKept
<1>6. ASSUME NEW r \in Request, NEW id \in Location, NameItselfParent(r, id)
      PROVE  Apart'
  <2>1. PICK state : state = [pc |-> "save", id |-> id, parent |-> id, hasPrev |-> FALSE, saves |-> TRUE]
    OBVIOUS
  <2>2. /\ record[id] # "unused"
        /\ UNCHANGED <<record, tree>> /\ interrupted' = interrupted
        /\ Start(r, state)
    BY <1>6, <2>1 DEF NameItselfParent
  <2>3. state \in RequestType
    BY <2>1 DEF RequestType
  <2>4. /\ Become(r, state) /\ request[r].pc = "idle" /\ overlapped \subseteq overlapped'
        /\ Fits(r, state)
    BY <2>2, <2>3, StartFits
  <2>5. record'[id] # "unused" /\ Broken \subseteq Broken'
    BY <1>1, <2>2, <2>4
  <2>6. id \notin Broken' => Agree(id)'
    <3> SUFFICES ASSUME id \notin Broken' PROVE Agree(id)'
      OBVIOUS
    <3>1. \A s \in Request : request[s].pc = "idle" \/ request[s].id # id
      BY <2>1, <2>4 DEF Fits, Broken
    <3>2. Agree(id)
      BY <1>1, <2>4, <2>5, <3>1 DEF Settled
    <3> QED
      BY <2>2, <2>5, <3>2, SameStores
  <2>7. AtWork(state)'
    BY <2>1, <2>5, <2>6 DEF AtWork
  <2> QED
    BY <1>1, <2>2, <2>3, <2>4, <2>7, StoresKept
<1>7. ASSUME NEW r \in Request, NEW id \in Location, RemoveLocation(r, id)
      PROVE  Apart'
  <2>1. PICK state : state = [pc |-> "remove", id |-> id, todo |-> {"record", "tree"}]
    OBVIOUS
  <2>2. /\ Exists(id) /\ ~HasChildren(id)
        /\ UNCHANGED <<record, tree>> /\ interrupted' = interrupted
        /\ Start(r, state)
    BY <1>7, <2>1 DEF RemoveLocation
  <2>3. state \in RequestType
    BY <2>1 DEF RequestType
  <2>4. /\ Become(r, state) /\ request[r].pc = "idle" /\ overlapped \subseteq overlapped'
        /\ Fits(r, state)
    BY <2>2, <2>3, StartFits
  <2>5. ASSUME NEW c \in Location, Row(id, c), Exists(c), c # id
        PROVE  FALSE
    <3>1. PICK b \in T!ImmediateChildren(tree, id) : Row(b, c)
      BY <2>5, TreeFacts
    <3>2. Exists(b)
      BY <1>1, <2>4, <2>5, <3>1 DEF Upward, T!ImmediateChildren
    <3> QED
      BY <2>2, <3>1, <3>2 DEF HasChildren
  <2>6. Leaf(id)'
    BY <2>2, <2>5 DEF Leaf, Exists, Row
  <2>7. record'[id] # "unused"
    BY <2>2 DEF Exists
  <2>8. AtWork(state)'
    BY <2>1, <2>6, <2>7 DEF AtWork
  <2> QED
    BY <1>1, <2>2, <2>3, <2>4, <2>8, StoresKept
<1>8. ASSUME NEW r \in Request, Link(r)
      PROVE  Apart'
  <2>1. PICK q \in RequestType : q = request[r]
    BY <1>3
  <2>2. PICK state : state = IF q.saves THEN [q EXCEPT !.pc = "save"] ELSE Idle
    OBVIOUS
  <2>3. /\ Become(r, state) /\ q.pc = "link" /\ UNCHANGED overlapped
        /\ IF q.parent = NoParent THEN T!Detach(q.id, q.hasPrev)
                                  ELSE T!Attach(q.id, q.parent, q.hasPrev)
        /\ record' = record /\ interrupted' = interrupted
    BY <1>8, <2>1, <2>2 DEF Link
  <2>4. /\ q \in [pc : {"link", "save"}, id : Location, parent : Location \cup {NoParent},
                  hasPrev : BOOLEAN, saves : BOOLEAN]
        /\ q.parent # q.id
    BY <2>1, <2>3, Fields
  <2>5. PICK id \in Location : id = q.id
    BY <2>4
  <2>6. PICK parent \in Location \cup {NoParent} : parent = q.parent
    BY <2>4
  <2>7. AtWork(q) /\ Broken \subseteq Broken' /\ Broken' = Broken
    BY <1>1, <2>1, <2>3 DEF Broken
  <2>8. Exists(id) /\ (parent # NoParent => Exists(parent)) /\ record[id] # "unused"
    BY <2>3, <2>4, <2>5, <2>6, <2>7 DEF AtWork
  <2>9. id \notin Broken => q.hasPrev \/ TreeParents(id) = {}
    BY <2>3, <2>4, <2>5, <2>7, <2>8, HierarchyAssumption DEF AtWork, Agree, SameParent
  <2>10. /\ Keeps(id)
         /\ id \notin Broken => Only(id, parent)'
         /\ \A y \in Location : y # parent => (Leaf(y) => Leaf(y)')
    <3>1. CASE parent = NoParent
      BY <1>1, <2>3, <2>4, <2>5, <2>6, <2>7, <2>9, <3>1, DetachKeeps DEF Only
    <3>2. CASE parent # NoParent
      BY <1>1, <2>3, <2>4, <2>5, <2>6, <2>7, <2>8, <2>9, <3>2, AttachKeeps DEF Only
    <3> QED
      BY <3>1, <3>2
  <2>11. \A x : Exists(x)' <=> Exists(x)
    BY <2>3 DEF Exists
  <2>12. state \in RequestType /\ (state.pc = "idle" <=> ~q.saves)
    BY <1>2, <2>1, <2>2, <2>4 DEF RequestType
  <2>13. state.pc # "idle" => state.pc = "save" /\ state.id = id /\ state.parent = parent
    BY <1>2, <2>2, <2>4, <2>5, <2>6
  <2>14. Fits(r, state)
    <3>1. state.pc # "idle" => Named(state) = Named(q)
      BY <2>1, <2>3, <2>5, <2>6, <2>12, <2>13, NamedFacts
    <3> QED
      BY <1>1, <2>1, <2>3, <2>5, <2>12, <2>13, <3>1, GoesOnFits
  <2>15. AtWork(state)'
    <3>1. CASE state.pc = "idle"
      BY <3>1 DEF AtWork
    <3>2. CASE state.pc # "idle"
      <4>1. Exists(id)' /\ (parent # NoParent => Exists(parent)') /\ record'[id] # "unused"
        BY <2>3, <2>8, <2>11
      <4> QED
        BY <2>4, <2>5, <2>6, <2>7, <2>10, <2>13, <3>2, <4>1 DEF AtWork
    <3> QED
      BY <3>1, <3>2
  <2>16. state.pc = "idle" /\ id \notin Broken' => Agree(id)'
    <3> SUFFICES ASSUME ~q.saves, id \notin Broken PROVE Agree(id)'
      BY <2>7, <2>12
    <3>1. record[id] = parent /\ parent # NoParent
      BY <2>3, <2>4, <2>5, <2>6, <2>7 DEF AtWork
    <3>2. SameParent(id)'
      BY <2>3, <2>4, <2>5, <2>6, <2>10, <3>1 DEF SameParent, Only
    <3> QED
      BY <2>3, <2>8, <2>11, <3>1, <3>2 DEF Agree
  <2>17. ASSUME NEW s \in Request \ {r}, request[s].pc # "idle"
         PROVE  /\ request[s].id = id => id \in Broken' /\ request[s].pc # "remove"
                /\ request[s].pc = "remove" =>
                        \A y \in Location : y = request[s].id /\ Leaf(y) => Leaf(y)'
    <3>1. id \in Named(q) /\ parent \in Named(q)
      BY <2>1, <2>3, <2>5, <2>6, NamedFacts
    <3>2. /\ request[s].id = id => id \in overlapped
          /\ request[s].pc = "remove" => request[s].id \notin Named(q)
      BY <1>1, <2>1, <2>3, <2>5, <2>17 DEF Alone
    <3> QED
      BY <2>7, <2>10, <3>1, <3>2 DEF Broken
  <2> QED
    BY <1>1, <2>1, <2>3, <2>5, <2>7, <2>8, <2>10, <2>11, <2>12, <2>13, <2>14, <2>15, <2>16,
       <2>17, StoresChanged
<1>9. ASSUME NEW r \in Request, LinkFails(r) \/ Interrupt(r)
      PROVE  Apart'
  <2>1. PICK q \in RequestType : q = request[r]
    BY <1>3
  <2>2. /\ Become(r, Idle) /\ q.pc # "idle" /\ UNCHANGED overlapped
        /\ UNCHANGED <<record, tree>>
        /\ interrupted \subseteq interrupted'
        /\ q.id \in interrupted' \/ (q.pc = "link" /\ q.saves)
    BY <1>9, <2>1 DEF LinkFails, Interrupt, T!AttachRolledBack
  <2>3. AtWork(q) /\ Alone /\ Apart /\ Broken \subseteq Broken'
    BY <1>1, <2>1, <2>2
  <2>4. q.id \in Broken' \/ Agree(q.id)
    BY <2>2, <2>3 DEF AtWork, Broken
  <2>5. Fits(r, Idle)
    BY <1>2 DEF Fits
  <2> QED
    BY <1>2, <2>1, <2>2, <2>3, <2>4, <2>5, StoresKept
<1>10. ASSUME NEW r \in Request, SaveRecord(r)
       PROVE  Apart'
  <2>1. PICK q \in RequestType : q = request[r]
    BY <1>3
  <2>2. /\ Become(r, Idle) /\ UNCHANGED overlapped
        /\ q.pc = "save" /\ tree' = tree /\ interrupted' = interrupted
        /\ record' = IF Exists(q.id) THEN [record EXCEPT ![q.id] = q.parent] ELSE record
    BY <1>10, <2>1 DEF SaveRecord
  <2>3. PICK id \in Location, parent \in Location \cup {NoParent} : id = q.id /\ parent = q.parent
    BY <2>1, <2>2, Fields
  <2>4. AtWork(q) /\ Broken' = Broken
    BY <1>1, <2>1, <2>2 DEF Broken
  <2>5. Fits(r, Idle)
    BY <1>2 DEF Fits
  <2>6. CASE ~Exists(id)
    <3>1. id \in Broken' \/ Agree(id)
      BY <2>2, <2>3, <2>4, <2>6 DEF AtWork
    <3> QED
      BY <1>1, <1>2, <2>1, <2>2, <2>3, <2>4, <2>5, <2>6, <3>1, StoresKept
  <2>7. CASE Exists(id)
    <3>1. /\ parent # NoParent => Exists(parent)
          /\ id \notin Broken => IF parent = id THEN Agree(id) ELSE Only(id, parent)
      BY <2>2, <2>3, <2>4, <2>7 DEF AtWork
    <3>2. record' = [record EXCEPT ![id] = parent]
      BY <2>2, <2>3, <2>7
    <3>3. /\ Keeps(id)
          /\ \A x \in Location : Exists(x)' <=> Exists(x)
          /\ record'[id] # "unused"
          /\ parent = id /\ Agree(id) => Agree(id)'
          /\ parent # id /\ Only(id, parent) => Agree(id)'
          /\ \A y \in Location : Leaf(y) => Leaf(y)'
      BY <1>1, <2>2, <2>4, <2>7, <3>1, <3>2, RecordOfOld
    <3>4. id \notin Broken' => Agree(id)'
      BY <2>4, <3>1, <3>3
    <3>5. ASSUME NEW s \in Request \ {r}, request[s].pc # "idle", request[s].id = id
          PROVE  id \in Broken' /\ request[s].pc # "remove"
      <4>1. id \in Named(q)
        BY <2>1, <2>2, <2>3, NamedFacts
      <4> QED
        BY <1>1, <2>1, <2>2, <2>3, <2>4, <3>5, <4>1 DEF Alone, Broken
    <3> QED
      BY <1>1, <1>2, <2>1, <2>2, <2>3, <2>4, <2>5, <3>3, <3>4, <3>5, StoresChanged
  <2> QED
    BY <2>6, <2>7
<1>11. ASSUME NEW r \in Request, NEW store \in {"record", "tree"}, RemoveFrom(r, store)
       PROVE  Apart'
  <2>1. PICK q \in RequestType : q = request[r]
    BY <1>3
  <2>2. PICK state : state = IF q.todo = {store} THEN Idle ELSE [q EXCEPT !.todo = @ \ {store}]
    OBVIOUS
  <2>3. /\ Become(r, state) /\ q.pc = "remove" /\ UNCHANGED overlapped
        /\ store \in q.todo
        /\ store = "record" => /\ record' = [record EXCEPT ![q.id] = "removed"]
                               /\ UNCHANGED tree
        /\ store = "tree" => T!RemoveSubTree(q.id) /\ UNCHANGED record
        /\ interrupted' = interrupted
    BY <1>11, <2>1, <2>2 DEF RemoveFrom
  <2>4. q \in [pc : {"remove"}, id : Location, todo : SUBSET {"record", "tree"}]
    BY <2>1, <2>3, Fields
  <2>5. PICK id \in Location : id = q.id
    BY <2>4
  <2>6. AtWork(q) /\ Broken' = Broken
    BY <1>1, <2>1, <2>3 DEF Broken
  <2>7. /\ Leaf(id) /\ record[id] # "unused"
        /\ "record" \notin q.todo => record[id] = "removed"
        /\ id \notin Broken /\ "tree" \notin q.todo => TreeParents(id) = {}
    BY <2>3, <2>5, <2>6 DEF AtWork
  <2>8. /\ Keeps(id)
        /\ \A y \in Location : Leaf(y) => Leaf(y)'
        /\ store = "record" \/ "record" \notin q.todo => record'[id] = "removed"
        /\ id \notin Broken' /\ (store = "tree" \/ "tree" \notin q.todo) => TreeParents(id)' = {}
        /\ record'[id] # "unused"
    <3>1. CASE store = "record"
      BY <1>1, <2>3, <2>5, <2>6, <2>7, <3>1, RecordRemoved
    <3>2. CASE store = "tree"
      BY <1>1, <2>3, <2>5, <2>6, <2>7, <3>2, RowsRemoved
    <3> QED
      BY <3>1, <3>2
  <2>9. /\ state \in RequestType
        /\ state.pc = "idle" <=> q.todo = {store}
        /\ state.pc # "idle" => /\ state.id = id /\ state.pc = "remove"
                                /\ state.todo = q.todo \ {store}
    <3>1. CASE q.todo = {store}
      BY <1>2, <2>2, <3>1
    <3>2. CASE q.todo # {store}
      BY <2>1, <2>2, <2>4, <2>5, <3>2 DEF RequestType
    <3> QED
      BY <3>1, <3>2
  <2>10. Fits(r, state)
    <3>1. state.pc # "idle" => Named(state) = Named(q)
      BY <2>1, <2>3, <2>5, <2>9, NamedFacts
    <3> QED
      BY <1>1, <2>1, <2>3, <2>5, <2>9, <3>1, GoesOnFits
  <2>11. AtWork(state)'
    <3>1. CASE state.pc = "idle"
      BY <3>1 DEF AtWork
    <3>2. CASE state.pc # "idle"
      <4>1. Leaf(id)'
        BY <2>7, <2>8
      <4> QED
        BY <2>8, <2>9, <3>2, <4>1 DEF AtWork
    <3> QED
      BY <3>1, <3>2
  <2>12. state.pc = "idle" /\ id \notin Broken' => Agree(id)'
    BY <2>4, <2>8, <2>9, HierarchyAssumption DEF Agree, Exists
  <2>13. ASSUME NEW s \in Request \ {r}, request[s].pc # "idle"
         PROVE  id \notin Named(request[s]) /\ request[s].id # id
    BY <1>1, <1>3, <2>1, <2>3, <2>5, <2>13, NamedFacts DEF Alone
  <2> QED
    BY <1>1, <2>1, <2>3, <2>5, <2>6, <2>8, <2>9, <2>10, <2>11, <2>12, <2>13, StoresChanged
<1>12. CASE UNCHANGED vars
  <2>1. /\ UNCHANGED <<record, tree>> /\ request' = request /\ interrupted' = interrupted
        /\ overlapped' = overlapped
    BY <1>12 DEF vars
  <2>2. Apart /\ Broken \subseteq Broken'
    BY <1>1, <2>1
  <2>3. ASSUME NEW r \in Request
        PROVE  AtWork(request[r])'
    <3>1. PICK q : q = request[r] /\ AtWork(q)
      BY <2>2 DEF Apart
    <3>2. AtWork(q)' /\ q = request'[r]
      BY <2>1, <2>2, <3>1, SameStores
    <3> QED
      BY <3>2 DEF AtWork, Exists, Only, Agree, SameParent, TreeParents, Row, Broken, Leaf
  <2>4. Alone'
    BY <2>1, <2>2 DEF Apart, Alone, Named
  <2>5. Settled'
    <3>1. \A x : Agree(x) => Agree(x)'
      BY <2>1, <2>2, SameStores
    <3> QED
      BY <2>1, <2>2, <3>1 DEF Apart, Settled
  <2> QED
    BY <2>1, <2>2, <2>3, <2>4, <2>5, SameStores DEF Apart
<1> QED
  BY <1>4, <1>5, <1>6, <1>7, <1>8, <1>9, <1>10, <1>11, <1>12 DEF Next

LEMMA NextRecord == RequestOK /\ RecordOK /\ [Next]_vars => RecordOK'
<1> SUFFICES ASSUME RequestOK, RecordOK, [Next]_vars PROVE RecordOK'
  OBVIOUS
<1>1. ASSUME NEW r \in Request, SaveRecord(r)
      PROVE  RecordOK'
  BY <1>1, Fields DEF SaveRecord, RecordOK
<1>2. ASSUME NEW r \in Request, NEW store \in {"record", "tree"}, RemoveFrom(r, store)
      PROVE  RecordOK'
  BY <1>2 DEF RemoveFrom, RecordOK
<1> QED
  BY <1>1, <1>2 DEF Next, vars, RecordOK, CreateLocation, UpdateLocationParent,
     NameItselfParent, RemoveLocation, Link, LinkFails, Interrupt

LEMMA TableInvariant == Spec => []P!Stepwise(tree)
  BY NoCallers, RowsChangeAsTable, SameTable, P!StepwiseInvariant, PTL

LEMMA ApartInvariant == Spec => [](RequestOK /\ RecordOK /\ (~Lost => Apart))
<1>1. Init => RequestOK /\ RecordOK /\ Apart
  <2> SUFFICES ASSUME Init PROVE RequestOK /\ RecordOK /\ Apart
    OBVIOUS
  <2>1. RequestOK /\ RecordOK
    BY IdleType DEF Init, RequestOK, RecordOK
  <2>2. \A a, b \in Location : ~Row(a, b)
    BY DEF Init, T!Init, Row
  <2>3. \A id \in Location : TreeParents(id) = {} /\ ~Exists(id) /\ record[id] \notin Location
    BY <2>2, HierarchyAssumption DEF Init, TreeParents, T!ImmediateChildren, Row, Exists
  <2>4. \A r \in Request : request[r].pc = "idle"
    BY DEF Init, Idle
  <2>5. Unused /\ Upward /\ OneParent /\ Forest
    BY <2>2, <2>3 DEF Unused, Upward, OneParent, Forest
  <2>6. Alone /\ Settled /\ \A r \in Request : AtWork(request[r])
    BY <2>3, <2>4 DEF Alone, Settled, Agree, AtWork
  <2> QED
    BY <2>1, <2>5, <2>6 DEF Apart
<1>2. RequestOK /\ RecordOK /\ (~Lost => Apart) /\ P!Stepwise(tree) /\ [Next]_vars =>
          (RequestOK /\ RecordOK /\ (~Lost => Apart))'
  BY NextRequest, NextRecord, NextApart
<1> QED
  BY <1>1, <1>2, TableInvariant, PTL DEF Spec

(* For any locations and any number of requests at a time: records and     *)
(* rows name the same parent, and it exists, for every location on which   *)
(* no request is at work, whatever requests on other locations overlap or  *)
(* stop half-way; a location given itself as parent has one row at most.   *)
THEOREM AgreementTheorem == Spec => []StoresAgree
<1>1. ASSUME P!Stepwise(tree), RecordOK, ~Lost => Apart
      PROVE  StoresAgree
  <2> SUFFICES ASSUME NEW id \in Location, id \notin Broken,
                      \A r \in Request : request[r].pc = "idle" \/ request[r].id # id
               PROVE  /\ Exists(id) => SameParent(id)
                      /\ ~Exists(id) => TreeParents(id) = {}
                      /\ \A p \in Location : p \in TreeParents(id) \/ p = record[id] => Exists(p)
    BY DEF StoresAgree, Broken
  <2>1. Apart
    BY <1>1 DEF Lost, Broken
  <2>2. Agree(id)
    BY <2>1 DEF Apart, Settled
  <2>3. ASSUME NEW p \in TreeParents(id)
        PROVE  Exists(p)
    <3>1. Exists(id)
      BY <2>2, <2>3 DEF Agree
    <3>2. p \in Location /\ Row(p, id)
      BY <1>1, <2>3, TreeFacts DEF TreeParents
    <3> QED
      BY <2>1, <3>1, <3>2 DEF Apart, Upward
  <2> QED
    BY <2>2, <2>3 DEF Agree
<1> QED
  BY <1>1, ApartInvariant, TableInvariant, PTL

(* For any locations and any number of requests at a time: the table       *)
(* refuses no move but one below the moved location's own subtree, if no   *)
(* location of the subtree is an exception.                                *)
THEOREM RefusalTheorem == Spec => []OnlyCyclesAreRefused
<1>1. ASSUME P!Stepwise(tree), RequestOK, ~Lost => Apart, NEW r \in Request,
             request[r].pc = "link", request[r].parent # NoParent,
             ~Row(request[r].id, request[r].parent),
             \A x \in Broken : x # request[r].id /\ ~Row(request[r].id, x)
      PROVE  ~T!Conflicts(T!Linked(tree, request[r].id, request[r].parent, request[r].hasPrev),
                          request[r].id, request[r].parent)
  <2>1. PICK id \in Location, parent \in Location, hasPrev \in BOOLEAN :
            id = request[r].id /\ parent = request[r].parent /\ hasPrev = request[r].hasPrev
            /\ id # parent
    BY <1>1, Fields
  <2>2. Apart /\ request[r].saves \in BOOLEAN
    BY <1>1, <2>1, Fields DEF Lost, Broken
  <2>3. hasPrev \/ TreeParents(id) = {}
    BY <1>1, <2>1, <2>2, HierarchyAssumption DEF Apart, AtWork, Agree, SameParent
  <2>4. \A a, b \in Location : <<a, b>> \in DOMAIN T!Linked(tree, id, parent, hasPrev) <=>
            Joined(id, parent, hasPrev, a, b)
    BY DEF T!Linked, T!SelfLink, T!Detached, T!DeleteRows, T!DetachedRows, Joined, Kept, Row
  <2>5. /\ \A x \in Location : Kept(id, hasPrev, x, id) => x = id
        /\ \A x, y, z \in Location :
              Kept(id, hasPrev, x, y) /\ Kept(id, hasPrev, y, z) => Kept(id, hasPrev, x, z)
    BY <1>1, <2>3, KeptFacts
  <2>6. ASSUME NEW x \in Location, NEW z \in Location, Kept(id, hasPrev, x, z), Kept(id, hasPrev, id, z)
        PROVE  Kept(id, hasPrev, x, id) \/ Kept(id, hasPrev, id, x)
    <3>1. \A y \in Location :
              y \in Broken /\ Kept(id, hasPrev, id, y) /\ Kept(id, hasPrev, y, z) => y = id
      BY <1>1, <2>1 DEF Kept
    <3> QED
      BY <1>1, <2>2, <2>6, <3>1, KeptForest DEF Apart
  <2>7. ~Kept(id, hasPrev, id, parent)
    BY <1>1, <2>1 DEF Kept
  <2>8. ASSUME NEW a \in Location, NEW b \in Location,
               Joined(id, parent, hasPrev, a, parent), Joined(id, parent, hasPrev, id, b),
               Joined(id, parent, hasPrev, a, b)
        PROVE  FALSE
    BY <2>1, <2>5, <2>6, <2>7, <2>8 DEF Joined
  <2>9. ~T!Conflicts(T!Linked(tree, id, parent, hasPrev), id, parent)
    <3> DEFINE linked == T!Linked(tree, id, parent, hasPrev)
    <3> HIDE DEF linked
    <3>1. \A a, b \in Location :
            <<a, b>> \in DOMAIN linked <=> Joined(id, parent, hasPrev, a, b)
      BY <2>4 DEF linked
    <3>2. ASSUME NEW a \in Location, NEW b \in Location, <<a, parent>> \in DOMAIN linked,
                 <<id, b>> \in DOMAIN linked, <<a, b>> \in DOMAIN linked
          PROVE  FALSE
      BY <3>1, <3>2, <2>8
    <3>3. \A k \in Location \X Location : k \in T!NewRows(linked, id, parent) => k \notin DOMAIN linked
      <4> SUFFICES ASSUME NEW k \in Location \X Location, k \in T!NewRows(linked, id, parent),
                          k \in DOMAIN linked
                   PROVE  FALSE
        OBVIOUS
      <4>1. PICK a \in Location, b \in Location : k = <<a, b>>
        OBVIOUS
      <4>2. <<a, parent>> \in DOMAIN linked /\ <<id, b>> \in DOMAIN linked
        BY <4>1 DEF T!NewRows
      <4> QED
        BY <3>2, <4>1, <4>2
    <3>4. T!NewRows(linked, id, parent) \subseteq Location \X Location
      BY DEF T!NewRows
    <3>5. ~T!Conflicts(linked, id, parent)
      BY <3>3, <3>4 DEF T!Conflicts
    <3> QED
      BY <3>5 DEF linked
  <2> QED
    BY <2>1, <2>9
<1>2. P!Stepwise(tree) /\ RequestOK /\ (~Lost => Apart) => OnlyCyclesAreRefused
  BY <1>1 DEF OnlyCyclesAreRefused, Row, Broken
<1> QED
  BY <1>2, ApartInvariant, TableInvariant, PTL

-----------------------------------------------------------------------------
(* The service implements LocationForest.                                  *)

(* q is at the removal of x, and one store is done.                        *)
Removes(q, x) == q.pc = "remove" /\ q.id = x /\ q.todo # {"record", "tree"}

Same(x) == ForestState(x)' = ForestState(x) /\ ForestParents(x)' = ForestParents(x)

LEMMA BreakStep ==
    ASSUME \A x \in Location : x \in Broken' \/ Same(x)
    PROVE  F!Next
<1>1. PICK B \in SUBSET Location : B = Location \cap Broken'
  OBVIOUS
<1>2. ASSUME NEW x \in Location
      PROVE  /\ x \in B => ForestState(x)' = "broken" /\ ForestParents(x)' = {}
             /\ x \notin B => Same(x)
  BY <1>1 DEF ForestState, ForestParents, Broken
<1>3. F!Break(B)
  BY <1>2 DEF F!Break, Same
<1> QED
  BY <1>3 DEF F!Next

LEMMA BecomeStep ==
    ASSUME NEW id \in Location, NEW s, NEW Q, ForestState(id)' = s, ForestParents(id)' = Q,
           \A x \in Location \ {id} : Same(x)
    PROVE  F!Become(id, s, Q)
  BY DEF F!Become, Same

LEMMA SameOf ==
    ASSUME RequestOK, NEW r \in Request, NEW state, Become(r, state), Broken \subseteq Broken',
           NEW x \in Location, x \notin Broken',
           record'[x] = "unused" <=> record[x] = "unused",
           record'[x] = "removed" <=> record[x] = "removed",
           Exists(x) => TreeParents(x)' = TreeParents(x),
           Removes(request[r], x) <=> Removes(state, x)
    PROVE  Same(x)
<1>1. /\ request'[r] = state
      /\ \A s \in Request \ {r} : request'[s] = request[s]
  BY DEF Become, RequestOK
<1>2. BeingRemoved(x) <=> \E s \in Request : Removes(request[s], x)
  BY DEF BeingRemoved, Removes
<1>3. BeingRemoved(x)' <=> \E s \in Request : Removes(request'[s], x)
  BY DEF BeingRemoved, Removes
<1>4. BeingRemoved(x)' <=> BeingRemoved(x)
  BY <1>1, <1>2, <1>3
<1>5. ForestState(x)' = ForestState(x)
  BY <1>4 DEF ForestState, Broken
<1>6. ForestState(x) = "present" => Exists(x)
  BY DEF ForestState, Exists
<1> QED
  BY <1>5, <1>6 DEF Same, ForestParents

(* A step on one location is seen on no other.                             *)
LEMMA OthersSame ==
    ASSUME RequestOK, NEW r \in Request, NEW state, Become(r, state),
           NEW id \in Location, Around(id),
           request[r].pc = "remove" => request[r].id = id,
           state.pc = "remove" => state.id = id,
           NEW x \in Location, x # id, x \notin Broken'
    PROVE  Same(x)
<1>1. ~Removes(request[r], x) /\ ~Removes(state, x)
  BY DEF Removes
<1>2. Broken \subseteq Broken' /\ record'[x] = record[x] /\ x \notin Broken
  BY DEF Around
<1>3. Exists(x) => TreeParents(x)' = TreeParents(x)
  BY <1>2 DEF Around
<1> QED
  BY <1>1, <1>2, <1>3, SameOf

(* A step that changes no rows and neither creates nor removes.            *)
LEMMA StoresSame ==
    ASSUME RequestOK, NEW r \in Request, NEW state, Become(r, state), Broken \subseteq Broken',
           UNCHANGED tree,
           \A x \in Location : record'[x] = "unused" <=> record[x] = "unused",
           \A x \in Location : record'[x] = "removed" <=> record[x] = "removed",
           \A x \in Location : x \in Broken' \/ (Removes(request[r], x) <=> Removes(state, x))
    PROVE  F!Next
<1>1. \A x \in Location : TreeParents(x)' = TreeParents(x)
  BY DEF TreeParents, T!ImmediateChildren
<1>2. \A x \in Location : x \in Broken' \/ Same(x)
  BY <1>1, SameOf
<1> QED
  BY <1>2, BreakStep

LEMMA NextForest ==
    ASSUME RequestOK, RecordOK, P!Stepwise(tree), ~Lost => Apart, [Next]_vars
    PROVE  [F!Next]_(F!vars)
<1>1. ASSUME overlapped \subseteq overlapped', ~Lost'
      PROVE  /\ Apart /\ Alone /\ Unused /\ Upward /\ OneParent /\ Forest /\ Settled
             /\ \A r \in Request : AtWork(request[r])
             /\ interrupted \subseteq interrupted' => Broken \subseteq Broken'
  <2>1. ~Lost
    BY <1>1 DEF Lost
  <2> QED
    BY <1>1, <2>1 DEF Apart, Broken
<1>2. CASE Lost'
  <2>1. \A x \in Location : x \in Broken'
    BY <1>2 DEF Lost, Broken
  <2> QED
    BY <2>1, BreakStep
<1>3. Idle.pc = "idle" /\ \A x : ~Removes(Idle, x)
  BY DEF Idle, Removes
<1>4. ASSUME ~Lost', NEW r \in Request, NEW id \in Location, NEW parent \in Location \cup {NoParent},
             CreateLocation(r, id, parent)
      PROVE  F!Next
  <2>1. PICK state : state = IF parent = NoParent THEN Idle
                             ELSE [pc |-> "link", id |-> id, parent |-> parent,
                                   hasPrev |-> FALSE, saves |-> FALSE]
    OBVIOUS
  <2>2. /\ record[id] = "unused" /\ (parent # NoParent => Exists(parent))
        /\ record' = [record EXCEPT ![id] = parent]
        /\ tree' = tree /\ interrupted' = interrupted
        /\ Start(r, state)
    BY <1>4, <2>1 DEF CreateLocation
  <2>3. /\ Become(r, state) /\ request[r].pc = "idle" /\ overlapped \subseteq overlapped'
        /\ state.pc # "remove"
    BY <1>3, <2>1, <2>2 DEF Start
  <2>4. /\ Keeps(id) /\ record'[id] = parent /\ Exists(id)' /\ TreeParents(id)' = {}
    BY <1>1, <1>4, <2>2, <2>3, RecordOfNew
  <2>5. \A x \in Location \ {id} : x \in Broken' \/ Same(x)
    BY <2>3, <2>4, OthersSame DEF Keeps
  <2>6. CASE id \in Broken'
    BY <2>5, <2>6, BreakStep
  <2>7. CASE id \notin Broken'
    <3>1. id \notin Broken /\ ForestState(id) = "unused"
      BY <2>2, <2>4, <2>7 DEF ForestState, Keeps, Around, Broken
    <3>2. ~BeingRemoved(id)'
      <4>1. \A s \in Request : ~(request'[s].pc = "remove" /\ request'[s].id = id)
        BY <1>1, <1>4, <2>2, <2>3 DEF Become, RequestOK, AtWork
      <4> QED
        BY <4>1 DEF BeingRemoved
    <3>3. ForestState(id)' = "present" /\ ForestParents(id)' = {}
      BY <2>4, <2>7, <3>2 DEF ForestState, ForestParents, Exists, Broken
    <3>4. \A x \in Location \ {id} : Same(x)
      <4>1. ASSUME NEW x \in Location \ {id}, x \in Broken'
            PROVE  Same(x)
        <5>1. \A s \in Request : Overlap(state, request[s]) \subseteq overlapped'
          BY <2>2 DEF Start
        <5>2. \A s \in Request : x \notin Overlap(state, request[s])
          <6>1. ASSUME NEW s \in Request, x \in Overlap(state, request[s])
                PROVE  FALSE
            <7>1. Named(state) # {} /\ (x = state.id \/ Location \subseteq overlapped')
              BY <5>1, <6>1 DEF Overlap
            <7>2. Named(state) # {} => state.id = id
              BY <2>1, <2>3 DEF Named, Idle
            <7> QED
              BY <1>4, <4>1, <7>1, <7>2 DEF Lost
          <6> QED
            BY <6>1
        <5>3. x \in Broken
          BY <2>2, <4>1, <5>2 DEF Start, Broken
        <5> QED
          BY <4>1, <5>3 DEF Same, ForestState, ForestParents, Broken
      <4> QED
        BY <2>5, <4>1
    <3>5. F!Create(id)
      BY <3>1, <3>3, <3>4, BecomeStep DEF F!Create
    <3> QED
      BY <3>5 DEF F!Next
  <2> QED
    BY <2>6, <2>7
<1>5. ASSUME ~Lost', NEW r \in Request, NEW id \in Location, NEW parent \in Location \cup {NoParent},
             UpdateLocationParent(r, id, parent)
      PROVE  F!Next
  <2>1. PICK state :
            state = [pc |-> IF parent \in Location /\ parent = record[id] THEN "save" ELSE "link",
                     id |-> id, parent |-> parent,
                     hasPrev |-> record[id] # NoParent, saves |-> TRUE]
    OBVIOUS
  <2>2. /\ UNCHANGED <<record, tree>> /\ interrupted' = interrupted
        /\ Start(r, state)
    BY <1>5, <2>1 DEF UpdateLocationParent
  <2>3. /\ Become(r, state) /\ request[r].pc = "idle" /\ overlapped \subseteq overlapped'
        /\ state.pc # "remove"
    BY <2>1, <2>2 DEF Start
  <2>4. \A x \in Location : ~Removes(request[r], x) /\ ~Removes(state, x)
    BY <2>3 DEF Removes
  <2> QED
    BY <1>1, <1>5, <2>2, <2>3, <2>4, StoresSame
<1>6. ASSUME ~Lost', NEW r \in Request, NEW id \in Location, NameItselfParent(r, id)
      PROVE  F!Next
  <2>1. PICK state : state = [pc |-> "save", id |-> id, parent |-> id, hasPrev |-> FALSE, saves |-> TRUE]
    OBVIOUS
  <2>2. /\ UNCHANGED <<record, tree>> /\ interrupted' = interrupted
        /\ Start(r, state)
    BY <1>6, <2>1 DEF NameItselfParent
  <2>3. /\ Become(r, state) /\ request[r].pc = "idle" /\ overlapped \subseteq overlapped'
        /\ state.pc # "remove"
    BY <2>1, <2>2 DEF Start
  <2>4. \A x \in Location : ~Removes(request[r], x) /\ ~Removes(state, x)
    BY <2>3 DEF Removes
  <2> QED
    BY <1>1, <1>6, <2>2, <2>3, <2>4, StoresSame
<1>7. ASSUME ~Lost', NEW r \in Request, NEW id \in Location, RemoveLocation(r, id)
      PROVE  F!Next
  <2>1. PICK state : state = [pc |-> "remove", id |-> id, todo |-> {"record", "tree"}]
    OBVIOUS
  <2>2. /\ UNCHANGED <<record, tree>> /\ interrupted' = interrupted
        /\ Start(r, state)
    BY <1>7, <2>1 DEF RemoveLocation
  <2>3. /\ Become(r, state) /\ request[r].pc = "idle" /\ overlapped \subseteq overlapped'
        /\ state.todo = {"record", "tree"}
    BY <2>1, <2>2 DEF Start
  <2>4. \A x \in Location : ~Removes(request[r], x) /\ ~Removes(state, x)
    BY <2>3 DEF Removes
  <2> QED
    BY <1>1, <1>7, <2>2, <2>3, <2>4, StoresSame
<1>8. ASSUME ~Lost', NEW r \in Request, Link(r)
      PROVE  F!Next
  <2>1. PICK q \in RequestType : q = request[r]
    BY DEF RequestOK
  <2>2. PICK state : state = IF q.saves THEN [q EXCEPT !.pc = "save"] ELSE Idle
    OBVIOUS
  <2>3. /\ Become(r, state) /\ q.pc = "link" /\ UNCHANGED overlapped
        /\ IF q.parent = NoParent THEN T!Detach(q.id, q.hasPrev)
                                  ELSE T!Attach(q.id, q.parent, q.hasPrev)
        /\ record' = record /\ interrupted' = interrupted
    BY <1>8, <2>1, <2>2 DEF Link
  <2>4. /\ q \in [pc : {"link", "save"}, id : Location, parent : Location \cup {NoParent},
                  hasPrev : BOOLEAN, saves : BOOLEAN]
        /\ q.parent # q.id
    BY <2>1, <2>3, Fields
  <2>5. PICK id \in Location : id = q.id
    BY <2>4
  <2>6. PICK parent \in Location \cup {NoParent} : parent = q.parent
    BY <2>4
  <2>7. AtWork(q) /\ Broken \subseteq Broken' /\ Broken' = Broken
    BY <1>1, <1>8, <2>1, <2>3 DEF Broken
  <2>8. Exists(id) /\ (parent # NoParent => Exists(parent)) /\ record[id] # "unused"
    BY <2>3, <2>4, <2>5, <2>6, <2>7 DEF AtWork
  <2>9. id \notin Broken => q.hasPrev \/ TreeParents(id) = {}
    BY <2>3, <2>4, <2>5, <2>7, <2>8, HierarchyAssumption DEF AtWork, Agree, SameParent
  <2>10. /\ Keeps(id)
         /\ id \notin Broken => Only(id, parent)'
         /\ parent # NoParent => ~Row(id, parent)
    <3>1. CASE parent = NoParent
      BY <1>1, <1>8, <2>3, <2>4, <2>5, <2>6, <2>7, <2>9, <3>1, DetachKeeps DEF Only
    <3>2. CASE parent # NoParent
      BY <1>1, <1>8, <2>3, <2>4, <2>5, <2>6, <2>7, <2>8, <2>9, <3>2, AttachKeeps DEF Only
    <3> QED
      BY <3>1, <3>2
  <2>11. state.pc # "remove"
    BY <1>3, <2>2, <2>3, <2>4
  <2>12. \A x \in Location \ {id} : x \in Broken' \/ Same(x)
    BY <2>1, <2>3, <2>10, <2>11, OthersSame DEF Keeps
  <2>13. CASE id \in Broken
    BY <2>7, <2>12, <2>13, BreakStep
  <2>14. CASE id \notin Broken
    <3>1. \A x \in Location \ {id} : Same(x)
      <4>1. ASSUME NEW x \in Location \ {id}, x \in Broken'
            PROVE  Same(x)
        BY <2>7, <4>1 DEF Same, ForestState, ForestParents, Broken
      <4> QED
        BY <2>12, <4>1
    <3>2. id \in Named(q) /\ (parent # NoParent => parent \in Named(q))
      BY <2>3, <2>5, <2>6 DEF Named
    <3>3. \A x \in {id, parent} \ {NoParent} :
            \A s \in Request : ~Removes(request[s], x) /\ ~Removes(request'[s], x)
      <4>1. \A s \in Request : s # r /\ request[s].pc = "remove" => request[s].id \notin Named(q)
        BY <1>1, <1>8, <2>1, <2>3 DEF Alone
      <4>2. \A s \in Request : request'[s] = IF s = r THEN state ELSE request[s]
        BY <2>3 DEF Become, RequestOK
      <4> QED
        BY <2>1, <2>3, <2>11, <3>2, <4>1, <4>2, HierarchyAssumption DEF Removes
    <3>4. \A x \in {id, parent} \ {NoParent} : ~BeingRemoved(x) /\ ~BeingRemoved(x)'
      BY <3>3 DEF BeingRemoved, Removes
    <3>5. ForestState(id) = "present" /\ ForestState(id)' = "present"
      <4>1. ~BeingRemoved(id) /\ ~BeingRemoved(id)'
        BY <3>4, HierarchyAssumption
      <4> QED
        BY <2>3, <2>7, <2>8, <2>14, <4>1 DEF ForestState, Exists, Broken
    <3>6. parent # NoParent => ForestState(parent) \in {"present", "broken"}
      <4>1. parent # NoParent => Exists(parent) /\ ~BeingRemoved(parent)
        BY <2>8, <3>4
      <4> QED
        BY <4>1 DEF ForestState, Exists
    <3>7. PICK Q : Q = IF parent = NoParent THEN {} ELSE {parent}
      OBVIOUS
    <3>8. ForestParents(id)' = Q
      BY <2>10, <2>14, <3>5, <3>7 DEF ForestParents, Only
    <3>9. ASSUME NEW p \in Q
          PROVE  ForestState(p) \in {"present", "broken"} /\ F!NotBelow(p, id)
      <4>1. p = parent /\ parent \in Location
        BY <3>7, <3>9
      <4>2. PICK S \in SUBSET Location : S = {x \in Location : x = parent \/ Row(x, parent)}
        OBVIOUS
      <4>3. parent \in S /\ id \notin S
        BY <2>4, <2>5, <2>6, <2>10, <4>1, <4>2, HierarchyAssumption
      <4>4. ASSUME NEW x \in S, NEW a \in ForestParents(x)
            PROVE  a \in S
        <5>1. x \in Location /\ a \in Location /\ a \in TreeParents(x)
          BY <4>4 DEF ForestParents, TreeParents
        <5>2. Row(a, x)
          BY <5>1, TreeFacts
        <5>3. Row(a, parent)
          BY <4>1, <4>2, <5>1, <5>2, TreeFacts
        <5> QED
          BY <4>2, <5>1, <5>3
      <4>5. F!NotBelow(p, id)
        BY <4>1, <4>3, <4>4 DEF F!NotBelow
      <4> QED
        BY <3>6, <4>1, <4>5, HierarchyAssumption
    <3>10. Q \in F!OneOrNone
      BY <3>7 DEF F!OneOrNone
    <3>11. F!Become(id, "present", Q)
      BY <3>1, <3>5, <3>8, BecomeStep
    <3>12. F!Move(id, Q)
      <4>1. \A p \in Q : p \in Location
        BY <3>7
      <4> QED
        BY <3>5, <3>9, <3>11, <4>1 DEF F!Move
    <3> QED
      BY <3>10, <3>12 DEF F!Next
  <2> QED
    BY <2>13, <2>14
<1>9. ASSUME ~Lost', NEW r \in Request, LinkFails(r) \/ Interrupt(r) \/ SaveRecord(r)
      PROVE  F!Next
  <2>1. PICK q \in RequestType : q = request[r]
    BY DEF RequestOK
  <2>2. /\ Become(r, Idle) /\ q.pc # "idle" /\ UNCHANGED <<overlapped, tree>>
        /\ interrupted \subseteq interrupted'
        /\ q.pc = "remove" => q.id \in interrupted'
        /\ \/ record' = record
           \/ /\ q.pc = "save" /\ Exists(q.id)
              /\ record' = [record EXCEPT ![q.id] = q.parent]
    BY <1>9, <2>1 DEF LinkFails, Interrupt, SaveRecord, T!AttachRolledBack
  <2>3. \A x \in Location : /\ record'[x] = "unused" <=> record[x] = "unused"
                            /\ record'[x] = "removed" <=> record[x] = "removed"
    <3>1. CASE record' = record
      BY <3>1
    <3>2. CASE q.pc = "save" /\ Exists(q.id) /\ record' = [record EXCEPT ![q.id] = q.parent]
      <4>1. q.id \in Location /\ q.parent \in Location \cup {NoParent}
        BY <2>1, <3>2, Fields
      <4> QED
        BY <3>2, <4>1, HierarchyAssumption DEF RecordOK, Exists
    <3> QED
      BY <2>2, <3>1, <3>2
  <2>4. \A x \in Location : x \in Broken' \/ (Removes(request[r], x) <=> Removes(Idle, x))
    BY <1>3, <2>1, <2>2 DEF Removes, Broken
  <2> QED
    BY <1>1, <1>9, <2>2, <2>3, <2>4, StoresSame
<1>10. ASSUME ~Lost', NEW r \in Request, NEW store \in {"record", "tree"}, RemoveFrom(r, store)
       PROVE  F!Next
  <2>1. PICK q \in RequestType : q = request[r]
    BY DEF RequestOK
  <2>2. PICK state : state = IF q.todo = {store} THEN Idle ELSE [q EXCEPT !.todo = @ \ {store}]
    OBVIOUS
  <2>3. /\ Become(r, state) /\ q.pc = "remove" /\ UNCHANGED overlapped
        /\ store \in q.todo
        /\ store = "record" => /\ record' = [record EXCEPT ![q.id] = "removed"]
                               /\ UNCHANGED tree
        /\ store = "tree" => T!RemoveSubTree(q.id) /\ UNCHANGED record
        /\ interrupted' = interrupted
    BY <1>10, <2>1, <2>2 DEF RemoveFrom
  <2>4. q \in [pc : {"remove"}, id : Location, todo : SUBSET {"record", "tree"}]
    BY <2>1, <2>3, Fields
  <2>5. PICK id \in Location : id = q.id
    BY <2>4
  <2>6. AtWork(q) /\ Broken' = Broken
    BY <1>1, <1>10, <2>1, <2>3 DEF Broken
  <2>7. /\ Leaf(id) /\ record[id] # "unused"
        /\ "record" \notin q.todo => record[id] = "removed"
    BY <2>3, <2>5, <2>6 DEF AtWork
  <2>8. /\ Keeps(id)
        /\ store = "record" \/ "record" \notin q.todo => record'[id] = "removed"
        /\ record'[id] # "unused"
    <3>1. CASE store = "record"
      BY <1>1, <1>10, <2>3, <2>5, <2>6, <2>7, <3>1, RecordRemoved
    <3>2. CASE store = "tree"
      BY <1>1, <1>10, <2>3, <2>5, <2>6, <2>7, <3>2, RowsRemoved
    <3> QED
      BY <3>1, <3>2
  <2>9. IF q.todo = {store} THEN state.pc = "idle"
        ELSE state.id = id /\ state.pc = "remove" /\ state.todo = q.todo \ {store}
    BY <1>3, <2>2, <2>3, <2>4, <2>5
  <2>10. \A x \in Location \ {id} : x \in Broken' \/ Same(x)
    BY <2>1, <2>3, <2>5, <2>8, <2>9, OthersSame DEF Keeps
  <2>11. CASE id \in Broken
    BY <2>6, <2>10, <2>11, BreakStep
  <2>12. CASE id \notin Broken
    <3>1. record'[id] = "removed" \/ BeingRemoved(id)'
      <4>1. CASE q.todo = {store}
        BY <2>3, <2>8, <4>1
      <4>2. CASE q.todo # {store}
        <5>1. Removes(state, id)
          BY <2>4, <2>9, <4>2 DEF Removes
        <5>2. request'[r] = state
          BY <2>3 DEF Become, RequestOK
        <5> QED
          BY <5>1, <5>2 DEF BeingRemoved, Removes
      <4> QED
        BY <4>1, <4>2
    <3>2. ForestState(id)' = "removed" /\ ForestParents(id)' = {}
      BY <2>6, <2>8, <2>12, <3>1 DEF ForestState, ForestParents, Broken
    <3>3. ForestState(id) \in {"present", "removed"}
      BY <2>7, <2>12 DEF ForestState, Broken
    <3>4. CASE ForestState(id) = "removed"
      <4>1. Same(id)
        BY <3>2, <3>4 DEF Same, ForestParents
      <4> QED
        BY <2>10, <4>1, BreakStep
    <3>5. CASE ForestState(id) = "present"
      <4>1. \A x \in Location \ {id} : Same(x)
        <5>1. ASSUME NEW x \in Location \ {id}, x \in Broken'
              PROVE  Same(x)
          BY <2>6, <5>1 DEF Same, ForestState, ForestParents, Broken
        <5> QED
          BY <2>10, <5>1
      <4>2. ASSUME NEW x \in Location, id \in ForestParents(x)
            PROVE  FALSE
        <5>1. Exists(x) /\ id \in TreeParents(x)
          BY <4>2 DEF ForestParents, ForestState, Exists
        <5>2. Row(id, x) /\ id # x
          BY <5>1, TreeFacts
        <5> QED
          BY <2>7, <5>1, <5>2 DEF Leaf
      <4>3. F!Remove(id)
        BY <3>2, <3>5, <4>1, <4>2, BecomeStep DEF F!Remove
      <4> QED
        BY <4>3 DEF F!Next
    <3> QED
      BY <3>3, <3>4, <3>5
  <2> QED
    BY <2>11, <2>12
<1>11. CASE UNCHANGED vars
  <2>1. UNCHANGED F!vars
    BY <1>11 DEF vars, F!vars, ForestState, ForestParents, BeingRemoved, TreeParents,
       T!ImmediateChildren
  <2> QED
    BY <2>1
<1> QED
  BY <1>2, <1>4, <1>5, <1>6, <1>7, <1>8, <1>9, <1>10, <1>11 DEF Next

(* For any locations and any number of requests at a time, the service     *)
(* implements LocationForest: its two stores, written one after the other, *)
(* are one hierarchy changed at once, but for the locations whose own      *)
(* requests overlapped or stopped half-way.                                *)
THEOREM ForestTheorem == Spec => ForestSpec
<1>1. Init => F!Init
  <2> SUFFICES ASSUME Init PROVE F!Init
    OBVIOUS
  <2>1. \A id \in Location : ForestState(id) = "unused" /\ ForestParents(id) = {}
    BY DEF Init, ForestState, ForestParents
  <2> QED
    BY <2>1 DEF F!Init
<1>2. RequestOK /\ RecordOK /\ (~Lost => Apart) /\ P!Stepwise(tree) /\ [Next]_vars =>
          [F!Next]_(F!vars)
  BY NextForest
<1> QED
  BY <1>1, <1>2, ApartInvariant, TableInvariant, PTL DEF Spec, ForestSpec, F!Spec

=============================================================================
