--------------------------- MODULE LocationAccess ---------------------------
(***************************************************************************)
(* Who sees which locations of an account.  A role on a location also      *)
(* holds below it, and the answer is worked out in several places: the     *)
(* user's locations and roles go down the closure table (UserResolver),    *)
(* the location's users and roles go up (LocationResolver), the lists and  *)
(* hasAccess join the tables in SQL (LocationPgTable), and hasAccess reads *)
(* its list page by page.                                                  *)
(*                                                                         *)
(* Roles are rows of UserLocationRole in DynamoDB, read by user or through *)
(* the index by location.  The tables "location" and "user_location" of    *)
(* Postgres are copies that another process keeps; they are taken as       *)
(* current, as is the index.  A move is one step here: LocationHierarchy   *)
(* has its two stores.  Location ids are numbers, in the order that SQL    *)
(* sorts them.                                                             *)
(***************************************************************************)
EXTENDS Naturals, FiniteSets

CONSTANTS
    Location,       \* ids of the locations, numbers
    User,           \* the users of the account
    Owner,          \* the one who owns it
    AccountType,    \* "personal" or "enterprise"
    Request,        \* requests that may run at the same time
    PageSize,       \* how many locations a page has
    MaxRequests     \* bound on the requests of a behaviour

ASSUME AccessAssumption ==
    /\ Location \subseteq Nat \ {0} /\ IsFiniteSet(Location)
    /\ Owner \in User
    /\ PageSize \in Nat \ {0}
    /\ MaxRequests \in Nat

VARIABLES
    record,         \* [locations that exist -> a parent or NoParent]
    removed,        \* the locations that are gone: ids are not used again
    tree,           \* the closure table
    roles,          \* [User \X Location -> roles]: UserLocationRole
    accountRole,    \* [User -> roles]: UserAccountRole
    request,        \* progress of each request
    requests,       \* how many were started
    overlapped      \* history: locations that two requests used at the same time

vars == <<record, removed, tree, roles, accountRole, request, requests, overlapped>>

T == INSTANCE LocationTree

NoParent == 0
Null == "null"
Idle == [pc |-> "idle"]

Existing == DOMAIN record
Exists(l) == l \in Existing

-----------------------------------------------------------------------------
(* The reads of the closure table.                                         *)
AllChildren(l) == {c \in Location : <<l, c>> \in T!Rows /\ tree[<<l, c>>] > 0}

AllParents(l) == {p \in Location : <<p, l>> \in T!Rows /\ tree[<<p, l>>] > 0}

\* UserLocationRole, by user and by location.
LocationsWithRole(u) == {l \in Location : roles[<<u, l>>] # {}}
UsersWithRole(l) == {u \in User : roles[<<u, l>>] # {}}

(* UserResolver: downwards from the roles of the user.                     *)
UserLocations(u, shouldExpand) ==
    IF accountRole[u] = {} \/ (AccountType = "enterprise" /\ ~shouldExpand)
    THEN Null
    ELSE LocationsWithRole(u) \cup UNION {AllChildren(l) : l \in LocationsWithRole(u)}

UserLocationRoles(u, shouldExpand) ==
    IF accountRole[u] = {} \/ (AccountType = "enterprise" /\ ~shouldExpand)
    THEN Null
    ELSE {[location  |-> l,
           roles     |-> roles[<<u, l>>],
           inherited |-> {<<p, roles[<<u, p>>]>> : p \in {q \in LocationsWithRole(u) : l \in AllChildren(q)}}] :
             l \in LocationsWithRole(u) \cup UNION {AllChildren(l) : l \in LocationsWithRole(u)}}

(***************************************************************************)
(* AccountResolver: whether the caller may see everything of the account,  *)
(* and the ranks of roles.                                                 *)
(***************************************************************************)
HasPrivilege(caller) == accountRole[caller] \cap {"owner", "write"} # {}

SecurityLevel(role) ==
    CASE role = "owner"     -> 100
      [] role = "write"     -> 80
      [] role = "provision" -> 50
      [] role = "readonly"  -> 10
      [] OTHER              -> 0

MaxSecurityLevel(rs) ==
    LET levels == {SecurityLevel(r) : r \in rs} \cup {0}
    IN  CHOOSE m \in levels : \A n \in levels : n <= m

AccountUsers(caller) ==
    LET visible == {u \in User : accountRole[u] # {}}
    IN  IF HasPrivilege(caller) THEN visible
        ELSE {u \in visible : MaxSecurityLevel(accountRole[u]) <= MaxSecurityLevel(accountRole[caller])}

AccountUserRoles(caller, shouldExpand) ==
    IF AccountType = "enterprise" /\ ~shouldExpand THEN Null
    ELSE {<<u, accountRole[u]>> : u \in {v \in User : /\ accountRole[v] # {}
                                                      /\ HasPrivilege(caller) \/ v = caller}}

(***************************************************************************)
(* LocationResolver: upwards from the location.                            *)
(***************************************************************************)
\* Mutant: asks the parent only.
UsersOfParentOnly(l) ==
    UsersWithRole(l) \cup UNION {UsersWithRole(p) : p \in {q \in AllParents(l) : tree[<<q, l>>] = 1}}

UsersOf(l) == UsersWithRole(l) \cup UNION {UsersWithRole(p) : p \in AllParents(l)}

LocationUsers(l, caller) ==
    {u \in UsersOf(l) : HasPrivilege(caller) \/ u = caller}

RolesAt(l, u) == roles[<<u, l>>] \cup UNION {roles[<<u, p>>] : p \in AllParents(l)}

\* Without privilege, `ans[currentUserId].maxLevel` throws unless the caller is one of the users.
LocationUserRoles(l, caller) ==
    LET level(u) == MaxSecurityLevel(RolesAt(l, u))
        visible == IF HasPrivilege(caller) THEN UsersOf(l)
                   ELSE {u \in UsersOf(l) : level(u) <= level(caller)}
    IN  IF ~HasPrivilege(caller) /\ caller \notin UsersOf(l) THEN Null
        ELSE {[user      |-> u,
               roles     |-> roles[<<u, l>>],
               inherited |-> {<<p, roles[<<u, p>>]>> : p \in {q \in AllParents(l) : u \in UsersWithRole(q)}}] :
                 u \in visible}

(***************************************************************************)
(* LocationPgTable.  A LEFT JOIN gives a location without rows in the tree *)
(* for itself; one that is a parent counts through its own row.            *)
(***************************************************************************)
Reached(u) ==
    UNION {LET children == {c \in Location : <<l, c>> \in T!Rows}
           IN  IF children = {} THEN {l} ELSE children : l \in LocationsWithRole(u)}

ByUserId(u) == {l \in Existing : l \in LocationsWithRole(u)}

ByUserIdWithChildren(u) == {l \in Existing : l \in Reached(u)}

\* Mutant: a root is one whose parent the user has no role on.
ByUserIdRootOnlyExplicit(u) == {l \in ByUserId(u) : record[l] \notin LocationsWithRole(u)}

ByUserIdRootOnly(u) == {l \in ByUserId(u) : record[l] \notin Reached(u)}

Before(S, l) == Cardinality({k \in S : k < l})

\* Mutant: pages count from zero.
PageFromZero(S, page) ==
    LET items == {l \in S : Before(S, l) >= PageSize * page /\ Before(S, l) < PageSize * (page + 1)}
    IN  [items |-> items, total |-> IF items = {} THEN 0 ELSE Cardinality(S)]

\* ORDER BY id LIMIT size OFFSET size * (page - 1); the total is read from the first row.
Page(S, page) ==
    LET items == {l \in S : Before(S, l) >= PageSize * (page - 1) /\ Before(S, l) < PageSize * page}
    IN  [items |-> items, total |-> IF items = {} THEN 0 ELSE Cardinality(S)]

AccountLocations(caller) ==
    IF AccountType = "enterprise" THEN Null
    ELSE {l \in IF HasPrivilege(caller) THEN Existing ELSE ByUserIdRootOnly(caller) : record[l] = NoParent}

-----------------------------------------------------------------------------
Grants == {{"write"}, {"readonly"}}

\* Every hierarchy, with the rows that linking one location after the other leaves.
Above(rec, l) == IF l \in DOMAIN rec THEN {rec[l]} \ {NoParent} ELSE {}

ClosedUpwards(rec, S) == \A x \in S : Above(rec, x) \subseteq S

\* The least set that has what is above l and what is above its members.
Ancestors(rec) ==
    [l \in Location |->
        {p \in Location : \A S \in SUBSET Location :
            Above(rec, l) \subseteq S /\ ClosedUpwards(rec, S) => p \in S}]

RowsOf(rec) ==
    LET above == Ancestors(rec)
        linked == {l \in Location : above[l] # {} \/ \E c \in Location : l \in above[c]}
        pairs == {k \in Location \X Location : k[1] \in above[k[2]]} \cup {<<l, l>> : l \in linked}
    IN  [k \in pairs |-> IF k[1] = k[2] THEN 0
                         ELSE Cardinality(above[k[2]]) - Cardinality(above[k[1]])]

Init ==
    /\ \E existing \in SUBSET Location :
          record \in {rec \in [existing -> existing \cup {NoParent}] :
                        \A l \in existing : l \notin Ancestors(rec)[l]}
    /\ removed = {}
    /\ tree = RowsOf(record)
    /\ accountRole = [u \in User |-> IF u = Owner THEN {"owner"} ELSE {"readonly"}]
    /\ \E start \in [User \ {Owner} -> Existing \cup {NoParent}] :
          roles = [k \in User \X Location |->
                     IF k[1] = Owner THEN IF Exists(k[2]) THEN {"owner"} ELSE {}
                     ELSE IF start[k[1]] = k[2] THEN {"readonly"} ELSE {}]
    /\ request = [r \in Request |-> Idle]
    /\ requests = 0
    /\ overlapped = {}

Become(r, state) == request' = [request EXCEPT ![r] = state]

\* The locations that a request is about, while it runs.
Uses(q) ==
    CASE q.pc \in {"grant", "link"} -> {q.location, q.parent}
      [] q.pc \in {"put", "remove"} -> {q.location}
      [] OTHER                      -> {}

Start(r, state, uses) ==
    /\ request[r].pc = "idle"
    /\ requests < MaxRequests
    /\ requests' = requests + 1
    /\ Become(r, state)
    /\ overlapped' = overlapped \cup
          UNION {uses \cap Uses(request[s]) : s \in Request}

\* updateAccountUserRole puts the row.
UpdateAccountUserRole(r, u, granted) ==
    /\ u # Owner
    /\ accountRole' = [accountRole EXCEPT ![u] = granted]
    /\ Start(r, Idle, {})
    /\ UNCHANGED <<record, removed, tree, roles>>

-----------------------------------------------------------------------------
(* createLocation: put the record, give the owner and the creator their    *)
(* roles, then link it below its parent.                                   *)
CreateLocation(r, l, parent, creator) ==
    /\ l \notin Existing \cup removed
    /\ parent # NoParent => Exists(parent)
    /\ record' = [k \in Existing \cup {l} |-> IF k = l THEN parent ELSE record[k]]
    /\ Start(r, [pc |-> "grant", location |-> l, parent |-> parent, creator |-> creator], {l, parent})
    /\ UNCHANGED <<removed, tree, roles, accountRole>>

GiveRoles(r) ==
    LET q == request[r] IN
    /\ q.pc = "grant"
    /\ IF Exists(q.location)
       THEN /\ roles' = [roles EXCEPT ![<<Owner, q.location>>] = {"owner"},
                                      ![<<q.creator, q.location>>] =
                                          IF q.creator = Owner THEN {"owner"} ELSE {"write"}]
            /\ Become(r, IF q.parent = NoParent THEN Idle
                         ELSE [pc |-> "link", location |-> q.location, parent |-> q.parent])
       ELSE Become(r, Idle) /\ UNCHANGED roles          \* ResourceDoesNotExistError
    /\ UNCHANGED <<record, removed, tree, accountRole, requests, overlapped>>

Link(r) ==
    LET q == request[r] IN
    /\ q.pc = "link"
    /\ \/ T!Attach(q.location, q.parent, FALSE)
       \/ T!AttachRolledBack(q.location, q.parent, FALSE)
    /\ Become(r, Idle)
    /\ UNCHANGED <<record, removed, roles, accountRole, requests, overlapped>>

\* updatePartialLocation with a parent or null, as one step.  A parent that is the location
\* itself, or does not change, leaves the rows; the record is written in any case.
Move(r, l, parent) ==
    /\ Exists(l)
    /\ parent # NoParent => Exists(parent)
    /\ IF parent \in {l, record[l]} \ {NoParent} THEN UNCHANGED tree
       ELSE IF parent = NoParent
       THEN T!Detach(l, record[l] # NoParent)
       ELSE T!Attach(l, parent, record[l] # NoParent)
    /\ record' = [record EXCEPT ![l] = parent]
    /\ Start(r, Idle, {l, parent})
    /\ UNCHANGED <<removed, roles, accountRole>>

(***************************************************************************)
(* addLocationUserRole: reads the user and the location, then puts the     *)
(* row, which replaces the roles that the user had there.                  *)
(***************************************************************************)
AddLocationUserRole(r, u, l, granted) ==
    /\ Exists(l)
    /\ Start(r, [pc |-> "put", location |-> l, user |-> u, roles |-> granted], {l})
    /\ UNCHANGED <<record, removed, tree, roles, accountRole>>

PutRole(r) ==
    LET q == request[r] IN
    /\ q.pc = "put"
    /\ roles' = [roles EXCEPT ![<<q.user, q.location>>] = q.roles]
    /\ Become(r, Idle)
    /\ UNCHANGED <<record, removed, tree, accountRole, requests, overlapped>>

RemoveLocationUserRole(r, u, l) ==
    /\ roles[<<u, l>>] # {}
    /\ roles' = [roles EXCEPT ![<<u, l>>] = {}]
    /\ Start(r, Idle, {l})
    /\ UNCHANGED <<record, removed, tree, accountRole>>

(***************************************************************************)
(* removeLocation of a location without children.  The record, the rows    *)
(* and the roles are removed side by side; the roles are read first.       *)
(***************************************************************************)
RemoveLocation(r, l) ==
    /\ Exists(l)
    /\ ~\E c \in AllChildren(l) : tree[<<l, c>>] = 1 /\ Exists(c)
    /\ Start(r, [pc |-> "remove", location |-> l, todo |-> {"record", "tree", "roles"}, users |-> {}], {l})
    /\ UNCHANGED <<record, removed, tree, roles, accountRole>>

Done(r, q) == Become(r, IF q.todo = {} /\ q.users = {} THEN Idle ELSE q)

\* Mutant: leaves the roles.
ReadUsersNone(r) ==
    LET q == request[r] IN
    /\ q.pc = "remove" /\ "roles" \in q.todo
    /\ Done(r, [q EXCEPT !.todo = @ \ {"roles"}])
    /\ UNCHANGED <<record, removed, tree, roles, accountRole, requests, overlapped>>

\* removeLocationUsersAllByLocationId: the rows of the location ...
ReadUsers(r) ==
    LET q == request[r] IN
    /\ q.pc = "remove" /\ "roles" \in q.todo
    /\ Done(r, [q EXCEPT !.todo = @ \ {"roles"}, !.users = UsersWithRole(q.location)])
    /\ UNCHANGED <<record, removed, tree, roles, accountRole, requests, overlapped>>

\* ... are removed one by one.
TakeRole(r, u) ==
    LET q == request[r] IN
    /\ q.pc = "remove" /\ u \in q.users
    /\ roles' = [roles EXCEPT ![<<u, q.location>>] = {}]
    /\ Done(r, [q EXCEPT !.users = @ \ {u}])
    /\ UNCHANGED <<record, removed, tree, accountRole, requests, overlapped>>

TakeRecord(r) ==
    LET q == request[r] IN
    /\ q.pc = "remove" /\ "record" \in q.todo
    /\ record' = [k \in Existing \ {q.location} |-> record[k]]
    /\ removed' = removed \cup {q.location}
    /\ Done(r, [q EXCEPT !.todo = @ \ {"record"}])
    /\ UNCHANGED <<tree, roles, accountRole, requests, overlapped>>

TakeRows(r) ==
    LET q == request[r] IN
    /\ q.pc = "remove" /\ "tree" \in q.todo
    /\ T!RemoveSubTree(q.location)
    /\ Done(r, [q EXCEPT !.todo = @ \ {"tree"}])
    /\ UNCHANGED <<record, removed, roles, accountRole, requests, overlapped>>

(***************************************************************************)
(* hasAccess, which decides whether a location's parent is shown in full.  *)
(* `first` and `last` remember the lists that the pages were cut from, and *)
(* `shrunk` whether something left the list between two pages.             *)
(***************************************************************************)
HasAccess(r, u, l) ==
    /\ Exists(l)
    /\ LET list == ByUserIdWithChildren(u)
       IN  Start(r, [pc |-> "walk", user |-> u, location |-> l, page |-> 1,
                     first |-> list, last |-> list, shrunk |-> FALSE, answer |-> FALSE], {})
    /\ UNCHANGED <<record, removed, tree, roles, accountRole>>

ReadPage(r) ==
    LET q == request[r]
        list == ByUserIdWithChildren(q.user)
        page == Page(list, q.page)
        now == [q EXCEPT !.last = list, !.shrunk = @ \/ ~(q.last \subseteq list)]
    IN  /\ q.pc = "walk"
        /\ Become(r, IF q.location \in page.items THEN [now EXCEPT !.pc = "told", !.answer = TRUE]
                     ELSE IF (q.page - 1) * PageSize + Cardinality(page.items) < page.total
                     THEN [now EXCEPT !.page = @ + 1]
                     ELSE [now EXCEPT !.pc = "told"])
        /\ UNCHANGED <<record, removed, tree, roles, accountRole, requests, overlapped>>

Forget(r) ==
    /\ request[r].pc = "told"
    /\ Become(r, Idle)
    /\ UNCHANGED <<record, removed, tree, roles, accountRole, requests, overlapped>>

Next ==
    \E r \in Request :
        \/ \E l \in Location, parent \in Location \cup {NoParent} :
              \/ \E creator \in User : CreateLocation(r, l, parent, creator)
              \/ Move(r, l, parent)
        \/ \E u \in User, granted \in Grants : UpdateAccountUserRole(r, u, granted)
        \/ \E u \in User, l \in Location :
              \/ \E granted \in Grants : AddLocationUserRole(r, u, l, granted)
              \/ RemoveLocationUserRole(r, u, l)
              \/ HasAccess(r, u, l)
        \/ \E l \in Location : RemoveLocation(r, l)
        \/ GiveRoles(r) \/ Link(r) \/ PutRole(r)
        \/ ReadUsers(r) \/ TakeRecord(r) \/ TakeRows(r)
        \/ \E u \in User : TakeRole(r, u)
        \/ ReadPage(r) \/ Forget(r)

Spec == Init /\ [][Next]_vars

-----------------------------------------------------------------------------
(* The four ways to ask agree: a location that exists is in the user's     *)
(* locations iff the user is among the location's users iff the SQL list   *)
(* has it; and the roles that the user is shown there, with the places     *)
(* they are inherited from, are those that the location shows.  A caller   *)
(* without privilege who reaches a location is shown himself there, and    *)
(* whom a caller is shown at a location is among the account's users.      *)
ViewsAgree ==
    \A u \in User :
        LET down == UserLocationRoles(u, TRUE)
            reached == UserLocations(u, TRUE)
        IN  \A l \in Existing :
                LET up == LocationUserRoles(l, Owner)
                IN  /\ l \in reached <=> l \in ByUserIdWithChildren(u)
                    /\ l \in reached <=> u \in LocationUsers(l, Owner)
                    /\ {<<d.roles, d.inherited>> : d \in {e \in down : e.location = l}}
                         = {<<p.roles, p.inherited>> : p \in {q \in up : q.user = u}}
                    /\ l \in reached =>
                          /\ u \in LocationUsers(l, u)
                          /\ u \in {p.user : p \in LocationUserRoles(l, u)}
                    /\ LocationUsers(l, u) \cup {p[1] : p \in AccountUserRoles(u, TRUE)} \subseteq AccountUsers(u)

\* The locations that a running request is about to write.
AtWork == UNION {Uses(request[r]) : r \in Request}

(* A location whose record was given the location itself as parent is in   *)
(* no list of roots (LocationPgTable.ts:49), though the user reaches it.   *)
OwnParent(l) == record[l] = l

(* The list of roots is where a user can start from: every location that   *)
(* the user reaches is a root or below one, unless it is or is below one   *)
(* that was given itself as parent; and no root is below another; what the *)
(* account shows him are roots.  Not while a request is at work on a       *)
(* location, and not after two used the same location at once.             *)
RootsCover ==
    \A u \in User :
        LET roots == ByUserIdRootOnly(u)
        IN  (AtWork \cup overlapped) \cap Location = {} =>
               /\ \A l \in ByUserIdWithChildren(u) :
                     \E p \in {l} \cup AllParents(l) : p \in roots \/ OwnParent(p)
               /\ \A l, k \in roots : l \notin AllChildren(k)
               /\ AccountType = "personal" => {l \in roots : record[l] = NoParent} \subseteq AccountLocations(u)

(* hasAccess says no only to locations that the user did not reach when    *)
(* the walk began, unless something left the list during the walk.         *)
AccessIsFound ==
    \A r \in Request :
        LET q == request[r]
        IN  q.pc = "told" /\ ~q.answer /\ ~q.shrunk => q.location \notin q.first

(* A role ends with its location: no role names a location that is gone,   *)
(* unless the removal is still at work or met a request that used it.      *)
RolesEndWithLocation ==
    \A u \in User, l \in Location :
        roles[<<u, l>>] # {} => Exists(l) \/ l \in AtWork \cup overlapped

=============================================================================
