---------------------------- MODULE ServicesProofs ----------------------------
(***************************************************************************)
(* What the services tell of locations and of records.                     *)
(*                                                                         *)
(* Locations (LocationAccess), for any finite set of locations, any users  *)
(* and any number of requests: every way to ask who sees what gives the    *)
(* same answer, hasAccess misses no page, roles end with their location,   *)
(* and the lists of roots cover what a user reaches.  The table is the     *)
(* closure table of LocationTree, whose theorems are used here.  What is   *)
(* said of roles and of the two stores rests on this: as long as no two    *)
(* requests used a location at the same time, a request at work finds it   *)
(* as it left it.                                                          *)
(*                                                                         *)
(* Records (Records), for any number of updates and any values: a property *)
(* shows what it was last asked to be.  This rests on the columns: each    *)
(* property has one, no two share one, and so the SET operations of an     *)
(* update write the columns of what was given and of nothing else.         *)
(***************************************************************************)
EXTENDS LocationAccess, Records, FiniteSetTheorems, SequenceTheorems, WellFoundedInduction, TLAPS

(* Of these proofs only what they say of the table is needed, so the cache *)
(* is given no calls.                                                      *)
P == INSTANCE LocationTreeProofs WITH
        Reader <- {}, Writer <- {}, CachePolicy <- {}, MaxWrites <- 0,
        cache <- <<>>, reader <- <<>>, writer <- <<>>, writes <- 0, suspect <- {}

(* What CachedLocationTree assumes, of the instance without calls.         *)
LEMMA NoCallers ==
    /\ NoParent \notin Location
    /\ {} \subseteq {"READ_WRITE", "READ_ONLY", "WRITE_ONLY", "OFF"}
    /\ 0 \in Nat
  BY AccessAssumption DEF NoParent

-----------------------------------------------------------------------------
(* The closure table.                                                      *)

Row(a, b) == <<a, b>> \in DOMAIN tree

TreeParents(l) == {p \in Location : Row(p, l) /\ tree[<<p, l>>] = 1}

LEMMA TreeFacts ==
    ASSUME P!Stepwise(tree)
    PROVE  /\ \A a, b \in Location : Row(a, b) => Row(a, a) /\ Row(b, b)
           /\ \A a, b, c \in Location : Row(a, b) /\ Row(b, c) => Row(a, c)
           /\ \A a, b \in Location : Row(a, b) /\ Row(b, a) => a = b
           /\ \A a, b \in Location : a \in TreeParents(b) => Row(a, b) /\ a # b
           /\ \A a, c \in Location : Row(a, c) /\ a # c =>
                /\ \E b \in Location : a \in TreeParents(b) /\ Row(b, c)
                /\ \E b \in TreeParents(c) : Row(a, b)
           /\ \A a, b \in Location : Row(a, b) => tree[<<a, b>>] \in Nat /\ (tree[<<a, b>>] = 0 <=> a = b)
<1>1. P!IsHierarchy(tree) /\ P!IsStepwise(tree)
  BY DEF P!Stepwise
<1>2. \A a, b \in Location : Row(a, b) => Row(a, a) /\ Row(b, b)
  <2> SUFFICES ASSUME NEW a \in Location, NEW b \in Location, Row(a, b)
               PROVE  Row(a, a) /\ Row(b, b)
    OBVIOUS
  <2>1. <<a, b>>[1] = a /\ <<a, b>>[2] = b
    OBVIOUS
  <2> QED
    BY <1>1, <2>1 DEF Row, P!IsHierarchy, P!IsClosure, P!IsReflexive
<1>3. \A a, b, c \in Location : Row(a, b) /\ Row(b, c) => Row(a, c)
  BY <1>1 DEF Row, P!IsHierarchy, P!IsClosure, P!IsTransitive
<1>4. \A a, b \in Location : Row(a, b) /\ Row(b, a) => a = b
  BY <1>1 DEF Row, P!IsHierarchy, P!IsAcyclic
<1>5. \A a, b \in Location : P!Link(tree, a, b) <=> a \in TreeParents(b)
  BY DEF P!Link, TreeParents, Row
<1>6. \A a, b \in Location : Row(a, b) => tree[<<a, b>>] \in Nat /\ (tree[<<a, b>>] = 0 <=> a = b)
  <2> SUFFICES ASSUME NEW a \in Location, NEW b \in Location, Row(a, b)
               PROVE  tree[<<a, b>>] \in Nat /\ (tree[<<a, b>>] = 0 <=> a = b)
    OBVIOUS
  <2>1. <<a, b>>[1] = a /\ <<a, b>>[2] = b
    OBVIOUS
  <2> QED
    BY <1>1, <2>1 DEF Row, P!IsHierarchy, P!IsClosure, P!IsTable, P!IsDistance
<1>7. \A a, b \in Location : a \in TreeParents(b) => Row(a, b) /\ a # b
  BY <1>6 DEF TreeParents
<1>8. \A a, c \in Location : Row(a, c) /\ a # c =>
          /\ \E b \in Location : a \in TreeParents(b) /\ Row(b, c)
          /\ \E b \in TreeParents(c) : Row(a, b)
  <2>1. \A b, c \in Location : b \in TreeParents(c) => b \in Location
    OBVIOUS
  <2> QED
    BY <1>1, <1>5 DEF P!IsStepwise, Row
<1> QED
  BY <1>2, <1>3, <1>4, <1>6, <1>7, <1>8

(* What the reads of the resolvers return.                                 *)
LEMMA Reads ==
    ASSUME P!Stepwise(tree), NEW l \in Location
    PROVE  /\ AllChildren(l) = {c \in Location : c # l /\ Row(l, c)}
           /\ AllParents(l) = {p \in Location : p # l /\ Row(p, l)}
<1>1. \A a, b \in Location : Row(a, b) => (tree[<<a, b>>] > 0 <=> a # b)
  BY TreeFacts
<1> QED
  BY <1>1 DEF AllChildren, AllParents, Row, T!Rows

-----------------------------------------------------------------------------
(* The types.                                                              *)

Role == {"owner", "write", "readonly"}

RequestType ==
    [pc : {"idle"}]
    \cup {q \in [pc : {"grant"}, location : Location, parent : Location \cup {NoParent}, creator : User] :
             q.parent # q.location}
    \cup {q \in [pc : {"link"}, location : Location, parent : Location] : q.parent # q.location}
    \cup [pc : {"put"}, location : Location, user : User, roles : SUBSET Role]
    \cup [pc : {"remove"}, location : Location, todo : SUBSET {"record", "tree", "roles"}, users : SUBSET User]
    \cup [pc : {"walk", "told"}, user : User, location : Location, page : Nat,
          first : SUBSET Location, last : SUBSET Location, shrunk : BOOLEAN, answer : BOOLEAN]

(* The types of the tables and of the requests in flight; every user has   *)
(* a role on the account, and the owner his own.                           *)
TypeOK ==
    /\ Existing \subseteq Location
    /\ record \in [Existing -> Location \cup {NoParent}]
    /\ removed \subseteq Location
    /\ roles \in [User \X Location -> SUBSET Role]
    /\ accountRole \in [User -> (SUBSET Role) \ {{}}]
    /\ accountRole[Owner] = {"owner"}
    /\ request \in [Request -> RequestType]

LEMMA Fields ==
    ASSUME TypeOK, NEW r \in Request
    PROVE  /\ request[r].pc = "grant" =>
                /\ request[r] \in [pc : {"grant"}, location : Location, parent : Location \cup {NoParent}, creator : User]
                /\ request[r].parent # request[r].location
           /\ request[r].pc = "link" =>
                /\ request[r] \in [pc : {"link"}, location : Location, parent : Location]
                /\ request[r].parent # request[r].location
           /\ request[r].pc = "put" =>
                request[r] \in [pc : {"put"}, location : Location, user : User, roles : SUBSET Role]
           /\ request[r].pc = "remove" =>
                request[r] \in [pc : {"remove"}, location : Location,
                                todo : SUBSET {"record", "tree", "roles"}, users : SUBSET User]
           /\ request[r].pc \in {"walk", "told"} =>
                request[r] \in [pc : {"walk", "told"}, user : User, location : Location, page : Nat,
                                first : SUBSET Location, last : SUBSET Location, shrunk : BOOLEAN, answer : BOOLEAN]
  BY DEF TypeOK, RequestType

LEMMA BecomeType ==
    ASSUME TypeOK, NEW r \in Request, NEW state \in RequestType, Become(r, state)
    PROVE  request' \in [Request -> RequestType]
  BY DEF TypeOK, Become

LEMMA IdleType == Idle \in RequestType
  BY DEF Idle, RequestType
-----------------------------------------------------------------------------
(* Every view agrees.                                                      *)

(* The rank of a set of roles is a number.                                 *)
LEMMA LevelType == \A rs : MaxSecurityLevel(rs) \in Nat
<1> SUFFICES ASSUME NEW rs
             PROVE  MaxSecurityLevel(rs) \in Nat
  OBVIOUS
<1> DEFINE levels == {SecurityLevel(r) : r \in rs} \cup {0}
<1>1. \A r : SecurityLevel(r) \in {0, 10, 50, 80, 100}
  BY DEF SecurityLevel
<1>2. levels \subseteq {0, 10, 50, 80, 100} /\ 0 \in levels
  BY <1>1
<1> HIDE DEF levels
<1>3. \E m \in levels : \A n \in levels : n <= m
  <2>1. CASE 100 \in levels
    BY <1>2, <2>1
  <2>2. CASE 100 \notin levels /\ 80 \in levels
    BY <1>2, <2>2
  <2>3. CASE 100 \notin levels /\ 80 \notin levels /\ 50 \in levels
    BY <1>2, <2>3
  <2>4. CASE 100 \notin levels /\ 80 \notin levels /\ 50 \notin levels /\ 10 \in levels
    BY <1>2, <2>4
  <2>5. CASE 100 \notin levels /\ 80 \notin levels /\ 50 \notin levels /\ 10 \notin levels
    BY <1>2, <2>5
  <2> QED
    BY <2>1, <2>2, <2>3, <2>4, <2>5
<1>4. MaxSecurityLevel(rs) \in levels
  BY <1>3 DEF MaxSecurityLevel, levels
<1>5. MaxSecurityLevel(rs) \in {0, 10, 50, 80, 100}
  BY <1>2, <1>4
<1> QED
  BY <1>5

(* The locations that a user reaches, in terms of the rows.                *)
Reaches(u, l) == \E p \in LocationsWithRole(u) : p = l \/ Row(p, l)

LEMMA ReachedFacts ==
    ASSUME P!Stepwise(tree), NEW u \in User, NEW l \in Location
    PROVE  /\ l \in Reached(u) <=> Reaches(u, l)
           /\ l \in LocationsWithRole(u) \cup UNION {AllChildren(p) : p \in LocationsWithRole(u)} <=> Reaches(u, l)
           /\ u \in UsersOf(l) <=> Reaches(u, l)
<1>1. /\ \A p \in LocationsWithRole(u) : p \in Location
      /\ l \in LocationsWithRole(u) <=> u \in UsersWithRole(l)
      /\ \A p \in Location : p \in LocationsWithRole(u) <=> u \in UsersWithRole(p)
  BY DEF LocationsWithRole, UsersWithRole
<1>2. \A p \in Location : /\ l \in AllChildren(p) <=> l # p /\ Row(p, l)
                          /\ p \in AllParents(l) <=> l # p /\ Row(p, l)
  BY Reads
<1>3. l \in Reached(u) <=> Reaches(u, l)
  <2> DEFINE below(p) == {c \in Location : <<p, c>> \in T!Rows}
  <2>1. \A p \in LocationsWithRole(u) : below(p) # {} => p \in below(p)
    BY <1>1, TreeFacts DEF Row, T!Rows
  <2>2. l \in Reached(u) <=> \E p \in LocationsWithRole(u) : l \in IF below(p) = {} THEN {p} ELSE below(p)
    BY DEF Reached
  <2>3. \A p \in LocationsWithRole(u) : l \in below(p) <=> Row(p, l)
    BY DEF Row, T!Rows
  <2> HIDE DEF below
  <2> QED
    BY <2>1, <2>2, <2>3 DEF Reaches
<1>4. l \in LocationsWithRole(u) \cup UNION {AllChildren(p) : p \in LocationsWithRole(u)} <=> Reaches(u, l)
  BY <1>1, <1>2 DEF Reaches
<1>5. u \in UsersOf(l) <=> Reaches(u, l)
  <2>1. \A p \in AllParents(l) : p \in Location
    BY DEF AllParents
  <2>2. u \in UsersOf(l) <=> u \in UsersWithRole(l) \/ \E p \in AllParents(l) : u \in UsersWithRole(p)
    BY DEF UsersOf
  <2> QED
    BY <1>1, <1>2, <2>1, <2>2 DEF Reaches
<1> QED
  BY <1>3, <1>4, <1>5

(* The places that the roles of u at l are inherited from.                 *)
LEMMA Inherited ==
    ASSUME P!Stepwise(tree), NEW u \in User, NEW l \in Location
    PROVE  {q \in LocationsWithRole(u) : l \in AllChildren(q)} = {q \in AllParents(l) : u \in UsersWithRole(q)}
  BY Reads DEF LocationsWithRole, UsersWithRole

LEMMA StateAgrees ==
    ASSUME TypeOK, P!Stepwise(tree)
    PROVE  ViewsAgree
<1> SUFFICES ASSUME NEW u \in User, NEW l \in Existing
             PROVE  LET down == UserLocationRoles(u, TRUE)
                        reached == UserLocations(u, TRUE)
                        up == LocationUserRoles(l, Owner)
                    IN  /\ l \in reached <=> l \in ByUserIdWithChildren(u)
                        /\ l \in reached <=> u \in LocationUsers(l, Owner)
                        /\ {<<d.roles, d.inherited>> : d \in {e \in down : e.location = l}}
                             = {<<p.roles, p.inherited>> : p \in {q \in up : q.user = u}}
                        /\ l \in reached =>
                              /\ u \in LocationUsers(l, u)
                              /\ u \in {p.user : p \in LocationUserRoles(l, u)}
                        /\ LocationUsers(l, u) \cup {p[1] : p \in AccountUserRoles(u, TRUE)} \subseteq AccountUsers(u)
  BY DEF ViewsAgree
<1> DEFINE reached == UserLocations(u, TRUE)
           all == LocationsWithRole(u) \cup UNION {AllChildren(p) : p \in LocationsWithRole(u)}
           level(v) == MaxSecurityLevel(RolesAt(l, v))
           from == {q \in AllParents(l) : u \in UsersWithRole(q)}
           inherited == {<<p, roles[<<u, p>>]>> : p \in from}
<1>1. l \in Location /\ HasPrivilege(Owner) /\ \A v \in User : accountRole[v] # {}
  BY AccessAssumption DEF TypeOK, HasPrivilege
<1>2. reached = all
  BY <1>1 DEF UserLocations
<1>3. /\ l \in all <=> Reaches(u, l)
      /\ l \in Reached(u) <=> Reaches(u, l)
      /\ u \in UsersOf(l) <=> Reaches(u, l)
  BY <1>1, ReachedFacts
<1>4. l \in reached <=> l \in ByUserIdWithChildren(u)
  BY <1>2, <1>3 DEF ByUserIdWithChildren
<1>5. l \in reached <=> u \in LocationUsers(l, Owner)
  BY <1>1, <1>2, <1>3 DEF LocationUsers
<1>6. {<<d.roles, d.inherited>> : d \in {e \in UserLocationRoles(u, TRUE) : e.location = l}}
          = IF l \in all THEN {<<roles[<<u, l>>], inherited>>} ELSE {}
  <2> DEFINE shown(k) ==
          [location  |-> k,
           roles     |-> roles[<<u, k>>],
           inherited |-> {<<p, roles[<<u, p>>]>> : p \in {q \in LocationsWithRole(u) : k \in AllChildren(q)}}]
  <2>1. UserLocationRoles(u, TRUE) = {shown(k) : k \in all}
    BY <1>1 DEF UserLocationRoles
  <2>2. {q \in LocationsWithRole(u) : l \in AllChildren(q)} = from
    BY <1>1, Inherited
  <2>3. shown(l).roles = roles[<<u, l>>] /\ shown(l).inherited = inherited
    BY <2>2
  <2>4. \A k : shown(k).location = k
    OBVIOUS
  <2> HIDE DEF shown, all, inherited
  <2>5. {e \in UserLocationRoles(u, TRUE) : e.location = l} = IF l \in all THEN {shown(l)} ELSE {}
    BY <2>1, <2>4
  <2> QED
    BY <2>3, <2>5
<1>7. {<<p.roles, p.inherited>> : p \in {q \in LocationUserRoles(l, Owner) : q.user = u}}
          = IF u \in UsersOf(l) THEN {<<roles[<<u, l>>], inherited>>} ELSE {}
  <2> DEFINE shown(v) ==
          [user      |-> v,
           roles     |-> roles[<<v, l>>],
           inherited |-> {<<p, roles[<<v, p>>]>> : p \in {q \in AllParents(l) : v \in UsersWithRole(q)}}]
  <2>1. LocationUserRoles(l, Owner) = {shown(v) : v \in UsersOf(l)}
    BY <1>1 DEF LocationUserRoles
  <2>2. shown(u).roles = roles[<<u, l>>] /\ shown(u).inherited = inherited
    OBVIOUS
  <2>3. \A v : shown(v).user = v
    OBVIOUS
  <2> HIDE DEF shown, inherited
  <2>4. {q \in LocationUserRoles(l, Owner) : q.user = u} = IF u \in UsersOf(l) THEN {shown(u)} ELSE {}
    BY <2>1, <2>3
  <2> QED
    BY <2>2, <2>4
<1>8. ASSUME l \in reached
      PROVE  u \in LocationUsers(l, u) /\ u \in {p.user : p \in LocationUserRoles(l, u)}
  <2>1. u \in UsersOf(l)
    BY <1>2, <1>3, <1>8
  <2>2. u \in LocationUsers(l, u)
    BY <2>1 DEF LocationUsers
  <2> DEFINE visible == IF HasPrivilege(u) THEN UsersOf(l)
                        ELSE {v \in UsersOf(l) : level(v) <= level(u)}
             shown(v) ==
                 [user      |-> v,
                  roles     |-> roles[<<v, l>>],
                  inherited |-> {<<p, roles[<<v, p>>]>> : p \in {q \in AllParents(l) : v \in UsersWithRole(q)}}]
  <2>3. LocationUserRoles(l, u) = {shown(v) : v \in visible}
    BY <2>1 DEF LocationUserRoles
  <2>4. u \in visible
    <3>1. level(u) \in Nat
      BY LevelType
    <3> HIDE DEF level
    <3> QED
      BY <2>1, <3>1
  <2>5. shown(u).user = u
    OBVIOUS
  <2> HIDE DEF visible, shown
  <2> QED
    BY <2>2, <2>3, <2>4, <2>5
<1>9. LocationUsers(l, u) \cup {p[1] : p \in AccountUserRoles(u, TRUE)} \subseteq AccountUsers(u)
  <2>1. \A v \in User : (HasPrivilege(u) \/ v = u) => v \in AccountUsers(u)
    <3>1. MaxSecurityLevel(accountRole[u]) \in Nat
      BY LevelType
    <3> QED
      BY <1>1, <3>1 DEF AccountUsers
  <2>2. \A v \in LocationUsers(l, u) : v \in User /\ (HasPrivilege(u) \/ v = u)
    BY DEF LocationUsers, UsersOf, UsersWithRole
  <2>3. \A p \in AccountUserRoles(u, TRUE) : p[1] \in User /\ (HasPrivilege(u) \/ p[1] = u)
    BY DEF AccountUserRoles
  <2> QED
    BY <2>1, <2>2, <2>3
<1> QED
  BY <1>2, <1>3, <1>4, <1>5, <1>6, <1>7, <1>8, <1>9

-----------------------------------------------------------------------------
(* Pages.  Location ids are numbers, so a list has a first member, and the *)
(* members before one are fewer than those before a later one.             *)

LEMMA LessIsWellFounded == IsWellFoundedOn({s \in Nat \X Nat : s[1] < s[2]}, Nat)
  BY NatLessThanWellFounded DEF OpToRel

LEMMA LeastNumber ==
    ASSUME NEW S \in SUBSET Nat, S # {}
    PROVE  \E n \in S : \A m \in S : n <= m
<1> DEFINE R == {s \in Nat \X Nat : s[1] < s[2]}
<1>1. IsWellFoundedOn(R, Nat)
  BY LessIsWellFounded
<1>2. \A x, y \in Nat : y < x => <<y, x>> \in R
  OBVIOUS
<1> HIDE DEF R
<1>3. PICK x \in S : \A y \in S : ~(<<y, x>> \in R)
  BY <1>1, WFMin
<1>4. \A y \in S : ~(y < x)
  BY <1>2, <1>3
<1>5. \A y \in S : x <= y
  BY <1>4
<1> QED
  BY <1>5

LEMMA SetOfIds == ASSUME NEW S \in SUBSET Location
                  PROVE  IsFiniteSet(S) /\ Cardinality(S) \in Nat /\ S \subseteq Nat
  BY AccessAssumption, FS_Subset, FS_CardinalityType

LEMMA RankType ==
    ASSUME NEW S \in SUBSET Location, NEW l \in Location
    PROVE  /\ Before(S, l) \in Nat
           /\ l \in S => Before(S, l) < Cardinality(S)
<1> DEFINE K == {k \in S : k < l}
<1>0. l \in Nat
  BY AccessAssumption
<1>1. K \in SUBSET S /\ K \in SUBSET Location /\ l \notin K
  <2>1. ~(l < l)
    BY <1>0
  <2>2. \A k \in K : k \in S /\ k < l
    OBVIOUS
  <2> HIDE DEF K
  <2> QED
    BY <2>1, <2>2
<1>2. Before(S, l) = Cardinality(K)
  BY DEF Before
<1> HIDE DEF K
<1>3. IsFiniteSet(S) /\ IsFiniteSet(K) /\ Cardinality(K) \in Nat /\ Cardinality(S) \in Nat
  BY <1>1, SetOfIds
<1>4. ASSUME l \in S
      PROVE  Cardinality(K) < Cardinality(S)
  <2>1. Cardinality(K) <= Cardinality(S) /\ (Cardinality(S) = Cardinality(K) => S = K)
    BY <1>1, <1>3, FS_Subset
  <2> QED
    BY <1>1, <1>3, <1>4, <2>1
<1> QED
  BY <1>2, <1>3, <1>4

(* A later member has more before it.                                      *)
LEMMA RankGrows ==
    ASSUME NEW S \in SUBSET Location, NEW l \in S, NEW k \in Location, l < k
    PROVE  Before(S, l) < Before(S, k)
<1> DEFINE L == {x \in S : x < l}
           K == {x \in S : x < k}
<1>0. l \in Nat /\ k \in Nat /\ \A x \in S : x \in Nat
  BY AccessAssumption
<1>1. L \in SUBSET K /\ K \in SUBSET Location /\ l \in K /\ l \notin L
  <2>1. ~(l < l) /\ \A x \in S : x < l => x < k
    BY <1>0
  <2>2. \A x : (x \in L <=> x \in S /\ x < l) /\ (x \in K <=> x \in S /\ x < k)
    OBVIOUS
  <2> HIDE DEF L, K
  <2> QED
    BY <2>1, <2>2
<1>2. Before(S, l) = Cardinality(L) /\ Before(S, k) = Cardinality(K)
  BY DEF Before
<1> HIDE DEF L, K
<1>3. IsFiniteSet(K) /\ Cardinality(K) \in Nat /\ Cardinality(L) \in Nat
  BY <1>1, SetOfIds
<1>4. Cardinality(L) <= Cardinality(K) /\ (Cardinality(K) = Cardinality(L) => K = L)
  BY <1>1, <1>3, FS_Subset
<1> QED
  BY <1>1, <1>2, <1>3, <1>4

(* A list that only grew has no fewer before a member.                     *)
LEMMA RankOfLonger ==
    ASSUME NEW S \in SUBSET Location, NEW S2 \in SUBSET Location, S \subseteq S2, NEW l \in Location
    PROVE  Before(S, l) <= Before(S2, l)
<1> DEFINE K == {x \in S : x < l}
           K2 == {x \in S2 : x < l}
<1>1. K \in SUBSET K2 /\ K2 \in SUBSET Location
  OBVIOUS
<1>2. Before(S, l) = Cardinality(K) /\ Before(S2, l) = Cardinality(K2)
  BY DEF Before
<1> HIDE DEF K, K2
<1>3. IsFiniteSet(K2)
  BY <1>1, SetOfIds
<1> QED
  BY <1>1, <1>2, <1>3, FS_Subset

(* Members whose ranks lie in an interval are no more than the interval.   *)
LEMMA Window ==
    ASSUME NEW S \in SUBSET Location, NEW K \in SUBSET S, NEW a \in Nat, NEW b \in Nat, a <= b,
           \A k \in K : a <= Before(S, k) /\ Before(S, k) < b
    PROVE  Cardinality(K) <= b - a
<1> DEFINE f == [k \in K |-> Before(S, k)]
<1>1. \A k \in K : Before(S, k) \in Nat
  BY RankType
<1>2. f \in [K -> a .. (b - 1)]
  BY <1>1
<1>3. \A k, l \in K : f[k] = f[l] => k = l
  <2> SUFFICES ASSUME NEW k \in K, NEW l \in K, Before(S, k) = Before(S, l)
               PROVE  k = l
    OBVIOUS
  <2>1. k \in S /\ l \in S /\ k \in Location /\ l \in Location /\ k \in Nat /\ l \in Nat
    BY AccessAssumption
  <2>2. CASE k < l
    BY <1>1, <2>1, <2>2, RankGrows
  <2>3. CASE l < k
    BY <1>1, <2>1, <2>3, RankGrows
  <2> QED
    BY <2>1, <2>2, <2>3
<1> HIDE DEF f
<1>4. f \in Injection(K, a .. (b - 1))
  BY <1>2, <1>3 DEF Injection, IsInjective
<1>5. IsFiniteSet(a .. (b - 1)) /\ Cardinality(a .. (b - 1)) = b - a
  <2>1. a \in Int /\ b - 1 \in Int
    OBVIOUS
  <2>2. IsFiniteSet(a .. (b - 1)) /\ Cardinality(a .. (b - 1)) = IF a > b - 1 THEN 0 ELSE (b - 1) - a + 1
    BY <2>1, FS_Interval
  <2> QED
    BY <2>2
<1>6. Cardinality(K) <= Cardinality(a .. (b - 1))
  BY <1>4, <1>5, FS_Injection
<1> QED
  BY <1>5, <1>6

(* If a member has at least n before it, one has exactly n.                *)
LEMMA RankIsReached ==
    ASSUME NEW S \in SUBSET Location, NEW l \in S, NEW n \in Nat, Before(S, l) >= n
    PROVE  \E k \in S : Before(S, k) = n
<1> DEFINE late == {k \in S : Before(S, k) >= n}
<1>1. late \in SUBSET Nat /\ late # {}
  BY SetOfIds
<1>2. PICK k \in late : \A m \in late : k <= m
  BY <1>1, LeastNumber
<1>3. k \in S /\ k \in Location /\ k \in Nat /\ Before(S, k) \in Nat /\ Before(S, k) >= n
  BY RankType, SetOfIds
<1> DEFINE K == {x \in S : x < k}
<1>4. K \in SUBSET S /\ 0 \in Nat /\ 0 <= n
  OBVIOUS
<1>5. \A x \in K : 0 <= Before(S, x) /\ Before(S, x) < n
  <2> SUFFICES ASSUME NEW x \in S, x < k
               PROVE  0 <= Before(S, x) /\ Before(S, x) < n
    OBVIOUS
  <2>1. x \notin late
    BY <1>2, <1>3, SetOfIds
  <2>2. Before(S, x) \in Nat
    BY RankType
  <2> QED
    BY <2>1, <2>2
<1>6. Before(S, k) = Cardinality(K)
  BY DEF Before
<1> HIDE DEF late, K
<1>7. Cardinality(K) <= n - 0
  BY <1>4, <1>5, Window
<1> QED
  BY <1>3, <1>6, <1>7

(* A page that does not reach a member of the list is full, and the total  *)
(* says that there is more.                                                *)
LEMMA PageSays ==
    ASSUME NEW S \in SUBSET Location, NEW page \in Nat, page # 0, NEW l \in S,
           Before(S, l) >= PageSize * (page - 1), l \notin Page(S, page).items
    PROVE  /\ (page - 1) * PageSize + Cardinality(Page(S, page).items) < Page(S, page).total
           /\ Before(S, l) >= PageSize * ((page + 1) - 1)
<1> DEFINE n == PageSize * (page - 1)
           m == PageSize * page
           items == {k \in S : Before(S, k) >= n /\ Before(S, k) < m}
<1>1. n \in Nat /\ m \in Nat /\ m = n + PageSize /\ (page - 1) * PageSize = n /\ PageSize * ((page + 1) - 1) = m
  BY AccessAssumption
<1>2. Page(S, page) = [items |-> items, total |-> IF items = {} THEN 0 ELSE Cardinality(S)]
  BY DEF Page
<1>3. Before(S, l) >= n
  OBVIOUS
<1> HIDE DEF n, m
<1>4. Before(S, l) \in Nat /\ Before(S, l) < Cardinality(S) /\ l \notin items
  BY <1>2, RankType
<1>5. Before(S, l) >= m
  BY <1>1, <1>3, <1>4
<1>6. PICK k \in S : Before(S, k) = n
  BY <1>1, <1>3, RankIsReached
<1>7. k \in items
  BY <1>1, <1>6, AccessAssumption
<1>8. items \in SUBSET S /\ \A x \in items : n <= Before(S, x) /\ Before(S, x) < m
  <2> SUFFICES ASSUME NEW x \in S, Before(S, x) >= n, Before(S, x) < m
               PROVE  n <= Before(S, x)
    OBVIOUS
  <2> QED
    BY <1>1, RankType
<1> HIDE DEF items
<1>9. Cardinality(items) <= m - n
  <2>1. n <= m
    BY <1>1, AccessAssumption
  <2> QED
    BY <1>1, <1>8, <2>1, Window
<1>10. Cardinality(items) \in Nat /\ Cardinality(S) \in Nat
  BY <1>8, SetOfIds
<1>11. Page(S, page).items = items /\ Page(S, page).total = Cardinality(S)
  BY <1>2, <1>7
<1> QED
  BY <1>1, <1>4, <1>5, <1>9, <1>10, <1>11, AccessAssumption
-----------------------------------------------------------------------------
(* The table changes as in LocationTree, and the types stay.               *)

LEMMA SameStatements ==
    ASSUME NEW id, NEW parent, NEW hasPrev
    PROVE  /\ T!Attach(id, parent, hasPrev) <=> P!Attach(id, parent, hasPrev)
           /\ T!AttachRolledBack(id, parent, hasPrev) <=> P!AttachRolledBack(id, parent, hasPrev)
           /\ T!Detach(id, hasPrev) <=> P!Detach(id, hasPrev)
           /\ T!RemoveSubTree(id) <=> P!RemoveSubTree(id)
  BY DEF T!RemoveSubTree, P!RemoveSubTree, T!Detach, P!Detach, T!Attach, P!Attach,
         T!AttachRolledBack, P!AttachRolledBack, T!Rows, P!Rows, T!DeleteRows, P!DeleteRows,
         T!Detached, P!Detached, T!DetachedRows, P!DetachedRows, T!Linked, P!Linked,
         T!SelfLink, P!SelfLink, T!Conflicts, P!Conflicts, T!NewRows, P!NewRows,
         T!InsertRows, P!InsertRows

(* What a move of one step does to the two stores.                         *)
LEMMA MoveFacts ==
    ASSUME TypeOK, NEW r \in Request, NEW l \in Location, NEW parent \in Location \cup {NoParent},
           Move(r, l, parent)
    PROVE  /\ l \in Existing
           /\ parent # NoParent => parent \in Existing
           /\ (record[l] # NoParent) \in BOOLEAN
           /\ \/ parent \in Location /\ parent \in {l, record[l]} /\ UNCHANGED tree
              \/ parent = NoParent /\ T!Detach(l, record[l] # NoParent)
              \/ parent \in Location /\ parent # l /\ T!Attach(l, parent, record[l] # NoParent)
           /\ record' = [record EXCEPT ![l] = parent]
           /\ Existing' = Existing
           /\ Start(r, Idle, {l, parent})
           /\ UNCHANGED <<removed, roles, accountRole>>
  BY DEF Move, Exists, Existing, TypeOK

LEMMA LinkFacts ==
    ASSUME TypeOK, NEW r \in Request, Link(r)
    PROVE  /\ request[r].pc = "link"
           /\ request[r].location \in Location /\ request[r].parent \in Location
           /\ request[r].parent # request[r].location
           /\ \/ T!Attach(request[r].location, request[r].parent, FALSE)
              \/ T!AttachRolledBack(request[r].location, request[r].parent, FALSE)
           /\ Become(r, Idle)
           /\ UNCHANGED <<record, removed, roles, accountRole, requests, overlapped>>
  BY Fields DEF Link

LEMMA NextIsTable == TypeOK /\ [Next]_vars => [P!Next]_tree
<1> SUFFICES ASSUME TypeOK, [Next]_vars PROVE [P!Next]_tree
  OBVIOUS
<1>1. ASSUME NEW r \in Request, NEW l \in Location, NEW parent \in Location \cup {NoParent},
             Move(r, l, parent)
      PROVE  [P!Next]_tree
  <2> DEFINE hasPrev == record[l] # NoParent
  <2>1. /\ hasPrev \in BOOLEAN
        /\ \/ UNCHANGED tree
           \/ T!Detach(l, hasPrev)
           \/ parent \in Location /\ parent # l /\ T!Attach(l, parent, hasPrev)
    BY <1>1, MoveFacts
  <2> HIDE DEF hasPrev
  <2>2. CASE T!Detach(l, hasPrev)
    BY <2>1, <2>2, SameStatements DEF P!Next
  <2>3. CASE parent \in Location /\ parent # l /\ T!Attach(l, parent, hasPrev)
    BY <2>1, <2>3, SameStatements DEF P!Next
  <2> QED
    BY <2>1, <2>2, <2>3
<1>2. ASSUME NEW r \in Request, Link(r)
      PROVE  P!Next
  <2>1. /\ request[r].location \in Location /\ request[r].parent \in Location \ {request[r].location}
        /\ \/ P!Attach(request[r].location, request[r].parent, FALSE)
           \/ P!AttachRolledBack(request[r].location, request[r].parent, FALSE)
    BY <1>2, LinkFacts, SameStatements
  <2> QED
    BY <2>1 DEF P!Next
<1>3. ASSUME NEW r \in Request, TakeRows(r)
      PROVE  P!Next
  <2>1. request[r].location \in Location
    BY <1>3, Fields DEF TakeRows
  <2> QED
    BY <1>3, <2>1, SameStatements DEF TakeRows, P!Next
<1>4. ASSUME NEW r \in Request, GiveRoles(r) \/ PutRole(r) \/ ReadUsers(r) \/ TakeRecord(r) \/ ReadPage(r) \/ Forget(r)
      PROVE  UNCHANGED tree
  BY <1>4 DEF GiveRoles, PutRole, ReadUsers, TakeRecord, ReadPage, Forget
<1>5. ASSUME NEW r \in Request, NEW u \in User, TakeRole(r, u)
      PROVE  UNCHANGED tree
  BY <1>5 DEF TakeRole
<1>6. ASSUME NEW r \in Request, NEW l \in Location, RemoveLocation(r, l)
      PROVE  UNCHANGED tree
  BY <1>6 DEF RemoveLocation
<1>7. ASSUME NEW r \in Request, NEW u \in User, NEW l \in Location, NEW granted \in Grants,
             AddLocationUserRole(r, u, l, granted)
      PROVE  UNCHANGED tree
  BY <1>7 DEF AddLocationUserRole
<1>8. ASSUME NEW r \in Request, NEW u \in User, NEW l \in Location,
             RemoveLocationUserRole(r, u, l) \/ HasAccess(r, u, l)
      PROVE  UNCHANGED tree
  BY <1>8 DEF RemoveLocationUserRole, HasAccess
<1>9. ASSUME NEW r \in Request, NEW l \in Location, NEW parent \in Location \cup {NoParent},
             NEW creator \in User, CreateLocation(r, l, parent, creator)
      PROVE  UNCHANGED tree
  BY <1>9 DEF CreateLocation
<1>10. CASE UNCHANGED vars
  BY <1>10 DEF vars
<1>11. ASSUME NEW r \in Request, NEW u \in User, NEW granted \in Grants, UpdateAccountUserRole(r, u, granted)
       PROVE  UNCHANGED tree
  BY <1>11 DEF UpdateAccountUserRole
<1> QED
  BY <1>1, <1>2, <1>3, <1>4, <1>5, <1>6, <1>7, <1>8, <1>9, <1>10, <1>11 DEF Next

LEMMA NextSteps == TypeOK /\ P!Stepwise(tree) /\ [Next]_vars => P!Stepwise(tree)'
  BY NextIsTable, NoCallers, P!NextSteps

LEMMA StartType ==
    ASSUME TypeOK, NEW r \in Request, NEW state \in RequestType, NEW uses, Start(r, state, uses)
    PROVE  request' \in [Request -> RequestType]
  BY BecomeType DEF Start

LEMMA DoneType ==
    ASSUME TypeOK, NEW r \in Request, NEW q \in RequestType, Done(r, q)
    PROVE  request' \in [Request -> RequestType]
  BY BecomeType, IdleType DEF Done

LEMMA NextType == TypeOK /\ [Next]_vars => TypeOK'
<1> SUFFICES ASSUME TypeOK, [Next]_vars PROVE TypeOK'
  OBVIOUS
<1> USE DEF Existing
<1>1. ASSUME NEW r \in Request, NEW l \in Location, NEW parent \in Location \cup {NoParent},
             Move(r, l, parent)
      PROVE  TypeOK'
  <2>1. request' \in [Request -> RequestType]
    <3>1. Start(r, Idle, {l, parent})
      BY <1>1 DEF Move
    <3> QED
      BY <3>1, IdleType, StartType
  <2>2. /\ record' = [record EXCEPT ![l] = parent]
        /\ UNCHANGED <<removed, roles, accountRole>>
    BY <1>1, MoveFacts
  <2>3. DOMAIN record' = DOMAIN record /\ record' \in [DOMAIN record -> Location \cup {NoParent}]
    BY <2>2 DEF TypeOK
  <2> QED
    BY <2>1, <2>2, <2>3 DEF TypeOK
<1>2. ASSUME NEW r \in Request, NEW l \in Location, NEW parent \in Location \cup {NoParent},
             NEW creator \in User, CreateLocation(r, l, parent, creator)
      PROVE  TypeOK'
  <2> DEFINE state == [pc |-> "grant", location |-> l, parent |-> parent, creator |-> creator]
  <2>1. parent # l
    BY <1>2, AccessAssumption DEF CreateLocation, Exists, NoParent
  <2>2. state \in RequestType
    BY <2>1 DEF RequestType
  <2>3. Start(r, state, {l, parent})
    BY <1>2 DEF CreateLocation
  <2> HIDE DEF state
  <2>4. request' \in [Request -> RequestType]
    BY <2>2, <2>3, StartType
  <2>5. record' = [k \in Existing \cup {l} |-> IF k = l THEN parent ELSE record[k]]
    BY <1>2 DEF CreateLocation
  <2>6. DOMAIN record' \subseteq Location /\ record' \in [DOMAIN record' -> Location \cup {NoParent}]
    BY <2>5 DEF TypeOK
  <2> QED
    BY <1>2, <2>4, <2>6 DEF TypeOK, CreateLocation
<1>3. ASSUME NEW r \in Request, NEW u \in User, NEW granted \in Grants, UpdateAccountUserRole(r, u, granted)
      PROVE  TypeOK'
  <2>1. request' \in [Request -> RequestType]
    BY <1>3, IdleType, StartType DEF UpdateAccountUserRole
  <2>2. granted \in (SUBSET Role) \ {{}}
    BY DEF Grants, Role
  <2>3. accountRole' \in [User -> (SUBSET Role) \ {{}}] /\ accountRole'[Owner] = {"owner"}
    BY <1>3, <2>2, AccessAssumption DEF UpdateAccountUserRole, TypeOK
  <2> QED
    BY <1>3, <2>1, <2>3 DEF TypeOK, UpdateAccountUserRole
<1>4. ASSUME NEW r \in Request, NEW u \in User, NEW l \in Location, NEW granted \in Grants,
             AddLocationUserRole(r, u, l, granted)
      PROVE  TypeOK'
  <2>1. granted \in SUBSET Role
    BY DEF Grants, Role
  <2>2. [pc |-> "put", location |-> l, user |-> u, roles |-> granted] \in RequestType
    BY <2>1 DEF RequestType
  <2>3. request' \in [Request -> RequestType]
    BY <1>4, <2>2, StartType DEF AddLocationUserRole
  <2> QED
    BY <1>4, <2>3 DEF TypeOK, AddLocationUserRole
<1>5. ASSUME NEW r \in Request, NEW u \in User, NEW l \in Location, RemoveLocationUserRole(r, u, l)
      PROVE  TypeOK'
  <2>1. request' \in [Request -> RequestType]
    BY <1>5, IdleType, StartType DEF RemoveLocationUserRole
  <2> QED
    BY <1>5, <2>1 DEF TypeOK, RemoveLocationUserRole
<1>6. ASSUME NEW r \in Request, NEW u \in User, NEW l \in Location, HasAccess(r, u, l)
      PROVE  TypeOK'
  <2> DEFINE list == ByUserIdWithChildren(u)
             state == [pc |-> "walk", user |-> u, location |-> l, page |-> 1,
                       first |-> list, last |-> list, shrunk |-> FALSE, answer |-> FALSE]
  <2>1. list \subseteq Location
    BY DEF ByUserIdWithChildren, TypeOK
  <2>2. Start(r, state, {})
    BY <1>6 DEF HasAccess
  <2> HIDE DEF list
  <2>3. state \in RequestType
    BY <2>1 DEF RequestType
  <2>4. request' \in [Request -> RequestType]
    BY <2>2, <2>3, StartType
  <2> QED
    BY <1>6, <2>4 DEF TypeOK, HasAccess
<1>7. ASSUME NEW r \in Request, NEW l \in Location, RemoveLocation(r, l)
      PROVE  TypeOK'
  <2>1. [pc |-> "remove", location |-> l, todo |-> {"record", "tree", "roles"}, users |-> {}] \in RequestType
    BY DEF RequestType
  <2>2. request' \in [Request -> RequestType]
    BY <1>7, <2>1, StartType DEF RemoveLocation
  <2> QED
    BY <1>7, <2>2 DEF TypeOK, RemoveLocation
<1>8. ASSUME NEW r \in Request, GiveRoles(r)
      PROVE  TypeOK'
  <2> DEFINE q == request[r]
  <2>1. /\ q.pc = "grant" /\ q.location \in Location /\ q.parent \in Location \cup {NoParent}
        /\ q.creator \in User /\ q.parent # q.location
    BY <1>8, Fields DEF GiveRoles
  <2>2. q.parent # NoParent => [pc |-> "link", location |-> q.location, parent |-> q.parent] \in RequestType
    BY <2>1 DEF RequestType
  <2>3. \/ Become(r, Idle)
        \/ q.parent # NoParent /\ Become(r, [pc |-> "link", location |-> q.location, parent |-> q.parent])
    BY <1>8 DEF GiveRoles
  <2>4. request' \in [Request -> RequestType]
    BY <2>2, <2>3, IdleType, BecomeType
  <2>5. roles' \in [User \X Location -> SUBSET Role]
    BY <1>8, <2>1, AccessAssumption DEF GiveRoles, TypeOK, Role
  <2> QED
    BY <1>8, <2>4, <2>5 DEF TypeOK, GiveRoles
<1>9. ASSUME NEW r \in Request, Link(r)
      PROVE  TypeOK'
  <2>1. request' \in [Request -> RequestType]
    BY <1>9, LinkFacts, IdleType, BecomeType
  <2> QED
    BY <1>9, <2>1, LinkFacts DEF TypeOK
<1>10. ASSUME NEW r \in Request, PutRole(r)
       PROVE  TypeOK'
  <2>1. request' \in [Request -> RequestType]
    BY <1>10, IdleType, BecomeType DEF PutRole
  <2>2. request[r].location \in Location /\ request[r].user \in User /\ request[r].roles \in SUBSET Role
    BY <1>10, Fields DEF PutRole
  <2> QED
    BY <1>10, <2>1, <2>2 DEF TypeOK, PutRole
<1>11. ASSUME NEW r \in Request, ReadUsers(r)
       PROVE  TypeOK'
  <2> DEFINE q == request[r]
             state == [q EXCEPT !.todo = @ \ {"roles"}, !.users = UsersWithRole(q.location)]
  <2>1. q \in [pc : {"remove"}, location : Location, todo : SUBSET {"record", "tree", "roles"}, users : SUBSET User]
    BY <1>11, Fields DEF ReadUsers
  <2>2. UsersWithRole(q.location) \subseteq User
    BY DEF UsersWithRole
  <2>3. state \in RequestType
    BY <2>1, <2>2 DEF RequestType
  <2>4. request' \in [Request -> RequestType]
    BY <1>11, <2>3, DoneType DEF ReadUsers
  <2> QED
    BY <1>11, <2>4 DEF TypeOK, ReadUsers
<1>12. ASSUME NEW r \in Request, NEW u \in User, TakeRole(r, u)
       PROVE  TypeOK'
  <2> DEFINE q == request[r]
             state == [q EXCEPT !.users = @ \ {u}]
  <2>1. q \in [pc : {"remove"}, location : Location, todo : SUBSET {"record", "tree", "roles"}, users : SUBSET User]
    BY <1>12, Fields DEF TakeRole
  <2>2. state \in RequestType
    BY <2>1 DEF RequestType
  <2>3. request' \in [Request -> RequestType]
    BY <1>12, <2>2, DoneType DEF TakeRole
  <2> QED
    BY <1>12, <2>1, <2>3 DEF TypeOK, TakeRole
<1>13. ASSUME NEW r \in Request, TakeRecord(r)
       PROVE  TypeOK'
  <2> DEFINE q == request[r]
             state == [q EXCEPT !.todo = @ \ {"record"}]
  <2>1. q \in [pc : {"remove"}, location : Location, todo : SUBSET {"record", "tree", "roles"}, users : SUBSET User]
    BY <1>13, Fields DEF TakeRecord
  <2>2. state \in RequestType
    BY <2>1 DEF RequestType
  <2>3. request' \in [Request -> RequestType]
    BY <1>13, <2>2, DoneType DEF TakeRecord
  <2>4. DOMAIN record' \subseteq Location /\ record' \in [DOMAIN record' -> Location \cup {NoParent}]
    BY <1>13 DEF TypeOK, TakeRecord
  <2> QED
    BY <1>13, <2>1, <2>3, <2>4 DEF TypeOK, TakeRecord
<1>14. ASSUME NEW r \in Request, TakeRows(r)
       PROVE  TypeOK'
  <2> DEFINE q == request[r]
             state == [q EXCEPT !.todo = @ \ {"tree"}]
  <2>1. q \in [pc : {"remove"}, location : Location, todo : SUBSET {"record", "tree", "roles"}, users : SUBSET User]
    BY <1>14, Fields DEF TakeRows
  <2>2. state \in RequestType
    BY <2>1 DEF RequestType
  <2>3. request' \in [Request -> RequestType]
    BY <1>14, <2>2, DoneType DEF TakeRows
  <2> QED
    BY <1>14, <2>3 DEF TypeOK, TakeRows
<1>15. ASSUME NEW r \in Request, ReadPage(r)
       PROVE  TypeOK'
  <2> DEFINE q == request[r]
             list == ByUserIdWithChildren(q.user)
             shrunk == q.shrunk \/ ~(q.last \subseteq list)
             now == [q EXCEPT !.last = list, !.shrunk = @ \/ ~(q.last \subseteq list)]
  <2>1. q \in [pc : {"walk", "told"}, user : User, location : Location, page : Nat,
               first : SUBSET Location, last : SUBSET Location, shrunk : BOOLEAN, answer : BOOLEAN]
    BY <1>15, Fields DEF ReadPage
  <2>2. list \subseteq Location
    BY DEF ByUserIdWithChildren, TypeOK
  <2>3. now \in [pc : {"walk", "told"}, user : User, location : Location, page : Nat,
                 first : SUBSET Location, last : SUBSET Location, shrunk : BOOLEAN, answer : BOOLEAN]
    BY <2>1, <2>2
  <2>4. \/ Become(r, [now EXCEPT !.pc = "told", !.answer = TRUE])
        \/ Become(r, [now EXCEPT !.page = @ + 1])
        \/ Become(r, [now EXCEPT !.pc = "told"])
    BY <1>15 DEF ReadPage
  <2> DEFINE Walk == [pc : {"walk", "told"}, user : User, location : Location, page : Nat,
                      first : SUBSET Location, last : SUBSET Location, shrunk : BOOLEAN, answer : BOOLEAN]
  <2> HIDE DEF now
  <2>5. /\ [now EXCEPT !.pc = "told", !.answer = TRUE] \in RequestType
        /\ [now EXCEPT !.page = @ + 1] \in RequestType
        /\ [now EXCEPT !.pc = "told"] \in RequestType
    <3>1. [now EXCEPT !.pc = "told", !.answer = TRUE] \in Walk
      BY <2>3
    <3>2. [now EXCEPT !.page = @ + 1] \in Walk
      BY <2>3
    <3>3. [now EXCEPT !.pc = "told"] \in Walk
      BY <2>3
    <3>4. Walk \subseteq RequestType
      BY DEF RequestType
    <3> QED
      BY <3>1, <3>2, <3>3, <3>4
  <2>6. request' \in [Request -> RequestType]
    BY <2>4, <2>5, BecomeType
  <2> QED
    BY <1>15, <2>6 DEF TypeOK, ReadPage
<1>16. ASSUME NEW r \in Request, Forget(r)
       PROVE  TypeOK'
  <2>1. request' \in [Request -> RequestType]
    BY <1>16, IdleType, BecomeType DEF Forget
  <2> QED
    BY <1>16, <2>1 DEF TypeOK, Forget
<1>17. CASE UNCHANGED vars
  BY <1>17 DEF vars, TypeOK
<1> QED
  BY <1>1, <1>2, <1>3, <1>4, <1>5, <1>6, <1>7, <1>8, <1>9, <1>10, <1>11, <1>12, <1>13, <1>14, <1>15,
     <1>16, <1>17 DEF Next

-----------------------------------------------------------------------------
(* The state that a request goes on to.                                    *)

LEMMA IdleUses == Uses(Idle) = {} /\ Idle.pc = "idle"
  BY DEF Uses, Idle

LEMMA UsesOf ==
    ASSUME NEW q
    PROVE  /\ q.pc \in {"grant", "link"} => Uses(q) = {q.location, q.parent}
           /\ q.pc \in {"put", "remove"} => Uses(q) = {q.location}
           /\ q.pc \notin {"grant", "link", "put", "remove"} => Uses(q) = {}
  BY DEF Uses

LEMMA ReadPageGoes ==
    ASSUME TypeOK, NEW r \in Request, ReadPage(r)
    PROVE  /\ request[r].pc = "walk"
           /\ \E state : Become(r, state) /\ state.pc \in {"walk", "told"}
<1> DEFINE q == request[r]
           list == ByUserIdWithChildren(q.user)
           now == [q EXCEPT !.last = list, !.shrunk = @ \/ ~(q.last \subseteq list)]
           Walk == [pc : {"walk", "told"}, user : User, location : Location, page : Nat,
                    first : SUBSET Location, last : SUBSET Location, shrunk : BOOLEAN, answer : BOOLEAN]
<1>1. \/ Become(r, [now EXCEPT !.pc = "told", !.answer = TRUE])
      \/ Become(r, [now EXCEPT !.page = @ + 1])
      \/ Become(r, [now EXCEPT !.pc = "told"])
  BY DEF ReadPage
<1>2. q.pc = "walk"
  BY DEF ReadPage
<1>3. q \in Walk
  BY <1>2, Fields
<1>4. list \subseteq Location
  BY DEF ByUserIdWithChildren, TypeOK
<1>5. now \in Walk
  BY <1>3, <1>4
<1> HIDE DEF now
<1>6. /\ [now EXCEPT !.pc = "told", !.answer = TRUE].pc = "told"
      /\ [now EXCEPT !.page = @ + 1].pc = now.pc
      /\ [now EXCEPT !.pc = "told"].pc = "told"
      /\ now.pc \in {"walk", "told"}
  BY <1>5
<1> QED
  BY <1>1, <1>2, <1>6

(* A removal goes on with what is left to do, or ends.                     *)
Removing(r, todo, users) ==
    /\ request[r].pc = "remove"
    /\ UNCHANGED overlapped
    /\ \E next : /\ Done(r, next)
                 /\ next.pc = "remove" /\ next.location = request[r].location
                 /\ next.todo = todo /\ next.users = users

LEMMA RemovalGoes ==
    ASSUME TypeOK, NEW r \in Request
    PROVE  /\ ReadUsers(r) => Removing(r, request[r].todo \ {"roles"}, UsersWithRole(request[r].location))
           /\ \A u \in User : TakeRole(r, u) => Removing(r, request[r].todo, request[r].users \ {u})
           /\ TakeRecord(r) => Removing(r, request[r].todo \ {"record"}, request[r].users)
           /\ TakeRows(r) => Removing(r, request[r].todo \ {"tree"}, request[r].users)
<1> DEFINE q == request[r]
<1>0. q.pc = "remove" =>
          q \in [pc : {"remove"}, location : Location, todo : SUBSET {"record", "tree", "roles"}, users : SUBSET User]
  BY Fields
<1>1. ASSUME ReadUsers(r)
      PROVE  Removing(r, q.todo \ {"roles"}, UsersWithRole(q.location))
  <2> DEFINE next == [q EXCEPT !.todo = @ \ {"roles"}, !.users = UsersWithRole(q.location)]
  <2>1. q.pc = "remove" /\ Done(r, next) /\ UNCHANGED overlapped
    BY <1>1 DEF ReadUsers
  <2>2. /\ next.pc = "remove" /\ next.location = q.location
        /\ next.todo = q.todo \ {"roles"} /\ next.users = UsersWithRole(q.location)
    BY <1>0, <2>1
  <2> HIDE DEF next
  <2> QED
    BY <2>1, <2>2 DEF Removing
<1>2. ASSUME NEW u \in User, TakeRole(r, u)
      PROVE  Removing(r, q.todo, q.users \ {u})
  <2> DEFINE next == [q EXCEPT !.users = @ \ {u}]
  <2>1. q.pc = "remove" /\ Done(r, next) /\ UNCHANGED overlapped
    BY <1>2 DEF TakeRole
  <2>2. /\ next.pc = "remove" /\ next.location = q.location
        /\ next.todo = q.todo /\ next.users = q.users \ {u}
    BY <1>0, <2>1
  <2> HIDE DEF next
  <2> QED
    BY <2>1, <2>2 DEF Removing
<1>3. ASSUME TakeRecord(r)
      PROVE  Removing(r, q.todo \ {"record"}, q.users)
  <2> DEFINE next == [q EXCEPT !.todo = @ \ {"record"}]
  <2>1. q.pc = "remove" /\ Done(r, next) /\ UNCHANGED overlapped
    BY <1>3 DEF TakeRecord
  <2>2. /\ next.pc = "remove" /\ next.location = q.location
        /\ next.todo = q.todo \ {"record"} /\ next.users = q.users
    BY <1>0, <2>1
  <2> HIDE DEF next
  <2> QED
    BY <2>1, <2>2 DEF Removing
<1>4. ASSUME TakeRows(r)
      PROVE  Removing(r, q.todo \ {"tree"}, q.users)
  <2> DEFINE next == [q EXCEPT !.todo = @ \ {"tree"}]
  <2>1. q.pc = "remove" /\ Done(r, next) /\ UNCHANGED overlapped
    BY <1>4 DEF TakeRows
  <2>2. /\ next.pc = "remove" /\ next.location = q.location
        /\ next.todo = q.todo \ {"tree"} /\ next.users = q.users
    BY <1>0, <2>1
  <2> HIDE DEF next
  <2> QED
    BY <2>1, <2>2 DEF Removing
<1> QED
  BY <1>1, <1>2, <1>3, <1>4

-----------------------------------------------------------------------------
(* hasAccess: what the pages read so far left out lies before the page     *)
(* that is read next, as long as nothing left the list.                    *)

WalkOK(q) ==
    /\ q.pc = "walk" => q.page # 0
    /\ q.pc = "walk" /\ ~q.shrunk =>
          /\ q.first \subseteq q.last
          /\ q.location \in q.first => Before(q.last, q.location) >= PageSize * (q.page - 1)
    /\ q.pc = "told" /\ ~q.answer /\ ~q.shrunk => q.location \notin q.first

Walks == \A r \in Request : WalkOK(request[r])

LEMMA OneWalk ==
    ASSUME TypeOK, Walks, NEW r \in Request, NEW state, Become(r, state), WalkOK(state)
    PROVE  Walks'
<1>1. request'[r] = state /\ \A s \in Request : s # r => request'[s] = request[s]
  BY DEF TypeOK, Become
<1>2. \A s \in Request : WalkOK(request'[s])
  BY <1>1 DEF Walks
<1> QED
  BY <1>2 DEF Walks, WalkOK, Before

LEMMA NotWalking == ASSUME NEW q, q.pc \notin {"walk", "told"} PROVE WalkOK(q)
  BY DEF WalkOK

LEMMA IdleIsNotWalking == WalkOK(Idle)
  BY DEF WalkOK, Idle

LEMMA ReadPageWalks ==
    ASSUME TypeOK, Walks, NEW r \in Request, ReadPage(r)
    PROVE  Walks'
<1> DEFINE q == request[r]
           list == ByUserIdWithChildren(q.user)
           page == Page(list, q.page)
           now == [q EXCEPT !.last = list, !.shrunk = @ \/ ~(q.last \subseteq list)]
           found == [now EXCEPT !.pc = "told", !.answer = TRUE]
           next == [now EXCEPT !.page = @ + 1]
           given == [now EXCEPT !.pc = "told"]
<1>1. /\ q.pc = "walk"
      /\ \/ Become(r, found)
         \/ /\ Become(r, next)
            /\ q.location \notin page.items
         \/ /\ Become(r, given)
            /\ q.location \notin page.items
            /\ ~((q.page - 1) * PageSize + Cardinality(page.items) < page.total)
  BY DEF ReadPage
<1>2. q \in [pc : {"walk", "told"}, user : User, location : Location, page : Nat,
             first : SUBSET Location, last : SUBSET Location, shrunk : BOOLEAN, answer : BOOLEAN]
  BY <1>1, Fields
<1>3. list \in SUBSET Location
  BY DEF ByUserIdWithChildren, TypeOK
<1>4. WalkOK(q) /\ q.page # 0
  BY <1>1 DEF Walks, WalkOK
<1>5. /\ found.pc = "told" /\ found.answer = TRUE
      /\ next.pc = "walk" /\ next.page = q.page + 1 /\ next.first = q.first /\ next.last = list
      /\ next.location = q.location
      /\ given.pc = "told" /\ given.first = q.first /\ given.location = q.location
  BY <1>1, <1>2
<1>6. /\ next.shrunk <=> q.shrunk \/ ~(q.last \subseteq list)
      /\ given.shrunk <=> q.shrunk \/ ~(q.last \subseteq list)
  BY <1>2
<1>7. q.first \in SUBSET Location /\ q.last \in SUBSET Location /\ q.page \in Nat /\ q.location \in Location
  BY <1>2
<1> HIDE DEF found, next, given, list, page, q
<1>8. ASSUME ~q.shrunk, q.last \subseteq list, q.location \in q.first
      PROVE  q.location \in list /\ Before(list, q.location) >= PageSize * (q.page - 1)
  <2>1. q.first \subseteq q.last /\ Before(q.last, q.location) >= PageSize * (q.page - 1)
    BY <1>1, <1>4, <1>8 DEF WalkOK
  <2>2. Before(q.last, q.location) <= Before(list, q.location)
    BY <1>3, <1>7, <1>8, RankOfLonger
  <2>3. Before(list, q.location) \in Nat /\ Before(q.last, q.location) \in Nat
    BY <1>3, <1>7, RankType
  <2> DEFINE n == PageSize * (q.page - 1)
  <2>4. n \in Int
    BY <1>7, AccessAssumption
  <2> HIDE DEF n
  <2>5. Before(list, q.location) >= n
    BY <2>1, <2>2, <2>3, <2>4 DEF n
  <2> QED
    BY <1>8, <2>1, <2>5 DEF n
<1>9. ASSUME ~q.shrunk, q.last \subseteq list, q.location \in q.first, q.location \notin page.items
      PROVE  /\ (q.page - 1) * PageSize + Cardinality(page.items) < page.total
             /\ Before(list, q.location) >= PageSize * ((q.page + 1) - 1)
  BY <1>3, <1>4, <1>7, <1>8, <1>9, PageSays DEF page
<1>10. WalkOK(found)
  BY <1>5 DEF WalkOK
<1>11. ASSUME q.location \notin page.items
       PROVE  WalkOK(next)
  <2>1. next.page # 0
    BY <1>5, <1>7
  <2>2. ASSUME ~next.shrunk
        PROVE  /\ next.first \subseteq next.last
               /\ next.location \in next.first => Before(next.last, next.location) >= PageSize * (next.page - 1)
    <3>1. ~q.shrunk /\ q.last \subseteq list
      BY <1>6, <2>2
    <3>2. q.first \subseteq q.last
      BY <1>1, <1>4, <3>1 DEF WalkOK
    <3> QED
      BY <1>5, <1>9, <1>11, <3>1, <3>2
  <2> QED
    BY <1>5, <2>1, <2>2 DEF WalkOK
<1>12. ASSUME q.location \notin page.items, ~((q.page - 1) * PageSize + Cardinality(page.items) < page.total)
       PROVE  WalkOK(given)
  BY <1>5, <1>6, <1>9, <1>12 DEF WalkOK
<1> QED
  BY <1>1, <1>10, <1>11, <1>12, OneWalk

LEMMA NextWalks == TypeOK /\ Walks /\ [Next]_vars => Walks'
<1> SUFFICES ASSUME TypeOK, Walks, [Next]_vars PROVE Walks'
  OBVIOUS
<1>1. ASSUME NEW r \in Request, NEW state, Become(r, state), state.pc \notin {"walk", "told"}
      PROVE  Walks'
  BY <1>1, OneWalk, NotWalking
<1>2. ASSUME NEW r \in Request, Become(r, Idle)
      PROVE  Walks'
  BY <1>2, OneWalk, IdleIsNotWalking
<1>3. ASSUME NEW r \in Request, NEW next, next.pc = "remove", Done(r, next)
      PROVE  Walks'
  BY <1>1, <1>2, <1>3 DEF Done
<1>4. ASSUME NEW r \in Request, NEW l \in Location, NEW parent \in Location \cup {NoParent},
             NEW creator \in User, CreateLocation(r, l, parent, creator)
      PROVE  Walks'
  <2> DEFINE state == [pc |-> "grant", location |-> l, parent |-> parent, creator |-> creator]
  <2>1. Become(r, state) /\ state.pc = "grant"
    BY <1>4 DEF CreateLocation, Start
  <2> HIDE DEF state
  <2> QED
    BY <1>1, <2>1
<1>5. ASSUME NEW r \in Request, NEW l \in Location, NEW parent \in Location \cup {NoParent}, Move(r, l, parent)
      PROVE  Walks'
  BY <1>2, <1>5 DEF Move, Start
<1>6. ASSUME NEW r \in Request, NEW u \in User, NEW granted \in Grants, UpdateAccountUserRole(r, u, granted)
      PROVE  Walks'
  BY <1>2, <1>6 DEF UpdateAccountUserRole, Start
<1>7. ASSUME NEW r \in Request, NEW u \in User, NEW l \in Location, NEW granted \in Grants,
             AddLocationUserRole(r, u, l, granted)
      PROVE  Walks'
  <2> DEFINE state == [pc |-> "put", location |-> l, user |-> u, roles |-> granted]
  <2>1. Become(r, state) /\ state.pc = "put"
    BY <1>7 DEF AddLocationUserRole, Start
  <2> HIDE DEF state
  <2> QED
    BY <1>1, <2>1
<1>8. ASSUME NEW r \in Request, NEW u \in User, NEW l \in Location, RemoveLocationUserRole(r, u, l)
      PROVE  Walks'
  BY <1>2, <1>8 DEF RemoveLocationUserRole, Start
<1>9. ASSUME NEW r \in Request, NEW u \in User, NEW l \in Location, HasAccess(r, u, l)
      PROVE  Walks'
  <2> DEFINE list == ByUserIdWithChildren(u)
             state == [pc |-> "walk", user |-> u, location |-> l, page |-> 1,
                       first |-> list, last |-> list, shrunk |-> FALSE, answer |-> FALSE]
  <2>1. Become(r, state)
    BY <1>9 DEF HasAccess, Start
  <2>2. Before(list, l) \in Nat
    BY RankType DEF ByUserIdWithChildren, TypeOK
  <2>3. PageSize * (1 - 1) = 0
    BY AccessAssumption
  <2> HIDE DEF list
  <2>4. /\ state.pc = "walk" /\ state.page = 1 /\ state.first = list /\ state.last = list /\ state.location = l
    OBVIOUS
  <2> HIDE DEF state
  <2>5. WalkOK(state)
    BY <2>2, <2>3, <2>4 DEF WalkOK
  <2> QED
    BY <2>1, <2>5, OneWalk
<1>10. ASSUME NEW r \in Request, NEW l \in Location, RemoveLocation(r, l)
       PROVE  Walks'
  <2> DEFINE state == [pc |-> "remove", location |-> l, todo |-> {"record", "tree", "roles"}, users |-> {}]
  <2>1. Become(r, state) /\ state.pc = "remove"
    BY <1>10 DEF RemoveLocation, Start
  <2> HIDE DEF state
  <2> QED
    BY <1>1, <2>1
<1>11. ASSUME NEW r \in Request, GiveRoles(r)
       PROVE  Walks'
  <2> DEFINE state == [pc |-> "link", location |-> request[r].location, parent |-> request[r].parent]
  <2>1. Become(r, Idle) \/ Become(r, state)
    BY <1>11 DEF GiveRoles
  <2>2. state.pc = "link"
    OBVIOUS
  <2> HIDE DEF state
  <2> QED
    BY <1>1, <1>2, <2>1, <2>2
<1>12. ASSUME NEW r \in Request, Link(r) \/ PutRole(r) \/ Forget(r)
       PROVE  Walks'
  BY <1>2, <1>12 DEF Link, PutRole, Forget
<1>13. ASSUME NEW r \in Request, NEW u \in User, ReadUsers(r) \/ TakeRole(r, u) \/ TakeRecord(r) \/ TakeRows(r)
       PROVE  Walks'
  <2>1. \E todo, users : Removing(r, todo, users)
    BY <1>13, RemovalGoes
  <2> QED
    BY <1>3, <2>1 DEF Removing
<1>14. CASE UNCHANGED vars
  BY <1>14 DEF vars, Walks, WalkOK, Before
<1> QED
  BY <1>4, <1>5, <1>6, <1>7, <1>8, <1>9, <1>10, <1>11, <1>12, <1>13, <1>14, ReadPageWalks,
     AccessAssumption DEF Next

-----------------------------------------------------------------------------
(* What requests rely on while they run.                                   *)

(* A request names locations that exist or existed.                        *)
UsesKnown == \A r \in Request : Uses(request[r]) \subseteq Existing \cup removed \cup {NoParent}

(* A location that two requests use was noted in the history.              *)
OneUser ==
    \A r, s \in Request : r # s => Uses(request[r]) \cap Uses(request[s]) \subseteq overlapped

RolesKnown == \A u \in User, l \in Location : roles[<<u, l>>] # {} => l \in Existing \cup removed

(* What a request that uses its locations alone still finds: where it      *)
(* writes there are locations; a removal has left the record until it took *)
(* it, and knows every user of the location once it has read them.         *)
Holds(q) ==
    /\ q.pc \in {"grant", "link", "put"} =>
          \A l \in (Uses(q) \cap Location) \ overlapped : Exists(l)
    /\ q.pc = "remove" /\ q.location \notin overlapped =>
          /\ "record" \in q.todo <=> Exists(q.location)
          /\ "roles" \notin q.todo => UsersWithRole(q.location) \subseteq q.users

(* No roles are left where nobody is at work any more.                     *)
GoneAreClean == \A l \in removed \ (overlapped \cup AtWork) : UsersWithRole(l) = {}

Bookkeeping ==
    /\ Existing \cap removed = {}
    /\ UsesKnown
    /\ OneUser
    /\ RolesKnown
    /\ \A r \in Request : Holds(request[r])
    /\ GoneAreClean

(* A step of r that touches no location outside W.                         *)
OnlyRequest(r, W) ==
    /\ \A s \in Request : s # r => request'[s] = request[s]
    /\ overlapped \subseteq overlapped'
    /\ Uses(request[r]) \subseteq W /\ Uses(request'[r]) \subseteq W
    /\ \A s \in Request : s # r => W \cap Uses(request[s]) \subseteq overlapped'

Elsewhere(W) ==
    \A l \in Location : l \notin W =>
        /\ Exists(l)' <=> Exists(l)
        /\ l \in removed' <=> l \in removed
        /\ \A u \in User : roles'[<<u, l>>] = roles[<<u, l>>]

LEMMA StartAlone ==
    ASSUME TypeOK, NEW r \in Request, NEW state, NEW W, Start(r, state, W), Uses(state) \subseteq W
    PROVE  OnlyRequest(r, W) /\ request'[r] = state /\ request[r].pc = "idle"
<1>1. request[r].pc = "idle" /\ request' = [request EXCEPT ![r] = state]
  BY DEF Start, Become
<1>2. request'[r] = state /\ \A s \in Request : s # r => request'[s] = request[s]
  BY <1>1 DEF TypeOK
<1>3. overlapped' = overlapped \cup UNION {W \cap Uses(request[s]) : s \in Request}
  BY DEF Start
<1>4. Uses(request[r]) = {}
  BY <1>1, UsesOf
<1>5. \A s \in Request : W \cap Uses(request[s]) \subseteq overlapped'
  BY <1>3
<1> QED
  BY <1>1, <1>2, <1>3, <1>4, <1>5 DEF OnlyRequest

LEMMA GoesAlone ==
    ASSUME TypeOK, OneUser, NEW r \in Request, NEW state, Become(r, state),
           Uses(state) \subseteq Uses(request[r]), UNCHANGED overlapped
    PROVE  OnlyRequest(r, Uses(request[r])) /\ request'[r] = state
<1>1. request'[r] = state /\ \A s \in Request : s # r => request'[s] = request[s]
  BY DEF TypeOK, Become
<1> QED
  BY <1>1 DEF OnlyRequest, OneUser

(* A step that leaves what it touches in order leaves everything in order. *)
LEMMA BooksKept ==
    ASSUME TypeOK, Bookkeeping, NEW r \in Request, NEW W, OnlyRequest(r, W), Elsewhere(W),
           Existing \cup removed \subseteq (Existing \cup removed)',
           (Existing \cap removed)' = {}, (TypeOK)',
           W \subseteq (Existing \cup removed)' \cup {NoParent},
           Holds(request[r])',
           \A l \in W : l \in removed' => \/ l \in overlapped' \cup Uses(request'[r])
                                          \/ UsersWithRole(l)' = {}
    PROVE  Bookkeeping'
<1>1. \A s \in Request : s # r => /\ request'[s] = request[s]
                                  /\ \A l \in Uses(request[s]) : l \in overlapped' \/ l \notin W
  BY DEF OnlyRequest
<1>2. UsesKnown'
  <2> SUFFICES ASSUME NEW s \in Request
               PROVE  Uses(request'[s]) \subseteq (Existing \cup removed)' \cup {NoParent}
    BY DEF UsesKnown
  <2>1. CASE s = r
    BY <2>1 DEF OnlyRequest
  <2>2. CASE s # r
    BY <1>1, <2>2 DEF Bookkeeping, UsesKnown
  <2> QED
    BY <2>1, <2>2
<1>3. OneUser'
  <2> SUFFICES ASSUME NEW s \in Request, NEW t \in Request, s # t
               PROVE  Uses(request'[s]) \cap Uses(request'[t]) \subseteq overlapped'
    BY DEF OneUser
  <2>1. CASE s # r /\ t # r
    BY <1>1, <2>1 DEF Bookkeeping, OneUser, OnlyRequest
  <2>2. CASE s = r \/ t = r
    BY <1>1, <2>2 DEF OnlyRequest
  <2> QED
    BY <2>1, <2>2
<1>4. RolesKnown'
  <2> SUFFICES ASSUME NEW u \in User, NEW l \in Location, roles'[<<u, l>>] # {}
               PROVE  l \in (Existing \cup removed)'
    BY DEF RolesKnown
  <2>1. CASE l \in W
    BY <2>1, AccessAssumption DEF NoParent
  <2>2. CASE l \notin W
    BY <2>2 DEF Elsewhere, Bookkeeping, RolesKnown
  <2> QED
    BY <2>1, <2>2
<1>5. \A s \in Request : Holds(request[s])'
  <2> SUFFICES ASSUME NEW s \in Request, s # r
               PROVE  Holds(request[s])'
    OBVIOUS
  <2>1. \A l \in Location \cap Uses(request[s]) : l \notin overlapped' =>
            /\ l \notin overlapped
            /\ Exists(l)' <=> Exists(l)
            /\ UsersWithRole(l)' = UsersWithRole(l)
    BY <1>1 DEF Elsewhere, OnlyRequest, UsersWithRole
  <2>2. Holds(request[s]) /\ request'[s] = request[s]
    BY <1>1 DEF Bookkeeping
  <2>3. CASE request[s].pc \in {"grant", "link", "put"}
    <3>1. \A l \in (Uses(request[s]) \cap Location) \ overlapped' : Exists(l)'
      BY <2>1, <2>2, <2>3 DEF Holds
    <3> QED
      BY <2>2, <2>3, <3>1 DEF Holds
  <2>4. CASE request[s].pc = "remove"
    <3>1. request[s].location \in Location \cap Uses(request[s])
      BY <2>4, Fields, UsesOf
    <3> QED
      BY <2>1, <2>2, <2>4, <3>1 DEF Holds
  <2>5. CASE request[s].pc \notin {"grant", "link", "put", "remove"}
    BY <2>2, <2>5 DEF Holds
  <2> QED
    BY <2>3, <2>4, <2>5
<1>6. GoneAreClean'
  <2> SUFFICES ASSUME NEW l \in removed', l \notin overlapped', l \notin AtWork'
               PROVE  UsersWithRole(l)' = {}
    BY DEF GoneAreClean
  <2>1. l \in Location /\ \A s \in Request : l \notin Uses(request'[s])
    BY DEF AtWork, TypeOK
  <2>2. CASE l \in W
    BY <2>1, <2>2
  <2>3. CASE l \notin W
    <3>1. l \in removed /\ l \notin overlapped /\ UsersWithRole(l)' = UsersWithRole(l)
      BY <2>1, <2>3 DEF Elsewhere, OnlyRequest, UsersWithRole
    <3>2. \A s \in Request : l \notin Uses(request[s])
      BY <1>1, <2>1, <2>3 DEF OnlyRequest
    <3> QED
      BY <3>1, <3>2 DEF Bookkeeping, GoneAreClean, AtWork
  <2> QED
    BY <2>2, <2>3
<1> QED
  BY <1>2, <1>3, <1>4, <1>5, <1>6 DEF Bookkeeping

(* One of the three parts of a removal took a step.                        *)
LEMMA RemovalAlone ==
    ASSUME TypeOK, OneUser, NEW r \in Request, NEW todo, NEW users, Removing(r, todo, users)
    PROVE  /\ OnlyRequest(r, {request[r].location})
           /\ \/ request'[r] = Idle /\ todo = {} /\ users = {}
              \/ /\ request'[r].pc = "remove" /\ request'[r].location = request[r].location
                 /\ request'[r].todo = todo /\ request'[r].users = users
<1>1. PICK next : /\ Done(r, next)
                  /\ next.pc = "remove" /\ next.location = request[r].location
                  /\ next.todo = todo /\ next.users = users
  BY DEF Removing
<1>2. request[r].pc = "remove" /\ UNCHANGED overlapped
  BY DEF Removing
<1>3. Uses(request[r]) = {request[r].location} /\ Uses(next) = {request[r].location}
  BY <1>1, <1>2, UsesOf
<1>4. CASE todo = {} /\ users = {}
  <2>1. Become(r, Idle) /\ Uses(Idle) \subseteq Uses(request[r])
    BY <1>1, <1>4, IdleUses DEF Done
  <2>2. OnlyRequest(r, Uses(request[r])) /\ request'[r] = Idle
    BY <1>2, <2>1, GoesAlone
  <2> QED
    BY <1>3, <1>4, <2>2
<1>5. CASE ~(todo = {} /\ users = {})
  <2>1. Become(r, next) /\ Uses(next) \subseteq Uses(request[r])
    BY <1>1, <1>3, <1>5 DEF Done
  <2>2. OnlyRequest(r, Uses(request[r])) /\ request'[r] = next
    BY <1>2, <2>1, GoesAlone
  <2> QED
    BY <1>1, <1>3, <2>2
<1> QED
  BY <1>4, <1>5

LEMMA RemovalBooks ==
    ASSUME TypeOK, Bookkeeping, (TypeOK)', NEW r \in Request, NEW todo, NEW users, NEW l,
           Removing(r, todo, users), l = request[r].location, Elsewhere({l}),
           Existing \cup removed \subseteq (Existing \cup removed)',
           (Existing \cap removed)' = {},
           l \notin overlapped =>
               /\ "record" \in todo <=> l \in Existing'
               /\ "roles" \notin todo => \A u \in User : roles'[<<u, l>>] # {} => u \in users
    PROVE  Bookkeeping'
<1>1. request[r].pc = "remove" /\ UNCHANGED overlapped
  BY DEF Removing
<1>2. l \in Location /\ Uses(request[r]) = {l}
  BY <1>1, Fields, UsesOf
<1>3. /\ OnlyRequest(r, {l})
      /\ \/ request'[r] = Idle /\ todo = {} /\ users = {}
         \/ /\ request'[r].pc = "remove" /\ request'[r].location = l
            /\ request'[r].todo = todo /\ request'[r].users = users
  BY RemovalAlone DEF Bookkeeping
<1>4. {l} \subseteq (Existing \cup removed)' \cup {NoParent}
  BY <1>2 DEF Bookkeeping, UsesKnown
<1>5. CASE request'[r] = Idle /\ todo = {} /\ users = {}
  <2>1. Holds(request[r])'
    BY <1>5 DEF Holds, Idle
  <2>2. \A k \in {l} : k \in overlapped' \/ UsersWithRole(k)' = {}
    BY <1>1, <1>5 DEF UsersWithRole
  <2> QED
    BY <1>3, <1>4, <2>1, <2>2, BooksKept
<1>6. CASE /\ request'[r].pc = "remove" /\ request'[r].location = l
           /\ request'[r].todo = todo /\ request'[r].users = users
  <2>1. Holds(request[r])'
    BY <1>1, <1>6 DEF Holds, Exists, UsersWithRole
  <2>2. \A k \in {l} : k \in Uses(request'[r])
    BY <1>6, UsesOf
  <2> QED
    BY <1>3, <1>4, <2>1, <2>2, BooksKept
<1> QED
  BY <1>3, <1>5, <1>6

LEMMA NextBooks == TypeOK /\ Bookkeeping /\ [Next]_vars => Bookkeeping'
<1> SUFFICES ASSUME TypeOK, Bookkeeping, [Next]_vars PROVE Bookkeeping'
  OBVIOUS
<1>0. /\ TypeOK'
      /\ OneUser
      /\ \A l : Exists(l) => l \notin removed /\ l # NoParent
      /\ \A l : Exists(l) <=> l \in Existing
  BY NextType, AccessAssumption DEF Bookkeeping, Exists, TypeOK, NoParent
<1>1. ASSUME NEW r \in Request, NEW l \in Location, NEW parent \in Location \cup {NoParent},
             Move(r, l, parent)
      PROVE  Bookkeeping'
  <2>1. /\ Start(r, Idle, {l, parent})
        /\ UNCHANGED <<removed, roles, accountRole>>
        /\ Existing' = Existing /\ {l, parent} \subseteq Existing \cup {NoParent}
    BY <1>1, MoveFacts
  <2>2. OnlyRequest(r, {l, parent}) /\ request'[r] = Idle
    BY <2>1, StartAlone, IdleUses
  <2>3. Elsewhere({l, parent}) /\ (Existing \cap removed)' = {}
    BY <2>1 DEF Elsewhere, Exists, Bookkeeping
  <2>4. Holds(request[r])'
    BY <2>2 DEF Holds, Idle
  <2>5. \A k \in {l, parent} : k \notin removed'
    BY <2>1, <1>0, AccessAssumption DEF TypeOK, NoParent, Bookkeeping
  <2> QED
    BY <1>0, <2>1, <2>2, <2>3, <2>4, <2>5, BooksKept
<1>2. ASSUME NEW r \in Request, NEW l \in Location, NEW parent \in Location \cup {NoParent},
             NEW creator \in User, CreateLocation(r, l, parent, creator)
      PROVE  Bookkeeping'
  <2> DEFINE state == [pc |-> "grant", location |-> l, parent |-> parent, creator |-> creator]
  <2>1. /\ Start(r, state, {l, parent})
        /\ UNCHANGED <<removed, roles>>
        /\ Existing' = Existing \cup {l}
        /\ l \notin removed /\ {l, parent} \subseteq Existing' \cup {NoParent}
    BY <1>2 DEF CreateLocation, Exists, Existing
  <2>2. state.pc = "grant" /\ state.location = l /\ state.parent = parent
    OBVIOUS
  <2> HIDE DEF state
  <2>3. OnlyRequest(r, {l, parent}) /\ request'[r] = state /\ Uses(state) = {l, parent}
    BY <2>1, <2>2, StartAlone, UsesOf
  <2>4. Elsewhere({l, parent}) /\ (Existing \cap removed)' = {}
    BY <2>1 DEF Elsewhere, Exists, Bookkeeping
  <2>5. \A k \in {l, parent} \cap Location : Exists(k)'
    BY <2>1, AccessAssumption DEF Exists, NoParent
  <2>6. Holds(request[r])'
    BY <2>2, <2>3, <2>5 DEF Holds
  <2>7. \A k \in {l, parent} : k \in removed' => k \in Uses(request'[r])
    BY <2>3
  <2> QED
    BY <1>0, <2>1, <2>3, <2>4, <2>6, <2>7, BooksKept
<1>3. ASSUME NEW r \in Request,
             \/ \E u \in User, granted \in Grants : UpdateAccountUserRole(r, u, granted)
             \/ \E u \in User, l \in Location : HasAccess(r, u, l)
             \/ ReadPage(r) \/ Forget(r)
      PROVE  Bookkeeping'
  <2>1. UNCHANGED <<record, removed, roles>>
    BY <1>3 DEF UpdateAccountUserRole, HasAccess, ReadPage, Forget
  <2>2. OnlyRequest(r, {}) /\ request'[r].pc \in {"idle", "walk", "told"}
    <3>1. CASE \E u \in User, granted \in Grants : UpdateAccountUserRole(r, u, granted)
      BY <3>1, StartAlone, IdleUses DEF UpdateAccountUserRole
    <3>2. CASE \E u \in User, l \in Location : HasAccess(r, u, l)
      <4> PICK u \in User, l \in Location : HasAccess(r, u, l)
        BY <3>2
      <4> DEFINE state == [pc |-> "walk", user |-> u, location |-> l, page |-> 1,
                           first |-> ByUserIdWithChildren(u), last |-> ByUserIdWithChildren(u),
                           shrunk |-> FALSE, answer |-> FALSE]
      <4>1. Start(r, state, {}) /\ state.pc = "walk"
        BY DEF HasAccess
      <4> HIDE DEF state
      <4> QED
        BY <4>1, StartAlone, UsesOf
    <3>3. CASE ReadPage(r)
      <4> PICK state : Become(r, state) /\ state.pc \in {"walk", "told"}
        BY <3>3, ReadPageGoes
      <4>1. UNCHANGED overlapped /\ request[r].pc = "walk"
        BY <3>3 DEF ReadPage
      <4> QED
        BY <1>0, <4>1, GoesAlone, UsesOf
    <3>4. CASE Forget(r)
      <4>1. UNCHANGED overlapped /\ request[r].pc = "told" /\ Become(r, Idle)
        BY <3>4 DEF Forget
      <4> QED
        BY <1>0, <4>1, GoesAlone, IdleUses, UsesOf
    <3> QED
      BY <1>3, <3>1, <3>2, <3>3, <3>4
  <2>3. Elsewhere({}) /\ (Existing \cap removed)' = {} /\ UNCHANGED Existing
    BY <2>1 DEF Elsewhere, Exists, Existing, Bookkeeping
  <2>4. Holds(request[r])'
    BY <2>2 DEF Holds
  <2> QED
    BY <1>0, <2>1, <2>2, <2>3, <2>4, BooksKept
<1>4. ASSUME NEW r \in Request, NEW u \in User, NEW l \in Location, NEW granted \in Grants,
             AddLocationUserRole(r, u, l, granted)
      PROVE  Bookkeeping'
  <2> DEFINE state == [pc |-> "put", location |-> l, user |-> u, roles |-> granted]
  <2>1. Start(r, state, {l}) /\ UNCHANGED <<record, removed, roles>> /\ Exists(l)
    BY <1>4 DEF AddLocationUserRole
  <2>2. state.pc = "put" /\ state.location = l
    OBVIOUS
  <2> HIDE DEF state
  <2>3. OnlyRequest(r, {l}) /\ request'[r] = state /\ Uses(state) = {l}
    BY <2>1, <2>2, StartAlone, UsesOf
  <2>4. Elsewhere({l}) /\ (Existing \cap removed)' = {} /\ UNCHANGED Existing /\ Exists(l)'
    BY <2>1 DEF Elsewhere, Exists, Existing, Bookkeeping
  <2>5. Holds(request[r])'
    BY <2>2, <2>3, <2>4 DEF Holds
  <2> QED
    BY <1>0, <2>1, <2>3, <2>4, <2>5, BooksKept
<1>5. ASSUME NEW r \in Request, NEW u \in User, NEW l \in Location, RemoveLocationUserRole(r, u, l)
      PROVE  Bookkeeping'
  <2>1. /\ Start(r, Idle, {l}) /\ UNCHANGED <<record, removed>> /\ roles[<<u, l>>] # {}
        /\ roles' = [roles EXCEPT ![<<u, l>>] = {}]
    BY <1>5 DEF RemoveLocationUserRole
  <2>2. OnlyRequest(r, {l}) /\ request'[r] = Idle /\ request[r].pc = "idle"
    BY <2>1, StartAlone, IdleUses
  <2>3. Elsewhere({l}) /\ (Existing \cap removed)' = {} /\ UNCHANGED Existing
    BY <2>1 DEF Elsewhere, Exists, Existing, Bookkeeping, TypeOK
  <2>4. Holds(request[r])'
    BY <2>2 DEF Holds, Idle
  <2>5. l \in Existing \cup removed
    BY <2>1 DEF Bookkeeping, RolesKnown
  <2>6. l \in removed' => l \in overlapped'
    <3> SUFFICES ASSUME l \in removed
                 PROVE  l \in overlapped'
      BY <2>1
    <3>1. l \in overlapped \cup AtWork
      BY <2>1 DEF Bookkeeping, GoneAreClean, UsersWithRole
    <3>2. CASE l \in overlapped
      BY <2>2, <3>2 DEF OnlyRequest
    <3>3. ASSUME NEW s \in Request, l \in Uses(request[s])
          PROVE  l \in overlapped'
      <4>1. s # r
        BY <2>2, <3>3, UsesOf
      <4> QED
        BY <2>2, <3>3, <4>1 DEF OnlyRequest
    <3> QED
      BY <3>1, <3>2, <3>3 DEF AtWork
  <2> QED
    BY <1>0, <2>1, <2>2, <2>3, <2>4, <2>5, <2>6, BooksKept
<1>6. ASSUME NEW r \in Request, NEW l \in Location, RemoveLocation(r, l)
      PROVE  Bookkeeping'
  <2> DEFINE state == [pc |-> "remove", location |-> l, todo |-> {"record", "tree", "roles"}, users |-> {}]
  <2>1. Start(r, state, {l}) /\ UNCHANGED <<record, removed, roles>> /\ Exists(l)
    BY <1>6 DEF RemoveLocation
  <2>2. state.pc = "remove" /\ state.location = l /\ "record" \in state.todo /\ "roles" \in state.todo
    OBVIOUS
  <2> HIDE DEF state
  <2>3. OnlyRequest(r, {l}) /\ request'[r] = state /\ Uses(state) = {l}
    BY <2>1, <2>2, StartAlone, UsesOf
  <2>4. Elsewhere({l}) /\ (Existing \cap removed)' = {} /\ UNCHANGED Existing /\ Exists(l)'
    BY <2>1 DEF Elsewhere, Exists, Existing, Bookkeeping
  <2>5. Holds(request[r])'
    BY <2>2, <2>3, <2>4 DEF Holds
  <2> QED
    BY <1>0, <2>1, <2>3, <2>4, <2>5, BooksKept
<1>7. ASSUME NEW r \in Request, GiveRoles(r)
      PROVE  Bookkeeping'
  <2> DEFINE q == request[r]
             W == {q.location, q.parent}
  <2>1. /\ q.pc = "grant" /\ q.location \in Location /\ q.parent \in Location \cup {NoParent}
        /\ q.creator \in User /\ q.parent # q.location /\ Uses(q) = W
    BY <1>7, Fields, UsesOf DEF GiveRoles
  <2>2. UNCHANGED <<record, removed, overlapped>>
    BY <1>7 DEF GiveRoles
  <2>3. \A k \in Location, u \in User : k # q.location => roles'[<<u, k>>] = roles[<<u, k>>]
    BY <1>7, <2>1, AccessAssumption DEF GiveRoles, TypeOK
  <2>4. PICK state :
            /\ Become(r, state)
            /\ \/ state = Idle
               \/ state = [pc |-> "link", location |-> q.location, parent |-> q.parent] /\ q.parent # NoParent
    BY <1>7 DEF GiveRoles
  <2>5. Uses(state) \subseteq Uses(q)
    BY <2>1, <2>4, IdleUses, UsesOf
  <2>6. OnlyRequest(r, W) /\ request'[r] = state
    BY <1>0, <2>1, <2>2, <2>4, <2>5, GoesAlone
  <2>7. Elsewhere(W) /\ (Existing \cap removed)' = {} /\ UNCHANGED Existing /\ \A k : Exists(k)' <=> Exists(k)
    BY <2>2, <2>3 DEF Elsewhere, Exists, Existing, Bookkeeping
  <2>8. \A k \in W : k = NoParent \/ k \in overlapped' \/ Exists(k)
    BY <2>1, <2>2 DEF Bookkeeping, Holds
  <2>9. Holds(request[r])'
    <3>1. CASE state = Idle
      BY <2>6, <3>1 DEF Holds, Idle
    <3>2. CASE state = [pc |-> "link", location |-> q.location, parent |-> q.parent]
      <4>1. \A k \in Uses(state) \cap Location : k \in overlapped' \/ Exists(k)'
        BY <2>1, <2>5, <2>7, <2>8, AccessAssumption DEF NoParent
      <4>2. state.pc = "link"
        BY <3>2
      <4> QED
        BY <2>6, <4>1, <4>2 DEF Holds
    <3> QED
      BY <2>4, <3>1, <3>2
  <2>10. \A k \in W : k \in removed' => k \in overlapped'
    <3>1. NoParent \notin removed
      BY AccessAssumption DEF TypeOK, NoParent
    <3> QED
      BY <1>0, <2>2, <2>8, <3>1
  <2>11. W \subseteq (Existing \cup removed)' \cup {NoParent}
    BY <2>1, <2>2, <2>7 DEF Bookkeeping, UsesKnown
  <2> QED
    BY <1>0, <2>2, <2>6, <2>7, <2>9, <2>10, <2>11, BooksKept
<1>8. ASSUME NEW r \in Request, Link(r)
      PROVE  Bookkeeping'
  <2> DEFINE q == request[r]
             W == {q.location, q.parent}
  <2>1. q.pc = "link" /\ q.location \in Location /\ q.parent \in Location /\ Uses(q) = W
    BY <1>8, LinkFacts, UsesOf
  <2>2. UNCHANGED <<record, removed, roles, overlapped>> /\ Become(r, Idle)
    BY <1>8, LinkFacts
  <2>3. OnlyRequest(r, W) /\ request'[r] = Idle
    BY <1>0, <2>1, <2>2, GoesAlone, IdleUses, UsesOf
  <2>4. Elsewhere(W) /\ (Existing \cap removed)' = {} /\ UNCHANGED Existing
    BY <2>2 DEF Elsewhere, Exists, Existing, Bookkeeping
  <2>5. Holds(request[r])'
    BY <2>3 DEF Holds, Idle
  <2>6. \A k \in W : k \in removed' => k \in overlapped'
    BY <1>0, <2>1, <2>2 DEF Bookkeeping, Holds
  <2>7. W \subseteq (Existing \cup removed)' \cup {NoParent}
    BY <2>1, <2>2, <2>4 DEF Bookkeeping, UsesKnown
  <2> QED
    BY <1>0, <2>2, <2>3, <2>4, <2>5, <2>6, <2>7, BooksKept
<1>9. ASSUME NEW r \in Request, PutRole(r)
      PROVE  Bookkeeping'
  <2> DEFINE q == request[r]
             W == {q.location}
  <2>1. q.pc = "put" /\ q.location \in Location /\ q.user \in User /\ Uses(q) = W
    BY <1>9, Fields, UsesOf DEF PutRole
  <2>2. /\ UNCHANGED <<record, removed, overlapped>> /\ Become(r, Idle)
        /\ roles' = [roles EXCEPT ![<<q.user, q.location>>] = q.roles]
    BY <1>9 DEF PutRole
  <2>3. OnlyRequest(r, W) /\ request'[r] = Idle
    BY <1>0, <2>1, <2>2, GoesAlone, IdleUses, UsesOf
  <2>4. Elsewhere(W) /\ (Existing \cap removed)' = {} /\ UNCHANGED Existing
    BY <2>1, <2>2 DEF Elsewhere, Exists, Existing, Bookkeeping, TypeOK
  <2>5. Holds(request[r])'
    BY <2>3 DEF Holds, Idle
  <2>6. \A k \in W : k \in removed' => k \in overlapped'
    BY <1>0, <2>1, <2>2 DEF Bookkeeping, Holds
  <2>7. W \subseteq (Existing \cup removed)' \cup {NoParent}
    BY <2>1, <2>2, <2>4 DEF Bookkeeping, UsesKnown
  <2> QED
    BY <1>0, <2>2, <2>3, <2>4, <2>5, <2>6, <2>7, BooksKept
<1>10. ASSUME NEW r \in Request, ReadUsers(r)
       PROVE  Bookkeeping'
  <2> DEFINE q == request[r]
             todo == q.todo \ {"roles"}
             users == UsersWithRole(q.location)
  <2>1. q.pc = "remove" /\ Removing(r, todo, users)
    BY <1>10, RemovalGoes DEF ReadUsers
  <2>2. UNCHANGED <<record, removed, roles>>
    BY <1>10 DEF ReadUsers
  <2>3. PICK l : l = q.location
    OBVIOUS
  <2>4. Elsewhere({l}) /\ (Existing \cap removed)' = {} /\ UNCHANGED Existing
    BY <2>2 DEF Elsewhere, Exists, Existing, Bookkeeping
  <2>5. l \notin overlapped =>
            /\ "record" \in todo <=> l \in Existing'
            /\ \A u \in User : roles'[<<u, l>>] # {} => u \in users
    BY <2>1, <2>2, <2>3, <2>4 DEF Bookkeeping, Holds, Exists, UsersWithRole
  <2> HIDE DEF todo, users
  <2> QED
    BY <1>0, <2>1, <2>2, <2>3, <2>4, <2>5, RemovalBooks
<1>11. ASSUME NEW r \in Request, NEW u \in User, TakeRole(r, u)
       PROVE  Bookkeeping'
  <2> DEFINE q == request[r]
             users == q.users \ {u}
  <2>1. q.pc = "remove" /\ q.location \in Location /\ Removing(r, q.todo, users)
    BY <1>11, RemovalGoes, Fields DEF TakeRole
  <2>2. UNCHANGED <<record, removed>> /\ roles' = [roles EXCEPT ![<<u, q.location>>] = {}]
    BY <1>11 DEF TakeRole
  <2>3. PICK l : l = q.location
    OBVIOUS
  <2>4. Elsewhere({l}) /\ (Existing \cap removed)' = {} /\ UNCHANGED Existing
    BY <2>1, <2>2, <2>3 DEF Elsewhere, Exists, Existing, Bookkeeping, TypeOK
  <2>5. roles'[<<u, l>>] = {} /\ \A v \in User : v # u => roles'[<<v, l>>] = roles[<<v, l>>]
    BY <2>1, <2>2, <2>3 DEF TypeOK
  <2>6. l \notin overlapped =>
            /\ "record" \in q.todo <=> l \in Existing'
            /\ "roles" \notin q.todo => \A v \in User : roles'[<<v, l>>] # {} => v \in users
    BY <2>1, <2>3, <2>4, <2>5 DEF Bookkeeping, Holds, Exists, UsersWithRole
  <2> HIDE DEF users
  <2> QED
    BY <1>0, <2>1, <2>2, <2>3, <2>4, <2>6, RemovalBooks
<1>12. ASSUME NEW r \in Request, TakeRecord(r)
       PROVE  Bookkeeping'
  <2> DEFINE q == request[r]
             todo == q.todo \ {"record"}
  <2>1. q.pc = "remove" /\ Removing(r, todo, q.users)
    BY <1>12, RemovalGoes DEF TakeRecord
  <2>2. /\ UNCHANGED roles
        /\ Existing' = Existing \ {q.location} /\ removed' = removed \cup {q.location}
    BY <1>12 DEF TakeRecord, Existing
  <2>3. PICK l : l = q.location
    OBVIOUS
  <2>4. /\ Elsewhere({l}) /\ (Existing \cap removed)' = {}
        /\ Existing \cup removed \subseteq (Existing \cup removed)'
    BY <2>2, <2>3 DEF Elsewhere, Exists, Bookkeeping
  <2>5. l \notin overlapped =>
            /\ "record" \in todo <=> l \in Existing'
            /\ "roles" \notin todo => \A u \in User : roles'[<<u, l>>] # {} => u \in q.users
    BY <2>1, <2>2, <2>3 DEF Bookkeeping, Holds, UsersWithRole
  <2> HIDE DEF todo
  <2> QED
    BY <1>0, <2>1, <2>3, <2>4, <2>5, RemovalBooks
<1>13. ASSUME NEW r \in Request, TakeRows(r)
       PROVE  Bookkeeping'
  <2> DEFINE q == request[r]
             todo == q.todo \ {"tree"}
  <2>1. q.pc = "remove" /\ Removing(r, todo, q.users)
    BY <1>13, RemovalGoes DEF TakeRows
  <2>2. UNCHANGED <<record, removed, roles>>
    BY <1>13 DEF TakeRows
  <2>3. PICK l : l = q.location
    OBVIOUS
  <2>4. Elsewhere({l}) /\ (Existing \cap removed)' = {} /\ UNCHANGED Existing
    BY <2>2 DEF Elsewhere, Exists, Existing, Bookkeeping
  <2>5. l \notin overlapped =>
            /\ "record" \in todo <=> l \in Existing'
            /\ "roles" \notin todo => \A u \in User : roles'[<<u, l>>] # {} => u \in q.users
    BY <2>1, <2>2, <2>3, <2>4 DEF Bookkeeping, Holds, Exists, UsersWithRole
  <2> HIDE DEF todo
  <2> QED
    BY <1>0, <2>1, <2>2, <2>3, <2>4, <2>5, RemovalBooks
<1>14. CASE UNCHANGED vars
  BY <1>14 DEF vars, Bookkeeping, UsesKnown, OneUser, RolesKnown, Holds, GoneAreClean, AtWork,
               UsersWithRole, Exists, Existing
<1> QED
  BY <1>1, <1>2, <1>3, <1>4, <1>5, <1>6, <1>7, <1>8, <1>9, <1>10, <1>11, <1>12, <1>13, <1>14 DEF Next

-----------------------------------------------------------------------------
(* The two stores, as long as no two requests used a location at once.     *)

Calm == overlapped \cap Location = {}

RowsKnown == \A a, b \in Location : Row(a, b) => {a, b} \subseteq Existing \cup removed

(* Whatever is above an existing location exists.                          *)
Upward == \A a, b \in Location : Row(a, b) /\ Exists(b) => Exists(a)

(* The table has the parent that the record names, and no other; of a      *)
(* location that names itself, at most one: the last that it had.          *)
Agree(l) ==
    /\ \A a, b \in TreeParents(l) : a = b
    /\ record[l] # l => TreeParents(l) = {record[l]} \ {NoParent}

(* What a request still has to do before the stores agree on l.            *)
Awaits(q, l) ==
    \/ q.pc \in {"grant", "link"} /\ q.location = l /\ q.parent # NoParent
    \/ q.pc = "remove" /\ q.location = l /\ "tree" \notin q.todo

Agreement == \A l \in Existing : Agree(l) \/ \E r \in Request : Awaits(request[r], l)

(* A location still to be linked has no rows, so its link meets none; what *)
(* is removed has no existing location below it.                           *)
Bare(l) == \A a \in Location : ~Row(a, l) /\ ~Row(l, a)
Childless(l) == \A c \in Location : Row(l, c) /\ Exists(c) => c = l

Stands(q) ==
    /\ q.pc \in {"grant", "link"} => record[q.location] = q.parent /\ Bare(q.location)
    /\ q.pc = "remove" => Childless(q.location)

Stores == Calm => RowsKnown /\ Upward /\ Agreement /\ \A r \in Request : Stands(request[r])

(* The rows that the deletion of a move leaves, and those before its cross *)
(* join.                                                                   *)
Kept(id, hasPrev, a, b) == Row(a, b) /\ (hasPrev /\ Row(id, b) => Row(id, a))
Joined(id, parent, hasPrev, a, b) ==
    Kept(id, hasPrev, a, b) \/ (a = b /\ a \in {id, parent})

LEMMA DetachFacts ==
    ASSUME NEW id \in Location, NEW hasPrev \in BOOLEAN, T!Detach(id, hasPrev)
    PROVE  \A a, b \in Location :
               /\ Row(a, b)' <=> Kept(id, hasPrev, a, b)
               /\ a \in TreeParents(b)' <=> a \in TreeParents(b) /\ Kept(id, hasPrev, a, b)
<1>1. \A a, b \in Location : Row(a, b)' <=> Kept(id, hasPrev, a, b)
  BY DEF T!Detach, T!Detached, T!DeleteRows, T!DetachedRows, Row, Kept
<1>2. \A k \in DOMAIN tree' : k \in DOMAIN tree /\ tree'[k] = tree[k]
  BY DEF T!Detach, T!Detached, T!DeleteRows
<1> QED
  BY <1>1, <1>2 DEF TreeParents, Row, Kept

LEMMA RemoveFacts ==
    ASSUME NEW id \in Location, T!RemoveSubTree(id)
    PROVE  \A a, b \in Location :
               /\ Row(a, b)' <=> Row(a, b) /\ ~Row(id, b)
               /\ a \in TreeParents(b)' <=> a \in TreeParents(b) /\ ~Row(id, b)
<1>1. \A a, b \in Location : Row(a, b)' <=> Row(a, b) /\ ~Row(id, b)
  BY DEF T!RemoveSubTree, T!Rows, T!DeleteRows, Row
<1>2. \A k \in DOMAIN tree' : k \in DOMAIN tree /\ tree'[k] = tree[k]
  BY DEF T!RemoveSubTree, T!DeleteRows
<1> QED
  BY <1>1, <1>2 DEF TreeParents, Row

LEMMA AttachFacts ==
    ASSUME P!Stepwise(tree), NEW id \in Location, NEW parent \in Location, id # parent,
           NEW hasPrev \in BOOLEAN, T!Attach(id, parent, hasPrev)
    PROVE  \A a, b \in Location :
               /\ Row(a, b)' <=>
                    \/ Joined(id, parent, hasPrev, a, b)
                    \/ Joined(id, parent, hasPrev, a, parent) /\ Joined(id, parent, hasPrev, id, b)
               /\ a \in TreeParents(b)' <=>
                    \/ a \in TreeParents(b) /\ Kept(id, hasPrev, a, b)
                    \/ a = parent /\ b = id
<1> DEFINE l == P!Linked(tree, id, parent, hasPrev)
<1>1. ~P!Conflicts(l, id, parent) /\ tree' = P!InsertRows(l, id, parent)
  BY SameStatements DEF P!Attach
<1>2. /\ \A a, b \in Location : <<a, b>> \in DOMAIN l <=>
            \/ a = b /\ a \in {id, parent}
            \/ P!Stays(tree, id, hasPrev, a, b)
      /\ \A a, b \in Location : <<a, b>> \in DOMAIN tree' <=>
            \/ <<a, b>> \in DOMAIN l
            \/ <<a, parent>> \in DOMAIN l /\ <<id, b>> \in DOMAIN l
      /\ <<id, parent>> \notin DOMAIN l
      /\ \A k \in DOMAIN tree \cap DOMAIN l : tree'[k] = tree[k]
      /\ \A a, b \in Location : P!Link(tree', a, b) <=>
            \/ P!Link(tree, a, b) /\ <<a, b>> \in DOMAIN l
            \/ a = parent /\ b = id
  BY <1>1, NoCallers, P!RowsOfMove
<1> HIDE DEF l
<1>3. \A a, b \in Location : <<a, b>> \in DOMAIN l <=> Joined(id, parent, hasPrev, a, b)
  BY <1>2 DEF Joined, Kept, Row, P!Stays
<1>4. \A a, b \in Location :
          /\ P!Link(tree, a, b) <=> a \in TreeParents(b)
          /\ P!Link(tree', a, b) <=> a \in TreeParents(b)'
  BY DEF P!Link, TreeParents, Row
<1>5. \A a, b \in Location : a \in TreeParents(b) => Row(a, b) /\ a # b
  BY TreeFacts
<1> QED
  BY <1>2, <1>3, <1>4, <1>5 DEF Row, Joined

(* The link of a location without rows meets no row.                       *)
LEMMA NewLinkCommits ==
    ASSUME P!Stepwise(tree), NEW id \in Location, NEW parent \in Location, id # parent,
           \A a \in Location : ~Row(a, id) /\ ~Row(id, a)
    PROVE  ~T!AttachRolledBack(id, parent, FALSE)
<1> DEFINE l == P!Linked(tree, id, parent, FALSE)
<1>1. \A a, b \in Location : <<a, b>> \in DOMAIN l <=> Row(a, b) \/ (a = b /\ a \in {id, parent})
  BY DEF P!Linked, P!SelfLink, P!Detached, Row
<1>2. \A b \in Location : <<id, b>> \in DOMAIN l <=> b = id
  BY <1>1
<1>3. \A a \in Location : <<a, parent>> \in DOMAIN l => a # id
  BY <1>1
<1>4. ~P!Conflicts(l, id, parent)
  <2>1. \A k \in P!NewRows(l, id, parent) : k \notin DOMAIN l
    <3>1. \A a, b \in Location :
              <<a, parent>> \in DOMAIN l /\ <<id, b>> \in DOMAIN l => <<a, b>> \notin DOMAIN l
      BY <1>1, <1>2, <1>3
    <3> HIDE DEF l
    <3>2. \A k \in P!NewRows(l, id, parent) :
              /\ k[1] \in Location /\ k[2] \in Location /\ k = <<k[1], k[2]>>
              /\ <<k[1], parent>> \in DOMAIN l /\ <<id, k[2]>> \in DOMAIN l
      BY DEF P!NewRows
    <3> QED
      BY <3>1, <3>2
  <2> QED
    BY <2>1 DEF P!Conflicts
<1> QED
  BY <1>4, SameStatements DEF P!AttachRolledBack

(* A move or a link that commits: its location agrees, the others still    *)
(* do, and locations without rows or children stay so.                     *)
Undisturbed(W) ==
    \A x \in Location : x \notin W =>
        /\ Bare(x) => Bare(x)'
        /\ Childless(x) => Childless(x)'
        /\ Exists(x)' <=> Exists(x)
        /\ Exists(x) => record'[x] = record[x]
        /\ Exists(x) /\ Agree(x) => Agree(x)'

LEMMA AttachedStores ==
    ASSUME TypeOK, P!Stepwise(tree), RowsKnown, Upward,
           NEW id \in Location, NEW parent \in Location, id # parent, NEW hasPrev \in BOOLEAN,
           Exists(id), Exists(parent), hasPrev \/ TreeParents(id) = {},
           T!Attach(id, parent, hasPrev),
           UNCHANGED <<Existing, removed>>, record'[id] = parent,
           \A x \in Location : x # id => record'[x] = record[x]
    PROVE  /\ RowsKnown' /\ Upward' /\ Agree(id)' /\ Undisturbed({id, parent})
           /\ Agree(parent) => Agree(parent)'
<1>1. \A a, b \in Location :
          /\ Row(a, b)' <=>
               \/ Joined(id, parent, hasPrev, a, b)
               \/ Joined(id, parent, hasPrev, a, parent) /\ Joined(id, parent, hasPrev, id, b)
          /\ a \in TreeParents(b)' <=>
               \/ a \in TreeParents(b) /\ Kept(id, hasPrev, a, b)
               \/ a = parent /\ b = id
  BY AttachFacts
<1>2. /\ \A a, b \in Location : Joined(id, parent, hasPrev, a, b) => Row(a, b) \/ (a = b /\ a \in {id, parent})
      /\ \A x : Exists(x)' <=> Exists(x)
      /\ Existing' = Existing /\ id \in Existing /\ parent \in Existing
  BY DEF Joined, Kept, Exists
<1>3. RowsKnown'
  <2> SUFFICES ASSUME NEW a \in Location, NEW b \in Location, Row(a, b)'
               PROVE  {a, b} \subseteq (Existing \cup removed)'
    BY DEF RowsKnown
  <2>1. \A x, y \in Location : Joined(id, parent, hasPrev, x, y) => {x, y} \subseteq Existing \cup removed
    BY <1>2 DEF RowsKnown
  <2>2. {a, b} \subseteq Existing \cup removed
    BY <1>1, <2>1
  <2> QED
    BY <2>2
<1>4. Upward'
  <2>1. \A a, b \in Location : Row(a, b)' /\ Exists(b) => Exists(a)
    BY <1>1, <1>2 DEF Upward
  <2> QED
    BY <1>2, <2>1 DEF Upward
<1>5. Agree(id)'
  <2>1. \A a \in TreeParents(id) : hasPrev => ~Kept(id, hasPrev, a, id)
    BY TreeFacts DEF Kept, TreeParents
  <2>2. \A a \in Location : a \in TreeParents(id)' <=> a = parent
    BY <1>1, <2>1
  <2>3. TreeParents(id)' = {parent}
    BY <2>2 DEF TreeParents
  <2> QED
    BY <2>3, AccessAssumption DEF Agree, NoParent
<1>6. ASSUME NEW x \in Location, x \notin {id, parent}
      PROVE  (Bare(x) => Bare(x)') /\ (Childless(x) => Childless(x)')
  <2>1. Bare(x) => Bare(x)'
    BY <1>1, <1>2, <1>6 DEF Bare
  <2>2. ASSUME Childless(x)
        PROVE  Childless(x)'
    <3>1. \A c \in Location : Row(x, c)' /\ Exists(c) => c = x
      BY <1>1, <1>2, <1>6, <2>2 DEF Childless
    <3> QED
      BY <1>2, <3>1 DEF Childless
  <2> QED
    BY <2>1, <2>2
<1>7. ASSUME NEW x \in Location, x # id, Agree(x)
      PROVE  Agree(x)'
  <2>1. \A a, b \in TreeParents(x) : a = b
    BY <1>7 DEF Agree
  <2>2. \A a \in TreeParents(x) : Kept(id, hasPrev, a, x)
    <3> SUFFICES ASSUME NEW a \in TreeParents(x), Row(id, x)
                 PROVE  Row(id, a)
      BY TreeFacts DEF Kept, TreeParents
    <3>1. PICK b \in TreeParents(x) : Row(id, b)
      BY <1>7, TreeFacts
    <3> QED
      BY <2>1, <3>1
  <2>3. \A a \in Location : a \in TreeParents(x)' <=> a \in TreeParents(x)
    BY <1>1, <1>7, <2>2
  <2>4. TreeParents(x)' = TreeParents(x)
    BY <2>3 DEF TreeParents
  <2> QED
    BY <1>7, <2>4 DEF Agree, NoParent
<1> QED
  BY <1>2, <1>3, <1>4, <1>5, <1>6, <1>7 DEF Undisturbed

LEMMA DetachedStores ==
    ASSUME TypeOK, P!Stepwise(tree), RowsKnown, Upward,
           NEW id \in Location, NEW hasPrev \in BOOLEAN,
           hasPrev \/ TreeParents(id) = {},
           T!Detach(id, hasPrev),
           UNCHANGED <<Existing, removed>>, record'[id] = NoParent,
           \A x \in Location : x # id => record'[x] = record[x]
    PROVE  RowsKnown' /\ Upward' /\ Agree(id)' /\ Undisturbed({id, NoParent})
<1>1. \A a, b \in Location :
          /\ Row(a, b)' <=> Kept(id, hasPrev, a, b)
          /\ a \in TreeParents(b)' <=> a \in TreeParents(b) /\ Kept(id, hasPrev, a, b)
  BY DetachFacts
<1>2. /\ \A a, b \in Location : Row(a, b)' => Row(a, b)
      /\ \A x : Exists(x)' <=> Exists(x)
  BY <1>1 DEF Kept, Exists
<1>3. RowsKnown' /\ Upward'
  BY <1>2 DEF RowsKnown, Upward
<1>4. Agree(id)'
  <2>1. \A a \in TreeParents(id) : hasPrev => ~Kept(id, hasPrev, a, id)
    BY TreeFacts DEF Kept, TreeParents
  <2>2. TreeParents(id)' = {}
    BY <1>1, <2>1 DEF TreeParents
  <2> QED
    BY <2>2 DEF Agree
<1>5. ASSUME NEW x \in Location, x # id
      PROVE  /\ Bare(x) => Bare(x)'
             /\ Childless(x) => Childless(x)'
             /\ Agree(x) => Agree(x)'
  <2>1. (Bare(x) => Bare(x)') /\ (Childless(x) => Childless(x)')
    BY <1>2 DEF Bare, Childless
  <2>2. ASSUME Agree(x)
        PROVE  Agree(x)'
    <3>1. \A a, b \in TreeParents(x) : a = b
      BY <2>2 DEF Agree
    <3>2. \A a \in TreeParents(x) : Kept(id, hasPrev, a, x)
      <4> SUFFICES ASSUME NEW a \in TreeParents(x), Row(id, x)
                   PROVE  Row(id, a)
        BY TreeFacts DEF Kept, TreeParents
      <4>1. PICK b \in TreeParents(x) : Row(id, b)
        BY <1>5, TreeFacts
      <4> QED
        BY <3>1, <4>1
    <3>3. TreeParents(x)' = TreeParents(x)
      BY <1>1, <3>2 DEF TreeParents
    <3> QED
      BY <1>5, <2>2, <3>3 DEF Agree, NoParent
  <2> QED
    BY <2>1, <2>2
<1> QED
  BY <1>2, <1>3, <1>4, <1>5 DEF Undisturbed

LEMMA AwaitsUses ==
    ASSUME NEW q, NEW l, Awaits(q, l)
    PROVE  l \in Uses(q)
  BY UsesOf DEF Awaits

(* A step that leaves what it touches in order, and the rest undisturbed.  *)
LEMMA StoresKept ==
    ASSUME TypeOK, (TypeOK)', Bookkeeping, Stores, NEW r \in Request, NEW W, OnlyRequest(r, W),
           Calm' => /\ RowsKnown' /\ Upward'
                    /\ Undisturbed(W)
                    /\ \A x \in Location : x \in W /\ Exists(x)' => Agree(x)' \/ Awaits(request'[r], x)
                    /\ Stands(request[r])'
    PROVE  Stores'
<1> SUFFICES ASSUME Calm'
             PROVE  (RowsKnown /\ Upward /\ Agreement /\ \A s \in Request : Stands(request[s]))'
  BY DEF Stores
<1>1. Calm /\ RowsKnown /\ Upward /\ Agreement /\ \A s \in Request : Stands(request[s])
  BY DEF Stores, Calm, OnlyRequest
<1>2. \A s \in Request : s # r => /\ request'[s] = request[s]
                                  /\ \A x \in Location : x \in Uses(request[s]) => x \notin W
  BY DEF Calm, OnlyRequest
<1>3. Agreement'
  <2> SUFFICES ASSUME NEW x \in Existing'
               PROVE  Agree(x)' \/ \E s \in Request : Awaits(request'[s], x)
    BY DEF Agreement
  <2>1. x \in Location /\ Exists(x)'
    BY DEF TypeOK, Exists
  <2>2. CASE x \in W
    BY <2>1, <2>2
  <2>3. CASE x \notin W
    <3>1. Exists(x) /\ (Agree(x) => Agree(x)')
      BY <2>1, <2>3 DEF Undisturbed
    <3>2. ASSUME NEW s \in Request, Awaits(request[s], x)
          PROVE  Awaits(request'[s], x)
      BY <1>2, <2>3, <3>2, AwaitsUses DEF OnlyRequest
    <3> QED
      BY <1>1, <3>1, <3>2 DEF Agreement, Exists
  <2> QED
    BY <2>2, <2>3
<1>4. ASSUME NEW s \in Request, s # r
      PROVE  Stands(request[s])'
  <2> DEFINE q == request[s]
  <2>1. request'[s] = q /\ Stands(q)
    BY <1>1, <1>2, <1>4
  <2>2. CASE q.pc \in {"grant", "link"}
    <3>1. q.location \in Location /\ q.location \in Uses(q)
      BY <2>2, Fields, UsesOf
    <3>2. q.location \notin W /\ q.location \notin overlapped'
      BY <1>2, <1>4, <3>1 DEF Calm
    <3>3. Exists(q.location)
      BY <1>1, <2>2, <3>1 DEF Bookkeeping, Holds, Calm
    <3>4. PICK l : l = q.location
      OBVIOUS
    <3>5. l \in Location /\ l \notin W /\ Exists(l) /\ record[l] = q.parent /\ Bare(l)
      BY <2>1, <2>2, <3>1, <3>2, <3>3, <3>4 DEF Stands
    <3>6. record'[l] = q.parent /\ Bare(l)'
      BY <3>5 DEF Undisturbed
    <3> QED
      BY <2>1, <2>2, <3>4, <3>6 DEF Stands, Bare, Row
  <2>3. CASE q.pc = "remove"
    <3>1. q.location \in Location /\ q.location \in Uses(q)
      BY <2>3, Fields, UsesOf
    <3>2. PICK l : l = q.location
      OBVIOUS
    <3>3. l \in Location /\ l \notin W
      BY <1>2, <1>4, <3>1, <3>2
    <3>4. Childless(l)'
      BY <2>1, <2>3, <3>2, <3>3 DEF Stands, Undisturbed
    <3> QED
      BY <2>1, <2>3, <3>2, <3>4 DEF Stands, Childless, Row, Exists, Existing
  <2>4. CASE q.pc \notin {"grant", "link", "remove"}
    BY <2>1, <2>4 DEF Stands
  <2> QED
    BY <2>2, <2>3, <2>4
<1> QED
  BY <1>3, <1>4

(* A step that changes neither store.                                      *)
LEMMA QuietStores ==
    ASSUME TypeOK, Stores, NEW r \in Request, NEW W, OnlyRequest(r, W),
           UNCHANGED <<record, removed, tree>>,
           Calm' => /\ \A x \in Existing : Awaits(request[r], x) => Awaits(request'[r], x)
                    /\ Stands(request'[r])
    PROVE  Stores'
<1> SUFFICES ASSUME Calm'
             PROVE  (RowsKnown /\ Upward /\ Agreement /\ \A s \in Request : Stands(request[s]))'
  BY DEF Stores
<1>1. Calm /\ RowsKnown /\ Upward /\ Agreement /\ \A s \in Request : Stands(request[s])
  BY DEF Stores, Calm, OnlyRequest
<1>2. \A s \in Request : s # r => request'[s] = request[s]
  BY DEF OnlyRequest
<1>3. RowsKnown' /\ Upward'
  BY <1>1 DEF RowsKnown, Upward, Row, Exists, Existing
<1>4. Agreement'
  <2>1. \A x \in Existing : Agree(x) \/ \E s \in Request : Awaits(request'[s], x)
    BY <1>1, <1>2 DEF Agreement
  <2> QED
    BY <2>1 DEF Agreement, Agree, TreeParents, Row, Existing
<1>5. \A s \in Request : Stands(request'[s])
  BY <1>1, <1>2
<1> QED
  BY <1>3, <1>4, <1>5 DEF Stands, Bare, Childless, Row, Exists, Existing

LEMMA OtherPhases ==
    ASSUME NEW q, q.pc \notin {"grant", "link", "remove"}
    PROVE  Stands(q) /\ \A x : ~Awaits(q, x)
  BY DEF Stands, Awaits

LEMMA GiveRolesStores ==
    ASSUME TypeOK, Bookkeeping, Stores, NEW r \in Request, GiveRoles(r)
    PROVE  Stores'
<1> DEFINE q == request[r]
           link == [pc |-> "link", location |-> q.location, parent |-> q.parent]
<1>1. q.pc = "grant" /\ UNCHANGED <<record, removed, tree, overlapped>> /\ Uses(q) = {q.location, q.parent}
  BY UsesOf DEF GiveRoles
<1>2. q.location \in Location
  BY <1>1, Fields
<1>3. PICK state :
          /\ Become(r, state)
          /\ \/ state = Idle /\ (~Exists(q.location) \/ q.parent = NoParent)
             \/ state = link
  BY DEF GiveRoles
<1>4. link.pc = "link" /\ link.location = q.location /\ link.parent = q.parent /\ Uses(link) = {q.location, q.parent}
  BY UsesOf
<1> HIDE DEF link
<1>5. Uses(state) \subseteq Uses(q)
  BY <1>1, <1>3, <1>4, IdleUses
<1>6. OnlyRequest(r, Uses(q)) /\ request'[r] = state
  BY <1>1, <1>3, <1>5, GoesAlone DEF Bookkeeping
<1>7. ASSUME Calm'
      PROVE  /\ \A x \in Existing : Awaits(q, x) => Awaits(state, x)
             /\ Stands(state)
  <2>1. Calm /\ Stands(q) /\ Exists(q.location)
    BY <1>1, <1>2, <1>7 DEF Calm, Stores, Bookkeeping, Holds
  <2>2. CASE state = Idle /\ q.parent = NoParent
    BY <1>1, <2>2, IdleUses, OtherPhases DEF Awaits
  <2>3. CASE state = link
    BY <1>1, <1>4, <2>1, <2>3 DEF Awaits, Stands
  <2> QED
    BY <1>3, <2>1, <2>2, <2>3
<1> QED
  BY <1>1, <1>6, <1>7, QuietStores

LEMMA RemoveLocationStores ==
    ASSUME TypeOK, P!Stepwise(tree), Stores, NEW r \in Request, NEW l \in Location, RemoveLocation(r, l)
    PROVE  Stores'
<1> DEFINE state == [pc |-> "remove", location |-> l, todo |-> {"record", "tree", "roles"}, users |-> {}]
<1>1. /\ Start(r, state, {l}) /\ UNCHANGED <<record, removed, tree>>
      /\ ~\E c \in AllChildren(l) : tree[<<l, c>>] = 1 /\ Exists(c)
  BY DEF RemoveLocation
<1>2. state.pc = "remove" /\ state.location = l /\ Uses(state) = {l}
  BY UsesOf
<1> HIDE DEF state
<1>3. OnlyRequest(r, {l}) /\ request'[r] = state /\ request[r].pc = "idle"
  BY <1>1, <1>2, StartAlone
<1>4. ASSUME Calm'
      PROVE  Stands(state)
  <2>1. Upward
    BY <1>3, <1>4 DEF Stores, Calm, OnlyRequest
  <2>2. ASSUME NEW c \in Location, Row(l, c), Exists(c), c # l
        PROVE  FALSE
    <3>1. PICK b \in Location : l \in TreeParents(b) /\ Row(b, c)
      BY <2>2, TreeFacts
    <3>2. Exists(b) /\ Row(l, b) /\ l # b /\ tree[<<l, b>>] = 1
      BY <2>1, <2>2, <3>1, TreeFacts DEF Upward, TreeParents
    <3>3. b \in AllChildren(l)
      BY <3>2, Reads
    <3> QED
      BY <1>1, <3>2, <3>3
  <2> QED
    BY <1>2, <2>2 DEF Stands, Childless
<1> QED
  BY <1>1, <1>3, <1>4, QuietStores, OtherPhases

LEMMA RemovalReadsStores ==
    ASSUME TypeOK, Bookkeeping, Stores, NEW r \in Request, NEW u \in User, ReadUsers(r) \/ TakeRole(r, u)
    PROVE  Stores'
<1> DEFINE q == request[r]
<1>1. UNCHANGED <<record, removed, tree>>
  BY DEF ReadUsers, TakeRole
<1>2. PICK todo, users : /\ Removing(r, todo, users)
                         /\ todo \in {q.todo, q.todo \ {"roles"}}
  BY RemovalGoes
<1>3. q.pc = "remove" /\ q.location \in Location /\ UNCHANGED overlapped
  BY <1>2, Fields DEF Removing
<1>4. /\ OnlyRequest(r, {q.location})
      /\ \/ request'[r] = Idle /\ todo = {} /\ users = {}
         \/ /\ request'[r].pc = "remove" /\ request'[r].location = q.location
            /\ request'[r].todo = todo
  BY <1>2, RemovalAlone DEF Bookkeeping
<1>5. ASSUME Calm'
      PROVE  /\ \A x \in Existing : Awaits(q, x) => Awaits(request'[r], x)
             /\ Stands(request'[r])
  <2>1. Calm /\ Stands(q) /\ ("record" \in q.todo <=> Exists(q.location))
    BY <1>3, <1>5 DEF Calm, Stores, Bookkeeping, Holds
  <2>2. CASE request'[r] = Idle /\ todo = {}
    <3>1. ~Exists(q.location)
      BY <1>2, <2>1, <2>2
    <3> QED
      BY <1>3, <2>2, <3>1, IdleUses, OtherPhases DEF Awaits, Exists
  <2>3. CASE request'[r].pc = "remove" /\ request'[r].location = q.location /\ request'[r].todo = todo
    BY <1>2, <1>3, <2>1, <2>3 DEF Awaits, Stands
  <2> QED
    BY <1>4, <2>2, <2>3
<1> QED
  BY <1>1, <1>4, <1>5, QuietStores

(* Nobody else is at work on what a request uses.                          *)
LEMMA NobodyElse ==
    ASSUME Stores, NEW r \in Request, NEW W, OnlyRequest(r, W), Calm', NEW x \in Existing,
           x \in Location, x \in W, ~Awaits(request[r], x)
    PROVE  Agree(x)
<1>1. Agreement
  BY DEF Stores, Calm, OnlyRequest
<1>2. ASSUME NEW s \in Request, Awaits(request[s], x)
      PROVE  FALSE
  <2>1. s # r /\ x \in Uses(request[s])
    BY <1>2, AwaitsUses
  <2> QED
    BY <2>1 DEF OnlyRequest, Calm
<1> QED
  BY <1>1, <1>2 DEF Agreement

LEMMA CreateStores ==
    ASSUME TypeOK, (TypeOK)', P!Stepwise(tree), Bookkeeping, Stores, NEW r \in Request, NEW l \in Location,
           NEW parent \in Location \cup {NoParent}, NEW creator \in User, CreateLocation(r, l, parent, creator)
    PROVE  Stores'
<1> DEFINE state == [pc |-> "grant", location |-> l, parent |-> parent, creator |-> creator]
           W == {l, parent}
<1>1. /\ Start(r, state, W) /\ UNCHANGED <<removed, tree>>
      /\ l \notin Existing \cup removed
      /\ parent # NoParent => parent \in Existing
      /\ record' = [k \in Existing \cup {l} |-> IF k = l THEN parent ELSE record[k]]
  BY DEF CreateLocation, Exists
<1>2. /\ Existing' = Existing \cup {l} /\ record'[l] = parent
      /\ \A x \in Existing : record'[x] = record[x] /\ x # l
  BY <1>1 DEF Existing
<1>3. state.pc = "grant" /\ state.location = l /\ state.parent = parent /\ Uses(state) = W
  BY UsesOf
<1> HIDE DEF state
<1>4. OnlyRequest(r, W) /\ request'[r] = state /\ request[r].pc = "idle"
  BY <1>1, <1>3, StartAlone
<1>5. ASSUME Calm'
      PROVE  /\ RowsKnown' /\ Upward' /\ Undisturbed(W)
             /\ \A x \in Location : x \in W /\ Exists(x)' => Agree(x)' \/ Awaits(state, x)
             /\ Stands(request[r])'
  <2>1. RowsKnown /\ Upward
    BY <1>4, <1>5 DEF Stores, Calm, OnlyRequest
  <2>2. Bare(l)
    BY <1>1, <2>1 DEF RowsKnown, Bare
  <2>3. /\ \A a, b \in Location : Row(a, b)' <=> Row(a, b)
        /\ \A x \in Location : TreeParents(x)' = TreeParents(x)
        /\ \A x : Exists(x)' <=> Exists(x) \/ x = l
    BY <1>1, <1>2 DEF Row, TreeParents, Exists
  <2>4. RowsKnown' /\ Upward'
    BY <1>1, <1>2, <2>1, <2>2, <2>3 DEF RowsKnown, Upward, Bare
  <2>5. \A x \in Existing : Agree(x) => Agree(x)'
    BY <1>2, <2>3 DEF Agree, NoParent, TypeOK
  <2>6. Undisturbed(W)
    <3>1. \A x \in Location : /\ Bare(x) => Bare(x)'
                              /\ Childless(x) => Childless(x)'
      BY <2>2, <2>3 DEF Bare, Childless
    <3> QED
      BY <1>2, <2>3, <2>5, <3>1 DEF Undisturbed, Exists
  <2>7. Agree(l)' \/ Awaits(state, l)
    <3>1. CASE parent = NoParent
      <4>1. TreeParents(l) = {}
        BY <2>2 DEF TreeParents, Bare
      <4> QED
        BY <1>2, <2>3, <3>1, <4>1 DEF Agree
    <3>2. CASE parent # NoParent
      BY <1>3, <3>2 DEF Awaits
    <3> QED
      BY <3>1, <3>2
  <2>8. parent \in Location => Agree(parent)'
    <3> SUFFICES ASSUME parent \in Location
                 PROVE  Agree(parent)'
      OBVIOUS
    <3>1. parent \in Existing
      BY <1>1, AccessAssumption DEF NoParent
    <3>2. Agree(parent)
      BY <1>4, <1>5, <3>1, NobodyElse, OtherPhases
    <3> QED
      BY <2>5, <3>1, <3>2
  <2>9. Stands(request[r])'
    <3>1. Bare(l)'
      BY <2>2, <2>3 DEF Bare
    <3> QED
      BY <1>2, <1>3, <1>4, <3>1 DEF Stands, Bare, Row
  <2> QED
    BY <2>4, <2>6, <2>7, <2>8, <2>9
<1> QED
  BY <1>4, <1>5, StoresKept

LEMMA MoveStores ==
    ASSUME TypeOK, (TypeOK)', P!Stepwise(tree), Bookkeeping, Stores, NEW r \in Request, NEW l \in Location,
           NEW parent \in Location \cup {NoParent}, Move(r, l, parent)
    PROVE  Stores'
<1> DEFINE W == {l, parent}
           hasPrev == record[l] # NoParent
<1>1. /\ l \in Existing
      /\ parent # NoParent => parent \in Existing
      /\ hasPrev \in BOOLEAN
      /\ \/ parent \in Location /\ parent \in {l, record[l]} /\ UNCHANGED tree
         \/ parent = NoParent /\ T!Detach(l, hasPrev)
         \/ parent \in Location /\ parent # l /\ T!Attach(l, parent, hasPrev)
      /\ record' = [record EXCEPT ![l] = parent]
      /\ Start(r, Idle, W)
      /\ UNCHANGED <<Existing, removed>>
  BY MoveFacts
<1>2. record'[l] = parent /\ \A x : x # l => record'[x] = record[x]
  BY <1>1 DEF Existing
<1>3. OnlyRequest(r, W) /\ request'[r] = Idle /\ request[r].pc = "idle"
  BY <1>1, StartAlone, IdleUses
<1>4. ASSUME Calm'
      PROVE  /\ RowsKnown' /\ Upward' /\ Undisturbed(W)
             /\ \A x \in Location : x \in W /\ Exists(x)' => Agree(x)'
  <2>1. RowsKnown /\ Upward
    BY <1>3, <1>4 DEF Stores, Calm, OnlyRequest
  <2>2. Agree(l)
    BY <1>1, <1>3, <1>4, NobodyElse, OtherPhases
  <2>3. NoParent \notin Location /\ (parent \in Location => Exists(parent) /\ parent \in Existing)
    BY <1>1, AccessAssumption DEF NoParent, Exists
  <2>4. parent \in Location => Agree(parent)
    BY <1>3, <1>4, <2>3, NobodyElse, OtherPhases
  <2>5. hasPrev \/ TreeParents(l) = {}
    BY <2>2, <2>3 DEF Agree
  <2> HIDE DEF hasPrev
  <2>6. CASE parent = NoParent /\ T!Detach(l, hasPrev)
    <3>1. RowsKnown' /\ Upward' /\ Agree(l)' /\ Undisturbed({l, NoParent})
      BY <1>1, <1>2, <2>1, <2>5, <2>6, DetachedStores
    <3> QED
      BY <2>3, <2>6, <3>1
  <2>7. CASE parent \in Location /\ parent # l /\ T!Attach(l, parent, hasPrev)
    <3>1. /\ RowsKnown' /\ Upward' /\ Agree(l)' /\ Undisturbed(W)
          /\ Agree(parent) => Agree(parent)'
      BY <1>1, <1>2, <2>1, <2>3, <2>5, <2>7, AttachedStores DEF Exists
    <3> QED
      BY <2>4, <2>7, <3>1
  <2>8. CASE parent \in Location /\ parent \in {l, record[l]} /\ UNCHANGED tree
    <3>1. /\ \A a, b \in Location : Row(a, b)' <=> Row(a, b)
          /\ \A x \in Location : TreeParents(x)' = TreeParents(x)
          /\ \A x : Exists(x)' <=> Exists(x)
      BY <1>1, <2>8 DEF Row, TreeParents, Exists
    <3>2. RowsKnown' /\ Upward'
      BY <1>1, <2>1, <3>1 DEF RowsKnown, Upward
    <3>3. \A x \in Location : /\ Bare(x) => Bare(x)'
                              /\ Childless(x) => Childless(x)'
      BY <3>1 DEF Bare, Childless
    <3>4. \A x \in Location : x # l /\ Agree(x) => Agree(x)'
      BY <1>2, <3>1 DEF Agree, NoParent
    <3>5. Agree(l)'
      BY <1>2, <2>2, <2>8, <3>1 DEF Agree, NoParent
    <3> QED
      BY <1>2, <2>4, <2>8, <3>1, <3>2, <3>3, <3>4, <3>5 DEF Undisturbed
  <2> QED
    BY <1>1, <2>6, <2>7, <2>8
<1>5. Stands(request[r])'
  BY <1>3 DEF Stands, Idle
<1> QED
  BY <1>3, <1>4, <1>5, StoresKept

LEMMA LinkStores ==
    ASSUME TypeOK, (TypeOK)', P!Stepwise(tree), Bookkeeping, Stores, NEW r \in Request, Link(r)
    PROVE  Stores'
<1> DEFINE q == request[r]
<1>1. PICK l, parent : l = q.location /\ parent = q.parent
  OBVIOUS
<1> DEFINE W == {l, parent}
<1>2. /\ q.pc = "link" /\ l \in Location /\ parent \in Location /\ parent # l
      /\ T!Attach(l, parent, FALSE) \/ T!AttachRolledBack(l, parent, FALSE)
      /\ Become(r, Idle)
      /\ UNCHANGED <<record, removed, overlapped>>
  BY <1>1, LinkFacts
<1>3. Uses(q) = W
  BY <1>1, <1>2, UsesOf
<1>4. OnlyRequest(r, Uses(q)) /\ request'[r] = Idle
  BY <1>2, IdleUses, GoesAlone DEF Bookkeeping
<1>5. ASSUME Calm'
      PROVE  /\ RowsKnown' /\ Upward' /\ Undisturbed(W)
             /\ \A x \in Location : x \in W /\ Exists(x)' => Agree(x)'
  <2>1. /\ Calm /\ RowsKnown /\ Upward /\ Stands(q)
        /\ \A x \in W : Exists(x)
    BY <1>2, <1>3, <1>5 DEF Calm, Stores, Bookkeeping, Holds
  <2>2. Bare(l) /\ record[l] = parent
    BY <1>1, <1>2, <2>1 DEF Stands
  <2>3. T!Attach(l, parent, FALSE)
    BY <1>2, <2>2, NewLinkCommits DEF Bare
  <2>4. TreeParents(l) = {}
    BY <2>2 DEF TreeParents, Bare
  <2>5. UNCHANGED Existing /\ record'[l] = parent /\ \A x \in Location : x # l => record'[x] = record[x]
    BY <1>2, <2>2 DEF Existing
  <2>6. FALSE \in BOOLEAN /\ Exists(l) /\ Exists(parent) /\ parent \in Existing
    BY <2>1 DEF Exists
  <2>7. /\ RowsKnown' /\ Upward' /\ Agree(l)' /\ Undisturbed(W)
        /\ Agree(parent) => Agree(parent)'
    BY <1>2, <2>1, <2>3, <2>4, <2>5, <2>6, AttachedStores
  <2>8. ~Awaits(q, parent)
    BY <1>1, <1>2 DEF Awaits
  <2>9. Agree(parent)
    BY <1>2, <1>3, <1>4, <1>5, <2>6, <2>8, NobodyElse
  <2> QED
    BY <2>7, <2>9
<1>6. Stands(request[r])'
  BY <1>4 DEF Stands, Idle
<1> QED
  BY <1>3, <1>4, <1>5, <1>6, StoresKept

LEMMA TakeRecordStores ==
    ASSUME TypeOK, (TypeOK)', Bookkeeping, Stores, NEW r \in Request, TakeRecord(r)
    PROVE  Stores'
<1> DEFINE q == request[r]
<1>1. PICK l : l = q.location
  OBVIOUS
<1>2. PICK todo : Removing(r, todo, q.users)
  BY RemovalGoes
<1>3. /\ q.pc = "remove" /\ l \in Location /\ UNCHANGED <<tree, overlapped>>
      /\ Existing' = Existing \ {l} /\ removed' = removed \cup {l}
      /\ \A x \in Existing : x # l => record'[x] = record[x]
  BY <1>1, Fields DEF TakeRecord, Existing
<1>4. /\ OnlyRequest(r, {l})
      /\ request'[r] = Idle \/ (request'[r].pc = "remove" /\ request'[r].location = l)
  BY <1>1, <1>2, RemovalAlone DEF Bookkeeping
<1>5. ASSUME Calm'
      PROVE  /\ RowsKnown' /\ Upward' /\ Undisturbed({l})
             /\ \A x \in Location : x \in {l} /\ Exists(x)' => Agree(x)'
             /\ Stands(request[r])'
  <2>1. RowsKnown /\ Upward /\ Childless(l)
    BY <1>1, <1>3, <1>5 DEF Calm, Stores, Stands
  <2>2. /\ \A a, b \in Location : Row(a, b)' <=> Row(a, b)
        /\ \A x \in Location : TreeParents(x)' = TreeParents(x)
        /\ \A x : Exists(x)' <=> Exists(x) /\ x # l
    BY <1>3 DEF Row, TreeParents, Exists
  <2>3. RowsKnown' /\ Upward'
    <3>1. RowsKnown'
      BY <1>3, <2>1, <2>2 DEF RowsKnown
    <3>2. \A a, b \in Location : Row(a, b) /\ Exists(b) /\ b # l => Exists(a) /\ a # l
      BY <2>1 DEF Upward, Childless
    <3> QED
      BY <2>2, <3>1, <3>2 DEF Upward
  <2>4. \A x \in Location : /\ Bare(x) => Bare(x)'
                            /\ Childless(x) => Childless(x)'
    BY <2>2 DEF Bare, Childless
  <2>5. Undisturbed({l})
    BY <1>3, <2>2, <2>4 DEF Undisturbed, Exists, Agree, NoParent
  <2>6. Stands(request[r])'
    <3>1. Childless(l)'
      BY <1>3, <2>1, <2>4
    <3>2. CASE request'[r] = Idle
      BY <3>2 DEF Stands, Idle
    <3>3. CASE request'[r].pc = "remove" /\ request'[r].location = l
      BY <3>1, <3>3 DEF Stands, Childless, Row, Exists, Existing
    <3> QED
      BY <1>4, <3>2, <3>3
  <2> QED
    BY <2>2, <2>3, <2>5, <2>6
<1> QED
  BY <1>4, <1>5, StoresKept

LEMMA TakeRowsStores ==
    ASSUME TypeOK, (TypeOK)', Bookkeeping, Stores, NEW r \in Request, TakeRows(r)
    PROVE  Stores'
<1> DEFINE q == request[r]
<1>1. PICK l : l = q.location
  OBVIOUS
<1>2. PICK todo : todo = q.todo \ {"tree"} /\ Removing(r, todo, q.users)
  BY RemovalGoes
<1>3. /\ q.pc = "remove" /\ l \in Location /\ UNCHANGED <<record, removed, overlapped>>
      /\ T!RemoveSubTree(l)
  BY <1>1, Fields DEF TakeRows
<1>4. /\ OnlyRequest(r, {l})
      /\ \/ request'[r] = Idle /\ todo = {}
         \/ /\ request'[r].pc = "remove" /\ request'[r].location = l
            /\ request'[r].todo = todo
  BY <1>1, <1>2, RemovalAlone DEF Bookkeeping
<1>5. ASSUME Calm'
      PROVE  /\ RowsKnown' /\ Upward' /\ Undisturbed({l})
             /\ \A x \in Location : x \in {l} /\ Exists(x)' => Agree(x)' \/ Awaits(request'[r], x)
             /\ Stands(request[r])'
  <2>1. /\ Calm /\ RowsKnown /\ Upward /\ Childless(l)
        /\ "record" \in q.todo <=> Exists(l)
    BY <1>1, <1>3, <1>5 DEF Calm, Stores, Stands, Bookkeeping, Holds
  <2>2. /\ \A a, b \in Location :
             /\ Row(a, b)' <=> Row(a, b) /\ ~Row(l, b)
             /\ a \in TreeParents(b)' <=> a \in TreeParents(b) /\ ~Row(l, b)
        /\ \A x : Exists(x)' <=> Exists(x)
        /\ Existing' = Existing
    BY <1>3, RemoveFacts DEF Exists, Existing
  <2>3. RowsKnown' /\ Upward'
    BY <1>3, <2>1, <2>2 DEF RowsKnown, Upward
  <2>4. \A x \in Location : /\ Bare(x) => Bare(x)'
                            /\ Childless(x) => Childless(x)'
    BY <2>2 DEF Bare, Childless
  <2>5. ASSUME NEW x \in Location, x # l, Exists(x), Agree(x)
        PROVE  Agree(x)'
    <3>1. ~Row(l, x)
      BY <2>1, <2>5 DEF Childless
    <3>2. TreeParents(x)' = TreeParents(x)
      BY <2>2, <3>1 DEF TreeParents
    <3> QED
      BY <1>3, <2>5, <3>2 DEF Agree
  <2>6. Undisturbed({l})
    BY <1>3, <2>2, <2>4, <2>5 DEF Undisturbed
  <2>7. Exists(l) => Awaits(request'[r], l)
    BY <1>2, <1>4, <2>1 DEF Awaits
  <2>8. Stands(request[r])'
    <3>1. Childless(l)'
      BY <1>3, <2>1, <2>4
    <3>2. CASE request'[r] = Idle
      BY <3>2 DEF Stands, Idle
    <3>3. CASE request'[r].pc = "remove" /\ request'[r].location = l
      BY <3>1, <3>3 DEF Stands, Childless, Row, Exists, Existing
    <3> QED
      BY <1>4, <3>2, <3>3
  <2> QED
    BY <2>2, <2>3, <2>6, <2>7, <2>8
<1> QED
  BY <1>4, <1>5, StoresKept

LEMMA NextStores == TypeOK /\ P!Stepwise(tree) /\ Bookkeeping /\ Stores /\ [Next]_vars => Stores'
<1> SUFFICES ASSUME TypeOK, P!Stepwise(tree), Bookkeeping, Stores, [Next]_vars PROVE Stores'
  OBVIOUS
<1>0. TypeOK' /\ OneUser
  BY NextType DEF Bookkeeping
<1>1. ASSUME NEW r \in Request, NEW state, NEW W, Start(r, state, W), Uses(state) \subseteq W,
             state.pc \notin {"grant", "link", "remove"}, UNCHANGED <<record, removed, tree>>
      PROVE  Stores'
  <2>1. OnlyRequest(r, W) /\ request'[r] = state /\ request[r].pc = "idle"
    BY <1>1, StartAlone
  <2> QED
    BY <1>1, <2>1, QuietStores, OtherPhases
<1>2. ASSUME NEW r \in Request, NEW state, Become(r, state), Uses(state) \subseteq Uses(request[r]),
             request[r].pc \notin {"grant", "link", "remove"}, state.pc \notin {"grant", "link", "remove"},
             UNCHANGED <<record, removed, tree, overlapped>>
      PROVE  Stores'
  <2>1. OnlyRequest(r, Uses(request[r])) /\ request'[r] = state
    BY <1>0, <1>2, GoesAlone
  <2> QED
    BY <1>2, <2>1, QuietStores, OtherPhases
<1>3. ASSUME NEW r \in Request, NEW u \in User,
             \/ \E granted \in Grants : UpdateAccountUserRole(r, u, granted)
             \/ \E l \in Location : RemoveLocationUserRole(r, u, l)
      PROVE  Stores'
  BY <1>1, <1>3, IdleUses DEF UpdateAccountUserRole, RemoveLocationUserRole
<1>4. ASSUME NEW r \in Request, NEW u \in User, NEW l \in Location, NEW granted \in Grants,
             AddLocationUserRole(r, u, l, granted)
      PROVE  Stores'
  <2> DEFINE state == [pc |-> "put", location |-> l, user |-> u, roles |-> granted]
  <2>1. Start(r, state, {l}) /\ UNCHANGED <<record, removed, tree>>
    BY <1>4 DEF AddLocationUserRole
  <2>2. state.pc = "put" /\ Uses(state) = {l}
    BY UsesOf
  <2> HIDE DEF state
  <2> QED
    BY <1>1, <2>1, <2>2
<1>5. ASSUME NEW r \in Request, NEW u \in User, NEW l \in Location, HasAccess(r, u, l)
      PROVE  Stores'
  <2> DEFINE state == [pc |-> "walk", user |-> u, location |-> l, page |-> 1,
                       first |-> ByUserIdWithChildren(u), last |-> ByUserIdWithChildren(u),
                       shrunk |-> FALSE, answer |-> FALSE]
  <2>1. Start(r, state, {}) /\ UNCHANGED <<record, removed, tree>>
    BY <1>5 DEF HasAccess
  <2>2. state.pc = "walk"
    OBVIOUS
  <2> HIDE DEF state
  <2>3. Uses(state) = {}
    BY <2>2, UsesOf
  <2> QED
    BY <1>1, <2>1, <2>2, <2>3
<1>6. ASSUME NEW r \in Request, PutRole(r) \/ Forget(r)
      PROVE  Stores'
  <2>1. request[r].pc \in {"put", "told"} /\ Become(r, Idle) /\ UNCHANGED <<record, removed, tree, overlapped>>
    BY <1>6 DEF PutRole, Forget
  <2> QED
    BY <1>2, <2>1, IdleUses
<1>7. ASSUME NEW r \in Request, ReadPage(r)
      PROVE  Stores'
  <2>1. request[r].pc = "walk" /\ UNCHANGED <<record, removed, tree, overlapped>>
    BY <1>7 DEF ReadPage
  <2>2. PICK state : Become(r, state) /\ state.pc \in {"walk", "told"}
    BY <1>7, ReadPageGoes
  <2>3. Uses(state) = {}
    BY <2>2, UsesOf
  <2> QED
    BY <1>2, <2>1, <2>2, <2>3
<1>8. ASSUME NEW r \in Request, NEW l \in Location, NEW parent \in Location \cup {NoParent},
             \/ Move(r, l, parent)
             \/ \E creator \in User : CreateLocation(r, l, parent, creator)
      PROVE  Stores'
  BY <1>0, <1>8, MoveStores, CreateStores
<1>9. ASSUME NEW r \in Request, NEW l \in Location, RemoveLocation(r, l)
      PROVE  Stores'
  BY <1>9, RemoveLocationStores
<1>10. ASSUME NEW r \in Request, NEW u \in User, ReadUsers(r) \/ TakeRole(r, u)
       PROVE  Stores'
  BY <1>10, RemovalReadsStores
<1>11. ASSUME NEW r \in Request, GiveRoles(r) \/ Link(r) \/ TakeRecord(r) \/ TakeRows(r)
       PROVE  Stores'
  BY <1>0, <1>11, GiveRolesStores, LinkStores, TakeRecordStores, TakeRowsStores
<1>12. CASE UNCHANGED vars
  BY <1>12 DEF vars, Stores, Calm, RowsKnown, Upward, Agreement, Agree, TreeParents, Row, Stands, Bare,
               Childless, Exists, Existing
<1> QED
  BY <1>3, <1>4, <1>5, <1>6, <1>7, <1>8, <1>9, <1>10, <1>11, <1>12, AccessAssumption DEF Next

(* When nobody is at work, a user's list of roots covers what he reaches.  *)
LEMMA RootsOfStores ==
    ASSUME TypeOK, P!Stepwise(tree), Bookkeeping, Stores
    PROVE  RootsCover
<1> SUFFICES ASSUME NEW u \in User, (AtWork \cup overlapped) \cap Location = {}
             PROVE  LET roots == ByUserIdRootOnly(u)
                    IN  /\ \A l \in ByUserIdWithChildren(u) :
                              \E p \in {l} \cup AllParents(l) : p \in roots \/ OwnParent(p)
                        /\ \A l, k \in roots : l \notin AllChildren(k)
                        /\ AccountType = "personal" => {l \in roots : record[l] = NoParent} \subseteq AccountLocations(u)
  BY DEF RootsCover
<1> DEFINE roots == ByUserIdRootOnly(u)
<1>1. Upward /\ Agreement
  BY DEF Stores, Calm
<1>2. \A l \in Existing : l \in Location /\ Agree(l)
  <2> SUFFICES ASSUME NEW l \in Existing
               PROVE  l \in Location /\ \A r \in Request : ~Awaits(request[r], l)
    BY <1>1 DEF Agreement
  <2>1. l \in Location
    BY DEF TypeOK
  <2> QED
    BY <2>1, AwaitsUses DEF AtWork
<1>3. /\ \A l \in Location : l \in Reached(u) <=> Reaches(u, l)
      /\ NoParent \notin Reached(u)
      /\ LocationsWithRole(u) \subseteq Location
  BY ReachedFacts, AccessAssumption DEF Reached, LocationsWithRole, NoParent
<1>4. \A l : l \in roots <=> Exists(l) /\ l \in LocationsWithRole(u) /\ record[l] \notin Reached(u)
  BY DEF ByUserIdRootOnly, ByUserId, Exists
<1>5. ASSUME NEW l \in ByUserIdWithChildren(u)
      PROVE  \E p \in {l} \cup AllParents(l) : p \in roots \/ OwnParent(p)
  <2> DEFINE above == {p \in LocationsWithRole(u) : p = l \/ Row(p, l)}
             heights == {Cardinality(AllParents(p)) : p \in above}
  <2>1. l \in Location /\ Exists(l) /\ Reaches(u, l)
    BY <1>2, <1>3 DEF ByUserIdWithChildren, Exists
  <2>2. above # {} /\ above \subseteq Location
    BY <1>3, <2>1 DEF Reaches
  <2>3. \A p \in Location : AllParents(p) \in SUBSET Location
    BY DEF AllParents
  <2>4. heights \in SUBSET Nat /\ heights # {}
    BY <2>2, <2>3, SetOfIds
  <2>5. PICK n \in heights : \A m \in heights : n <= m
    BY <2>4, LeastNumber
  <2>6. PICK p \in above : Cardinality(AllParents(p)) = n
    OBVIOUS
  <2>7. /\ p \in Location /\ p \in LocationsWithRole(u) /\ (p = l \/ Row(p, l))
        /\ \A q \in above : Cardinality(AllParents(p)) <= Cardinality(AllParents(q))
    BY <2>2, <2>5, <2>6
  <2>8. Exists(p) /\ Agree(p)
    BY <1>1, <1>2, <2>1, <2>7 DEF Upward, Exists
  <2>9. record[p] = p \/ record[p] \notin Reached(u)
    <3> SUFFICES ASSUME record[p] # p, record[p] \in Reached(u)
                 PROVE  FALSE
      OBVIOUS
    <3>1. record[p] \in Location /\ record[p] \in TreeParents(p)
      BY <1>3, <2>8 DEF Agree, TypeOK, Exists
    <3>2. PICK q \in LocationsWithRole(u) : q = record[p] \/ Row(q, record[p])
      BY <1>3, <3>1 DEF Reaches
    <3>3. q \in Location /\ Row(q, p) /\ q # p
      BY <1>3, <2>7, <3>1, <3>2, TreeFacts
    <3>4. q \in above
      BY <2>1, <2>7, <3>3, TreeFacts
    <3>5. AllParents(q) \in SUBSET AllParents(p) /\ q \in AllParents(p) /\ q \notin AllParents(q)
      BY <2>7, <3>3, Reads, TreeFacts
    <3>6. AllParents(p) \in SUBSET Location /\ AllParents(q) \in SUBSET Location
      BY <2>3, <2>7, <3>3
    <3>7. IsFiniteSet(AllParents(p)) /\ Cardinality(AllParents(p)) \in Nat /\ Cardinality(AllParents(q)) \in Nat
      BY <3>6, SetOfIds
    <3>8. /\ Cardinality(AllParents(q)) <= Cardinality(AllParents(p))
          /\ Cardinality(AllParents(p)) = Cardinality(AllParents(q)) => AllParents(p) = AllParents(q)
      BY <3>5, <3>7, FS_Subset
    <3>9. Cardinality(AllParents(p)) <= Cardinality(AllParents(q))
      BY <2>7, <3>4
    <3> QED
      BY <3>5, <3>7, <3>8, <3>9
  <2>10. p \in roots \/ OwnParent(p)
    BY <1>4, <2>7, <2>8, <2>9 DEF OwnParent
  <2> QED
    BY <2>1, <2>7, <2>10, Reads
<1>6. ASSUME NEW l \in roots, NEW k \in roots, l \in AllChildren(k)
      PROVE  FALSE
  <2>1. /\ l \in Location /\ k \in Location /\ Agree(l)
        /\ {l, k} \subseteq LocationsWithRole(u) /\ record[l] \notin Reached(u)
    BY <1>2, <1>4, <1>6 DEF Exists
  <2>2. Row(k, l) /\ l # k
    BY <1>6, <2>1, Reads
  <2>3. PICK b \in TreeParents(l) : Row(k, b)
    BY <2>1, <2>2, TreeFacts
  <2>4. record[l] # l
    BY <1>3, <2>1 DEF Reaches
  <2>5. b \in Location /\ b = record[l]
    BY <2>1, <2>3, <2>4 DEF Agree, TreeParents
  <2> QED
    BY <1>3, <2>1, <2>3, <2>5 DEF Reaches
<1>7. AccountType = "personal" => {l \in roots : record[l] = NoParent} \subseteq AccountLocations(u)
  <2>1. \A l \in roots : l \in Existing
    BY <1>4 DEF Exists
  <2> QED
    BY <2>1 DEF AccountLocations
<1> QED
  BY <1>5, <1>6, <1>7

-----------------------------------------------------------------------------
(* The hierarchies that a run starts from.  A record without cycles has    *)
(* the rows that linking its locations one after the other leaves: what is *)
(* above a location is its parent and what is above that.                  *)

Upper(rec, l) == Ancestors(rec)[l]

LEMMA ParentOf ==
    ASSUME NEW rec, NEW existing \in SUBSET Location, rec \in [existing -> existing \cup {NoParent}],
           NEW l \in Location
    PROVE  /\ Above(rec, l) \in SUBSET Location
           /\ \A p \in Above(rec, l) : l \in existing /\ p \in existing /\ p = rec[l]
           /\ Above(rec, l) = IF l \in existing /\ rec[l] # NoParent THEN {rec[l]} ELSE {}
  BY DEF Above

LEMMA UpperFacts ==
    ASSUME NEW rec, NEW existing \in SUBSET Location, rec \in [existing -> existing \cup {NoParent}],
           NEW l \in Location
    PROVE  /\ Upper(rec, l) \in SUBSET Location
           /\ Above(rec, l) \subseteq Upper(rec, l)
           /\ ClosedUpwards(rec, Upper(rec, l))
           /\ \A S \in SUBSET Location : Above(rec, l) \subseteq S /\ ClosedUpwards(rec, S) => Upper(rec, l) \subseteq S
<1>1. Upper(rec, l) = {p \in Location : \A S \in SUBSET Location :
                          Above(rec, l) \subseteq S /\ ClosedUpwards(rec, S) => p \in S}
  BY DEF Upper, Ancestors
<1>2. Above(rec, l) \in SUBSET Location
  BY ParentOf
<1>3. \A S \in SUBSET Location : Above(rec, l) \subseteq S /\ ClosedUpwards(rec, S) => Upper(rec, l) \subseteq S
  BY <1>1
<1>4. Above(rec, l) \subseteq Upper(rec, l)
  BY <1>1, <1>2
<1>5. ClosedUpwards(rec, Upper(rec, l))
  <2> SUFFICES ASSUME NEW x \in Upper(rec, l), NEW p \in Above(rec, x)
               PROVE  p \in Upper(rec, l)
    BY DEF ClosedUpwards
  <2>1. x \in Location /\ p \in Location
    BY <1>1, ParentOf
  <2>2. \A S \in SUBSET Location : Above(rec, l) \subseteq S /\ ClosedUpwards(rec, S) => p \in S
    BY <1>1 DEF ClosedUpwards
  <2> QED
    BY <1>1, <2>1, <2>2
<1> QED
  BY <1>1, <1>3, <1>4, <1>5

(* What is above a parent is above its child, and nothing else is.         *)
LEMMA UpperOfParent ==
    ASSUME NEW rec, NEW existing \in SUBSET Location, rec \in [existing -> existing \cup {NoParent}],
           NEW l \in Location
    PROVE  /\ \A p \in Above(rec, l) : Upper(rec, l) = {p} \cup Upper(rec, p)
           /\ Above(rec, l) = {} => Upper(rec, l) = {}
           /\ Upper(rec, l) \subseteq existing
           /\ Upper(rec, l) # {} => l \in existing
<1>1. ASSUME NEW p \in Above(rec, l)
      PROVE  Upper(rec, l) = {p} \cup Upper(rec, p)
  <2>1. p \in Location /\ Above(rec, l) = {p}
    BY ParentOf
  <2>2. /\ Upper(rec, p) \in SUBSET Location /\ ClosedUpwards(rec, Upper(rec, p)) /\ Above(rec, p) \subseteq Upper(rec, p)
    BY <2>1, UpperFacts
  <2>3. ClosedUpwards(rec, {p} \cup Upper(rec, p))
    BY <2>2 DEF ClosedUpwards
  <2>4. Upper(rec, l) \subseteq {p} \cup Upper(rec, p)
    BY <2>1, <2>2, <2>3, UpperFacts
  <2>5. p \in Upper(rec, l) /\ ClosedUpwards(rec, Upper(rec, l)) /\ Upper(rec, l) \in SUBSET Location
    BY <2>1, UpperFacts
  <2>6. Above(rec, p) \subseteq Upper(rec, l)
    BY <2>5 DEF ClosedUpwards
  <2>7. Upper(rec, p) \subseteq Upper(rec, l)
    BY <2>1, <2>5, <2>6, UpperFacts
  <2> QED
    BY <2>4, <2>5, <2>7
<1>2. ASSUME Above(rec, l) = {}
      PROVE  Upper(rec, l) = {}
  <2>1. ClosedUpwards(rec, {})
    BY DEF ClosedUpwards
  <2> QED
    BY <1>2, <2>1, UpperFacts
<1>3. Upper(rec, l) \subseteq existing
  <2>1. ClosedUpwards(rec, existing)
    BY ParentOf DEF ClosedUpwards
  <2>2. Above(rec, l) \subseteq existing
    BY ParentOf
  <2> QED
    BY <2>1, <2>2, UpperFacts
<1>4. Upper(rec, l) # {} => l \in existing
  BY <1>2, ParentOf
<1> QED
  BY <1>1, <1>2, <1>3, <1>4

(* Above what is above a location is above it.                             *)
LEMMA UpperIsTransitive ==
    ASSUME NEW rec, NEW existing \in SUBSET Location, rec \in [existing -> existing \cup {NoParent}],
           NEW l \in Location, NEW b \in Upper(rec, l)
    PROVE  Upper(rec, b) \subseteq Upper(rec, l)
<1>1. b \in Location /\ ClosedUpwards(rec, Upper(rec, l)) /\ Upper(rec, l) \in SUBSET Location
  BY UpperFacts
<1>2. Above(rec, b) \subseteq Upper(rec, l)
  BY <1>1 DEF ClosedUpwards
<1> QED
  BY <1>1, <1>2, UpperFacts

(* On the way up to a there is a location whose parent is a.               *)
LEMMA FirstLink ==
    ASSUME NEW rec, NEW existing \in SUBSET Location, rec \in [existing -> existing \cup {NoParent}],
           NEW l \in Location, NEW a \in Upper(rec, l)
    PROVE  \E b \in {l} \cup Upper(rec, l) : a \in Above(rec, b)
<1> SUFFICES ASSUME \A b \in {l} \cup Upper(rec, l) : a \notin Above(rec, b)
             PROVE  FALSE
  OBVIOUS
<1>1. /\ Upper(rec, l) \in SUBSET Location /\ Above(rec, l) \subseteq Upper(rec, l)
      /\ ClosedUpwards(rec, Upper(rec, l))
  BY UpperFacts
<1> DEFINE S == Upper(rec, l) \ {a}
<1>2. S \in SUBSET Location /\ Above(rec, l) \subseteq S /\ ClosedUpwards(rec, S)
  BY <1>1 DEF ClosedUpwards
<1>3. Upper(rec, l) \subseteq S
  BY <1>2, UpperFacts
<1> QED
  BY <1>3

Height(rec, l) == Cardinality(Upper(rec, l))
InTree(rec, l) == Upper(rec, l) # {} \/ \E c \in Location : l \in Upper(rec, c)

NoCycle(rec, existing) ==
    rec \in [existing -> existing \cup {NoParent}] /\ \A l \in existing : l \notin Upper(rec, l)

LEMMA RowsAre ==
    ASSUME NEW rec
    PROVE  /\ DOMAIN RowsOf(rec) \subseteq Location \X Location
           /\ \A a, b \in Location : <<a, b>> \in DOMAIN RowsOf(rec) <=>
                  a \in Upper(rec, b) \/ (a = b /\ InTree(rec, a))
           /\ \A a, b \in Location : <<a, b>> \in DOMAIN RowsOf(rec) =>
                  RowsOf(rec)[<<a, b>>] = IF a = b THEN 0 ELSE Height(rec, b) - Height(rec, a)
<1> DEFINE above == Ancestors(rec)
           linked == {l \in Location : above[l] # {} \/ \E c \in Location : l \in above[c]}
           pairs == {k \in Location \X Location : k[1] \in above[k[2]]} \cup {<<l, l>> : l \in linked}
<1>1. RowsOf(rec) = [k \in pairs |-> IF k[1] = k[2] THEN 0
                                     ELSE Cardinality(above[k[2]]) - Cardinality(above[k[1]])]
  BY DEF RowsOf
<1>2. \A l : above[l] = Upper(rec, l)
  BY DEF Upper
<1> HIDE DEF above
<1>3. \A l : l \in linked <=> l \in Location /\ InTree(rec, l)
  BY <1>2 DEF InTree
<1> HIDE DEF linked
<1>4. \A a, b \in Location : <<a, b>> \in pairs <=> a \in Upper(rec, b) \/ (a = b /\ InTree(rec, a))
  BY <1>2, <1>3
<1>5. pairs \subseteq Location \X Location
  BY <1>3
<1> HIDE DEF pairs
<1> QED
  BY <1>1, <1>2, <1>4, <1>5 DEF Height

LEMMA Heights ==
    ASSUME NEW rec, NEW existing \in SUBSET Location, NoCycle(rec, existing)
    PROVE  /\ \A l \in Location : Height(rec, l) \in Nat /\ l \notin Upper(rec, l) /\ Upper(rec, l) \subseteq existing
           /\ \A l \in Location : Upper(rec, l) # {} => l \in existing
           /\ \A b, c \in Location : b \in Upper(rec, c) =>
                /\ Upper(rec, b) \subseteq Upper(rec, c)
                /\ Height(rec, b) < Height(rec, c)
           /\ \A b, c \in Location : b \in Above(rec, c) =>
                /\ Upper(rec, c) = {b} \cup Upper(rec, b)
                /\ Height(rec, c) = Height(rec, b) + 1
<1>1. rec \in [existing -> existing \cup {NoParent}] /\ \A l \in existing : l \notin Upper(rec, l)
  BY DEF NoCycle
<1>2. ASSUME NEW l \in Location
      PROVE  /\ Upper(rec, l) \in SUBSET Location /\ IsFiniteSet(Upper(rec, l)) /\ Height(rec, l) \in Nat
             /\ l \notin Upper(rec, l)
             /\ Upper(rec, l) \subseteq existing
             /\ Upper(rec, l) # {} => l \in existing
             /\ \A p \in Above(rec, l) : Upper(rec, l) = {p} \cup Upper(rec, p)
  <2>1. Upper(rec, l) \in SUBSET Location
    BY <1>1, UpperFacts
  <2>2. /\ Upper(rec, l) \subseteq existing
        /\ Upper(rec, l) # {} => l \in existing
        /\ \A p \in Above(rec, l) : Upper(rec, l) = {p} \cup Upper(rec, p)
    BY <1>1, UpperOfParent
  <2> QED
    BY <1>1, <2>1, <2>2, SetOfIds DEF Height
<1>3. ASSUME NEW b \in Location, NEW c \in Location, b \in Upper(rec, c)
      PROVE  /\ Upper(rec, b) \subseteq Upper(rec, c)
             /\ Height(rec, b) < Height(rec, c)
  <2>1. Upper(rec, b) \in SUBSET Upper(rec, c)
    BY <1>1, <1>3, UpperIsTransitive
  <2>2. /\ Cardinality(Upper(rec, b)) <= Cardinality(Upper(rec, c))
        /\ Cardinality(Upper(rec, c)) = Cardinality(Upper(rec, b)) => Upper(rec, c) = Upper(rec, b)
    BY <1>2, <2>1, FS_Subset
  <2>3. Upper(rec, c) # Upper(rec, b)
    BY <1>2, <1>3
  <2>4. Height(rec, b) \in Nat /\ Height(rec, c) \in Nat
    BY <1>2
  <2> QED
    BY <2>1, <2>2, <2>3, <2>4 DEF Height
<1>4. ASSUME NEW b \in Location, NEW c \in Location, b \in Above(rec, c)
      PROVE  /\ Upper(rec, c) = {b} \cup Upper(rec, b)
             /\ Height(rec, c) = Height(rec, b) + 1
  <2>1. Upper(rec, c) = Upper(rec, b) \cup {b} /\ b \notin Upper(rec, b) /\ IsFiniteSet(Upper(rec, b))
    BY <1>2, <1>4
  <2> QED
    BY <2>1, FS_AddElement DEF Height
<1> QED
  BY <1>2, <1>3, <1>4

LEMMA RowsAreHierarchy ==
    ASSUME NEW rec, NEW existing \in SUBSET Location, NoCycle(rec, existing)
    PROVE  P!IsHierarchy(RowsOf(rec))
<1> DEFINE t == RowsOf(rec)
           up(l) == Upper(rec, l)
           h(l) == Height(rec, l)
           has(a, b) == <<a, b>> \in DOMAIN t
<1>1. /\ DOMAIN t \subseteq Location \X Location
      /\ \A a, b \in Location : has(a, b) <=> a \in up(b) \/ (a = b /\ InTree(rec, a))
      /\ \A a, b \in Location : has(a, b) => t[<<a, b>>] = IF a = b THEN 0 ELSE h(b) - h(a)
  BY RowsAre
<1>2. /\ \A l \in Location : h(l) \in Nat /\ l \notin up(l)
      /\ \A b, c \in Location : b \in up(c) => up(b) \subseteq up(c) /\ h(b) < h(c)
  BY Heights
<1>3. \A a, b \in Location : a \in up(b) => InTree(rec, a) /\ InTree(rec, b)
  BY DEF InTree
<1>4. \A k \in DOMAIN t : k[1] \in Location /\ k[2] \in Location /\ k = <<k[1], k[2]>>
  BY <1>1
<1>5. t = [k \in DOMAIN t |-> t[k]]
  BY DEF RowsOf
<1> HIDE DEF t, up, h
<1>6. \A a, b \in Location : has(a, b) => /\ t[<<a, b>>] \in Nat
                                          /\ t[<<a, b>>] = 0 <=> a = b
                                          /\ has(a, a) /\ has(b, b)
                                          /\ a = b \/ a \in up(b)
  <2> SUFFICES ASSUME NEW a \in Location, NEW b \in Location, has(a, b)
               PROVE  /\ t[<<a, b>>] \in Nat
                      /\ t[<<a, b>>] = 0 <=> a = b
                      /\ has(a, a) /\ has(b, b)
                      /\ a = b \/ a \in up(b)
    OBVIOUS
  <2>1. CASE a = b
    BY <1>1, <2>1
  <2>2. CASE a # b
    <3>1. a \in up(b) /\ t[<<a, b>>] = h(b) - h(a) /\ h(a) \in Nat /\ h(b) \in Nat /\ h(a) < h(b)
      BY <1>1, <1>2, <2>2
    <3>2. has(a, a) /\ has(b, b)
      BY <1>1, <1>3, <3>1
    <3> QED
      BY <2>2, <3>1, <3>2
  <2> QED
    BY <2>1, <2>2
<1>7. P!IsTable(t)
  <2>1. \A k \in DOMAIN t : t[k] \in Nat
    <3> SUFFICES ASSUME NEW k \in DOMAIN t
                 PROVE  t[k] \in Nat
      OBVIOUS
    <3>1. PICK a \in Location, b \in Location : a = k[1] /\ b = k[2] /\ k = <<a, b>>
      BY <1>4
    <3>2. has(a, b)
      BY <3>1
    <3>3. t[<<a, b>>] \in Nat
      BY <1>6, <3>2
    <3> QED
      BY <3>1, <3>3
  <2> QED
    BY <1>1, <1>5, <2>1 DEF P!IsTable
<1>8. P!IsReflexive(t)
  BY <1>4, <1>6 DEF P!IsReflexive
<1>9. \A a, b, c \in Location : has(a, b) /\ has(b, c) => has(a, c)
  BY <1>1, <1>2, <1>6
<1>10. \A a, b \in Location : has(a, b) /\ has(b, a) => a = b
  BY <1>2, <1>6
<1>11. \A a, b, c \in Location : has(a, b) /\ has(b, c) => t[<<a, c>>] = t[<<a, b>>] + t[<<b, c>>]
  <2> SUFFICES ASSUME NEW a \in Location, NEW b \in Location, NEW c \in Location, has(a, b), has(b, c)
               PROVE  t[<<a, c>>] = t[<<a, b>>] + t[<<b, c>>]
    OBVIOUS
  <2>1. /\ t[<<a, b>>] = IF a = b THEN 0 ELSE h(b) - h(a)
        /\ t[<<b, c>>] = IF b = c THEN 0 ELSE h(c) - h(b)
        /\ t[<<a, c>>] = IF a = c THEN 0 ELSE h(c) - h(a)
    BY <1>1, <1>9
  <2>2. h(a) \in Nat /\ h(b) \in Nat /\ h(c) \in Nat
    BY <1>2
  <2>3. a = c => a = b
    BY <1>10
  <2> QED
    BY <2>1, <2>2, <2>3
<1>12. P!IsTransitive(t) /\ P!IsAcyclic(t) /\ P!IsDistance(t)
  <2>1. \A k \in DOMAIN t : t[k] = 0 <=> k[1] = k[2]
    <3> SUFFICES ASSUME NEW k \in DOMAIN t
                 PROVE  t[k] = 0 <=> k[1] = k[2]
      OBVIOUS
    <3>1. PICK a \in Location, b \in Location : a = k[1] /\ b = k[2] /\ k = <<a, b>>
      BY <1>4
    <3>2. has(a, b)
      BY <3>1
    <3>3. t[<<a, b>>] = 0 <=> a = b
      BY <1>6, <3>2
    <3> QED
      BY <3>1, <3>3
  <2> QED
    BY <1>9, <1>10, <1>11, <2>1 DEF P!IsTransitive, P!IsAcyclic, P!IsDistance
<1>13. P!IsHierarchy(t)
  BY <1>7, <1>8, <1>12 DEF P!IsHierarchy, P!IsClosure
<1> QED
  BY <1>13 DEF t

LEMMA RowsAreStepwise ==
    ASSUME NEW rec, NEW existing \in SUBSET Location, NoCycle(rec, existing)
    PROVE  /\ P!Stepwise(RowsOf(rec))
           /\ \A a, b \in Location : P!Link(RowsOf(rec), a, b) <=> a \in Above(rec, b)
           /\ \A a, b \in Location : <<a, b>> \in DOMAIN RowsOf(rec) => a \in existing /\ b \in existing
<1> DEFINE t == RowsOf(rec)
           up(l) == Upper(rec, l)
           h(l) == Height(rec, l)
           has(a, b) == <<a, b>> \in DOMAIN t
<1>1. /\ \A a, b \in Location : has(a, b) <=> a \in up(b) \/ (a = b /\ InTree(rec, a))
      /\ \A a, b \in Location : has(a, b) => t[<<a, b>>] = IF a = b THEN 0 ELSE h(b) - h(a)
  BY RowsAre
<1>2. /\ \A l \in Location : h(l) \in Nat /\ l \notin up(l) /\ up(l) \subseteq existing
      /\ \A l \in Location : up(l) # {} => l \in existing
      /\ \A b, c \in Location : b \in up(c) => up(b) \subseteq up(c) /\ h(b) < h(c)
      /\ \A b, c \in Location : b \in Above(rec, c) => up(c) = {b} \cup up(b) /\ h(c) = h(b) + 1
  BY Heights
<1>3. rec \in [existing -> existing \cup {NoParent}]
  BY DEF NoCycle
<1>4. \A l \in Location : /\ Above(rec, l) \in SUBSET Location
                          /\ Above(rec, l) = {} => up(l) = {}
                          /\ \A a \in up(l) : \E b \in {l} \cup up(l) : a \in Above(rec, b)
                          /\ up(l) \in SUBSET Location
  BY <1>3, ParentOf, UpperOfParent, FirstLink, UpperFacts
<1>5. \A a, b \in Location : a \in up(b) => InTree(rec, a) /\ InTree(rec, b)
  BY DEF InTree
<1>6. \A a, b \in Location : has(a, b) => a \in existing /\ b \in existing
  BY <1>1, <1>2 DEF InTree
<1> HIDE DEF t, up, h
<1>7. \A a, b \in Location : P!Link(t, a, b) <=> a \in Above(rec, b)
  <2> SUFFICES ASSUME NEW a \in Location, NEW b \in Location
               PROVE  P!Link(t, a, b) <=> a \in Above(rec, b)
    OBVIOUS
  <2>1. ASSUME a \in Above(rec, b)
        PROVE  P!Link(t, a, b)
    <3>1. a \in up(b) /\ a # b /\ h(b) = h(a) + 1 /\ h(a) \in Nat /\ h(b) \in Nat
      BY <1>2, <2>1
    <3>2. has(a, b) /\ t[<<a, b>>] = 1
      BY <1>1, <3>1
    <3> QED
      BY <3>2 DEF P!Link
  <2>2. ASSUME P!Link(t, a, b)
        PROVE  a \in Above(rec, b)
    <3>1. has(a, b) /\ t[<<a, b>>] = 1
      BY <2>2 DEF P!Link
    <3>2. a # b /\ a \in up(b) /\ h(b) - h(a) = 1
      BY <1>1, <3>1
    <3>3. PICK p \in Above(rec, b) : up(b) = {p} \cup up(p) /\ h(b) = h(p) + 1
      BY <1>2, <1>4, <3>2
    <3>4. p \in Location /\ h(a) \in Nat /\ h(b) \in Nat /\ h(p) \in Nat
      BY <1>2, <1>4
    <3>5. ~(h(a) < h(p))
      BY <3>2, <3>3, <3>4
    <3>6. a = p
      BY <1>2, <3>2, <3>3, <3>4, <3>5
    <3> QED
      BY <3>6
  <2> QED
    BY <2>1, <2>2
<1>8. P!IsStepwise(t)
  <2> SUFFICES ASSUME NEW a \in Location, NEW c \in Location, has(a, c), a # c
               PROVE  /\ \E b \in Location : P!Link(t, a, b) /\ has(b, c)
                      /\ \E b \in Location : has(a, b) /\ P!Link(t, b, c)
    BY DEF P!IsStepwise
  <2>1. a \in up(c) /\ InTree(rec, a) /\ InTree(rec, c)
    BY <1>1, <1>5
  <2>2. PICK b \in {c} \cup up(c) : a \in Above(rec, b)
    BY <1>4, <2>1
  <2>3. b \in Location /\ has(b, c) /\ P!Link(t, a, b)
    BY <1>1, <1>4, <1>7, <2>1, <2>2
  <2>4. PICK p \in Above(rec, c) : up(c) = {p} \cup up(p)
    BY <1>2, <1>4, <2>1
  <2>5. p \in Location /\ has(a, p) /\ P!Link(t, p, c)
    BY <1>1, <1>4, <1>7, <2>1, <2>4
  <2> QED
    BY <2>3, <2>5
<1>9. P!Stepwise(t)
  BY <1>8, RowsAreHierarchy DEF P!Stepwise, t
<1> QED
  BY <1>6, <1>7, <1>9 DEF t

LEMMA InitHolds == Init => TypeOK /\ P!Stepwise(tree) /\ Bookkeeping /\ Walks /\ Stores
<1> SUFFICES ASSUME Init PROVE TypeOK /\ P!Stepwise(tree) /\ Bookkeeping /\ Walks /\ Stores
  OBVIOUS
<1>1. PICK existing \in SUBSET Location :
          record \in {rec \in [existing -> existing \cup {NoParent}] :
                        \A l \in existing : l \notin Ancestors(rec)[l]}
  BY DEF Init
<1>2. Existing = existing /\ NoCycle(record, existing) /\ record \in [existing -> existing \cup {NoParent}]
  BY <1>1 DEF NoCycle, Upper, Existing
<1>3. /\ removed = {} /\ tree = RowsOf(record) /\ overlapped = {}
      /\ request = [r \in Request |-> Idle]
      /\ accountRole = [u \in User |-> IF u = Owner THEN {"owner"} ELSE {"readonly"}]
  BY DEF Init
<1>4. PICK start \in [User \ {Owner} -> Existing \cup {NoParent}] :
          roles = [k \in User \X Location |->
                     IF k[1] = Owner THEN IF Exists(k[2]) THEN {"owner"} ELSE {}
                     ELSE IF start[k[1]] = k[2] THEN {"readonly"} ELSE {}]
  BY DEF Init
<1>5. TypeOK
  <2>1. roles \in [User \X Location -> SUBSET Role]
    BY <1>4 DEF Role
  <2>2. accountRole \in [User -> (SUBSET Role) \ {{}}] /\ accountRole[Owner] = {"owner"}
    BY <1>3, AccessAssumption DEF Role
  <2>3. request \in [Request -> RequestType]
    BY <1>3, IdleType
  <2>4. record \in [Existing -> Location \cup {NoParent}] /\ Existing \subseteq Location
    BY <1>2
  <2> QED
    BY <1>3, <2>1, <2>2, <2>3, <2>4 DEF TypeOK
<1>6. P!Stepwise(tree)
  BY <1>2, <1>3, RowsAreStepwise
<1>7. \A r \in Request : request[r] = Idle
  BY <1>3
<1>8. Bookkeeping
  <2>1. RolesKnown
    <3> SUFFICES ASSUME NEW u \in User, NEW l \in Location, roles[<<u, l>>] # {}
                 PROVE  l \in Existing
      BY DEF RolesKnown
    <3>1. CASE u = Owner
      BY <1>4, <3>1 DEF Exists
    <3>2. CASE u # Owner
      <4>1. start[u] = l /\ start[u] \in Existing \cup {NoParent}
        BY <1>4, <3>2
      <4> QED
        BY <4>1, AccessAssumption DEF NoParent
    <3> QED
      BY <3>1, <3>2
  <2>2. UsesKnown /\ OneUser
    BY <1>7, IdleUses DEF UsesKnown, OneUser
  <2>3. \A r \in Request : Holds(request[r])
    BY <1>7 DEF Holds, Idle
  <2> QED
    BY <1>3, <2>1, <2>2, <2>3 DEF Bookkeeping, GoneAreClean
<1>9. Walks
  BY <1>7, IdleIsNotWalking DEF Walks
<1>10. Stores
  <2>1. /\ \A a, b \in Location : P!Link(tree, a, b) <=> a \in Above(record, b)
        /\ \A a, b \in Location : Row(a, b) => a \in Existing /\ b \in Existing
    BY <1>2, <1>3, RowsAreStepwise DEF Row
  <2>2. RowsKnown /\ Upward
    BY <2>1 DEF RowsKnown, Upward, Exists
  <2>3. Agreement
    <3> SUFFICES ASSUME NEW l \in Existing
                 PROVE  TreeParents(l) = {record[l]} \ {NoParent}
      BY DEF Agreement, Agree
    <3>1. l \in Location /\ Above(record, l) = {record[l]} \ {NoParent}
      BY <1>2 DEF Above, Existing
    <3>2. Above(record, l) \in SUBSET Location
      BY <1>2, <3>1, ParentOf
    <3>3. \A a \in Location : a \in TreeParents(l) <=> P!Link(tree, a, l)
      BY DEF TreeParents, Row, P!Link
    <3>4. TreeParents(l) \subseteq Location
      BY DEF TreeParents
    <3> QED
      BY <2>1, <3>1, <3>2, <3>3, <3>4
  <2>4. \A r \in Request : Stands(request[r])
    BY <1>7 DEF Stands, Idle
  <2> QED
    BY <2>2, <2>3, <2>4 DEF Stores
<1> QED
  BY <1>5, <1>6, <1>8, <1>9, <1>10

-----------------------------------------------------------------------------
(* The theorems.                                                           *)

AccessInv == TypeOK /\ P!Stepwise(tree) /\ Bookkeeping /\ Walks /\ Stores

LEMMA NextKeeps == AccessInv /\ [Next]_vars => AccessInv'
  BY NextType, NextSteps, NextBooks, NextWalks, NextStores DEF AccessInv

LEMMA AccessInvariant == Spec => []AccessInv
<1>1. Init => AccessInv
  BY InitHolds DEF AccessInv
<1> QED
  BY <1>1, NextKeeps, PTL DEF Spec

(* The tables and the requests in flight stay well formed.                 *)
THEOREM TypeCorrect == Spec => []TypeOK
<1>1. AccessInv => TypeOK
  BY DEF AccessInv
<1> QED
  BY <1>1, AccessInvariant, PTL

(* For any hierarchy and any roles: down from the user's roles             *)
(* (UserResolver), up from the location (LocationResolver) and in SQL      *)
(* (LocationPgTable), the answer to who sees what is the same.             *)
THEOREM ViewsTheorem == Spec => []ViewsAgree
<1>1. AccessInv => ViewsAgree
  BY StateAgrees DEF AccessInv
<1> QED
  BY <1>1, AccessInvariant, PTL

(* For any page size and any changes between two pages: hasAccess says no  *)
(* only if the location was not in the list when it began, or something    *)
(* left the list meanwhile.                                                *)
THEOREM FoundTheorem == Spec => []AccessIsFound
<1>1. AccessInv => AccessIsFound
  BY DEF AccessInv, Walks, WalkOK, AccessIsFound
<1> QED
  BY <1>1, AccessInvariant, PTL

(* For any number of requests: no role outlives its location, unless its   *)
(* removal is still at work or met a request that used the location.       *)
THEOREM RolesTheorem == Spec => []RolesEndWithLocation
<1>1. AccessInv => RolesEndWithLocation
  <2> SUFFICES ASSUME AccessInv, NEW u \in User, NEW l \in Location, roles[<<u, l>>] # {},
                      l \notin AtWork \cup overlapped
               PROVE  Exists(l)
    BY DEF RolesEndWithLocation
  <2>1. l \in Existing \cup removed
    BY DEF AccessInv, Bookkeeping, RolesKnown
  <2>2. l \notin removed
    BY DEF AccessInv, Bookkeeping, GoneAreClean, UsersWithRole
  <2> QED
    BY <2>1, <2>2 DEF Exists
<1> QED
  BY <1>1, AccessInvariant, PTL

(* For any hierarchy and any number of requests: when nobody is at work on *)
(* a location, and no two used one at the same time, a user's list of      *)
(* roots covers what he reaches, without repeating any of it.              *)
THEOREM RootsTheorem == Spec => []RootsCover
<1>1. AccessInv => RootsCover
  BY RootsOfStores DEF AccessInv
<1> QED
  BY <1>1, AccessInvariant, PTL

-----------------------------------------------------------------------------
(* The columns.                                                            *)

LEMMA ColumnKeys ==
    ASSUME NEW k \in Kinds
    PROVE  /\ \A c \in Columns(k) : c = <<c[1], c[2], c[3]>>
           /\ \A c, d \in Columns(k) : c[1] = d[1] \/ <<c[2], c[3]>> = <<d[2], d[3]>> => c = d
<1>1. CASE k = "location"
  BY <1>1 DEF Columns, LocationColumns
<1>2. CASE k = "device"
  BY <1>2 DEF Columns, DeviceColumns
<1>3. CASE k = "user"
  BY <1>3 DEF Columns, UserColumns
<1>4. CASE k = "account"
  BY <1>4 DEF Columns, AccountColumns
<1>5. CASE k = "subscription"
  BY <1>5 DEF Columns, SubscriptionColumns
<1> QED
  BY <1>1, <1>2, <1>3, <1>4, <1>5, RecordsAssumption

(* A property has one column, and no two have the same.                    *)
LEMMA ColumnIs ==
    ASSUME NEW k \in Kinds, NEW c \in Columns(k)
    PROVE  c[1] \in Props(k) /\ ColumnOf(k, c[1]) = <<c[2], c[3]>>
<1>1. \E d \in Columns(k) : d[1] = c[1]
  OBVIOUS
<1> QED
  BY <1>1, ColumnKeys DEF Props, ColumnOf

LEMMA ColumnsDiffer ==
    ASSUME NEW k \in Kinds
    PROVE  \A p, q \in Props(k) : ColumnOf(k, p) = ColumnOf(k, q) => p = q
<1> SUFFICES ASSUME NEW p \in Props(k), NEW q \in Props(k), ColumnOf(k, p) = ColumnOf(k, q)
             PROVE  p = q
  OBVIOUS
<1>1. PICK c \in Columns(k) : c[1] = p
  BY DEF Props
<1>2. PICK d \in Columns(k) : d[1] = q
  BY DEF Props
<1>3. <<c[2], c[3]>> = <<d[2], d[3]>>
  BY <1>1, <1>2, ColumnIs
<1> QED
  BY <1>1, <1>2, <1>3, ColumnKeys

LegacyNames == {LegacyColumn[p] : p \in DOMAIN LegacyColumn}

LEMMA LocationFacts ==
    ASSUME "location" \in Kinds
    PROVE  /\ {"nickname", "address", "waterShutoffKnown", "geoLocation"} \subseteq Props("location")
           /\ ColumnOf("location", "nickname") = <<"item", "location_name">>
           /\ ColumnOf("location", "address") = <<"item", "address">>
           /\ ColumnOf("location", "waterShutoffKnown") = <<"profile", "water_shutoff_known">>
           /\ ColumnOf("location", "geoLocation") = <<"geo_positioning", "coordinates">>
           /\ \A p \in Props("location") :
                /\ ColumnOf("location", p)[1] \in {"item", "profile", "geo_positioning"}
                /\ ColumnOf("location", p)[1] = "geo_positioning" => p = "geoLocation"
                /\ ColumnOf("location", p)[1] = "item" => ColumnOf("location", p)[2] \notin LegacyNames
<1> DEFINE columns == Columns("location")
<1>1. /\ <<"nickname", "item", "location_name">> \in columns
      /\ <<"address", "item", "address">> \in columns
      /\ <<"waterShutoffKnown", "profile", "water_shutoff_known">> \in columns
      /\ <<"geoLocation", "geo_positioning", "coordinates">> \in columns
  BY DEF Columns, LocationColumns
<1>2. \A c \in columns : /\ c[2] \in {"item", "profile", "geo_positioning"}
                         /\ c[2] = "geo_positioning" => c[1] = "geoLocation"
  BY DEF Columns, LocationColumns
<1>3. LegacyNames = {"location_type", "location_size_category", "water_shutoff_known", "galvanized_plumbing",
                     "kitchen_amenities", "outdoor_amenities", "tankless"}
  BY DEF LegacyNames, LegacyColumn
<1>4. \A c \in columns : c[2] = "item" => c[3] \notin LegacyNames
  BY <1>3 DEF Columns, LocationColumns
<1> HIDE DEF columns
<1>5. \A c \in columns : c[1] \in Props("location") /\ ColumnOf("location", c[1]) = <<c[2], c[3]>>
  BY ColumnIs DEF columns
<1>6. \A p \in Props("location") : \E c \in columns : c[1] = p
  BY DEF Props, columns
<1>7. {"nickname", "address", "waterShutoffKnown", "geoLocation"} \subseteq Props("location")
  BY <1>1, <1>5
<1>8. /\ ColumnOf("location", "nickname") = <<"item", "location_name">>
      /\ ColumnOf("location", "address") = <<"item", "address">>
      /\ ColumnOf("location", "waterShutoffKnown") = <<"profile", "water_shutoff_known">>
      /\ ColumnOf("location", "geoLocation") = <<"geo_positioning", "coordinates">>
  BY <1>1, <1>5
<1>9. ASSUME NEW p \in Props("location")
      PROVE  /\ ColumnOf("location", p)[1] \in {"item", "profile", "geo_positioning"}
             /\ ColumnOf("location", p)[1] = "geo_positioning" => p = "geoLocation"
             /\ ColumnOf("location", p)[1] = "item" => ColumnOf("location", p)[2] \notin LegacyNames
  <2>1. PICK c \in columns : c[1] = p
    BY <1>6
  <2> QED
    BY <2>1, <1>2, <1>4, <1>5
<1> QED
  BY <1>7, <1>8, <1>9

(* What tells the other records from locations.                            *)
LEMMA OtherFacts ==
    ASSUME NEW k \in Kinds, k # "location", NEW p \in Props(k)
    PROVE  /\ p \notin DOMAIN LegacyColumn \cup Lists
           /\ p \notin {"areas", "waterShutoffKnown", "geoLocation", "parent"}
           /\ ColumnOf(k, p)[1] \in {"item", "stripe_provider_data"}
<1>1. DOMAIN LegacyColumn = {"locationType", "locationSize", "waterShutoffKnown", "plumbingType",
                             "indoorAmenities", "outdoorAmenities", "plumbingAppliances"}
  BY DEF LegacyColumn
<1>2. \A c \in Columns(k) : /\ c[1] \notin DOMAIN LegacyColumn \cup Lists
                            /\ c[1] \notin {"areas", "waterShutoffKnown", "geoLocation", "parent"}
                            /\ c[2] \in {"item", "stripe_provider_data"}
  <2>1. CASE k = "device"
    BY <1>1, <2>1 DEF Columns, DeviceColumns, Lists
  <2>2. CASE k = "user"
    BY <1>1, <2>2 DEF Columns, UserColumns, Lists
  <2>3. CASE k = "account"
    BY <1>1, <2>3 DEF Columns, AccountColumns, Lists
  <2>4. CASE k = "subscription"
    BY <1>1, <2>4 DEF Columns, SubscriptionColumns, Lists
  <2> QED
    BY <2>1, <2>2, <2>3, <2>4, RecordsAssumption
<1>3. PICK c \in Columns(k) : c[1] = p
  BY DEF Props
<1> QED
  BY <1>2, <1>3, ColumnIs

LEMMA KindFacts ==
    ASSUME NEW k \in Kinds
    PROVE  /\ k = "device" => "deviceType" \in Props(k) /\ ColumnOf(k, "deviceType") = <<"item", "device_type">>
           /\ k = "subscription" => /\ "status" \in Props(k)
                                    /\ ColumnOf(k, "status") = <<"stripe_provider_data", "status">>
           /\ "puckConfig" \in Props(k) => k = "device"
<1>1. k = "device" => <<"deviceType", "item", "device_type">> \in Columns(k)
  BY DEF Columns, DeviceColumns
<1>2. k = "subscription" => <<"status", "stripe_provider_data", "status">> \in Columns(k)
  BY DEF Columns, SubscriptionColumns
<1>3. k # "device" => \A c \in Columns(k) : c[1] # "puckConfig"
  <2>1. k = "location" => \A c \in Columns(k) : c[1] # "puckConfig"
    BY DEF Columns, LocationColumns
  <2>2. k = "user" => \A c \in Columns(k) : c[1] # "puckConfig"
    BY DEF Columns, UserColumns
  <2>3. k = "account" => \A c \in Columns(k) : c[1] # "puckConfig"
    BY DEF Columns, AccountColumns
  <2>4. k = "subscription" => \A c \in Columns(k) : c[1] # "puckConfig"
    BY DEF Columns, SubscriptionColumns
  <2> QED
    BY <2>1, <2>2, <2>3, <2>4, RecordsAssumption
<1> QED
  BY <1>1, <1>2, <1>3, ColumnIs DEF Props

-----------------------------------------------------------------------------
(* Patches.                                                                *)

LEMMA SetOpsAre ==
    ASSUME NEW k \in Kinds, NEW given
    PROVE  /\ SetOps(k, given) = [groups |-> SetOps(k, given).groups, at |-> SetOps(k, given).at]
           /\ \A p \in Props(k) :
                IF ValueOf(k, p, given) \in {None, NoCoordinates}
                THEN ColumnOf(k, p) \notin DOMAIN SetOps(k, given).at
                ELSE /\ ColumnOf(k, p) \in DOMAIN SetOps(k, given).at
                     /\ SetOps(k, given).at[ColumnOf(k, p)] = ValueOf(k, p, given)
           /\ \A c \in DOMAIN SetOps(k, given).at : \E p \in Props(k) : c = ColumnOf(k, p)
           /\ SetOps(k, given).groups =
                {g \in {"profile", "geo_positioning", "stripe_provider_data"} :
                    \/ g = "profile" /\ k = "location"
                    \/ g = "geo_positioning" /\ "geoLocation" \in DOMAIN given
                    \/ g = "stripe_provider_data" /\ "provider.name" \in DOMAIN given}
<1> DEFINE defined == {p \in Props(k) : ValueOf(k, p, given) \notin {None, NoCoordinates}}
           at == [c \in {ColumnOf(k, p) : p \in defined} |->
                    ValueOf(k, CHOOSE p \in defined : ColumnOf(k, p) = c, given)]
           named == [profile |-> k = "location", geo_positioning |-> "geoLocation" \in DOMAIN given,
                     stripe_provider_data |-> "provider.name" \in DOMAIN given]
<1>1. SetOps(k, given) = [groups |-> {g \in DOMAIN named : named[g]}, at |-> at]
  BY DEF SetOps
<1>2. DOMAIN named = {"profile", "geo_positioning", "stripe_provider_data"}
  OBVIOUS
<1>3. \A g \in DOMAIN named :
        named[g] <=> \/ g = "profile" /\ k = "location"
                     \/ g = "geo_positioning" /\ "geoLocation" \in DOMAIN given
                     \/ g = "stripe_provider_data" /\ "provider.name" \in DOMAIN given
  <2>1. named["profile"] <=> k = "location"
    OBVIOUS
  <2>2. named["geo_positioning"] <=> "geoLocation" \in DOMAIN given
    OBVIOUS
  <2>3. named["stripe_provider_data"] <=> "provider.name" \in DOMAIN given
    OBVIOUS
  <2> HIDE DEF named
  <2> QED
    BY <1>2, <2>1, <2>2, <2>3
<1>4. ASSUME NEW p \in defined
      PROVE  at[ColumnOf(k, p)] = ValueOf(k, p, given)
  <2>1. (CHOOSE q \in defined : ColumnOf(k, q) = ColumnOf(k, p)) = p
    BY ColumnsDiffer
  <2> QED
    BY <2>1
<1>5. ASSUME NEW p \in Props(k), p \notin defined
      PROVE  ColumnOf(k, p) \notin DOMAIN at
  BY <1>5, ColumnsDiffer
<1> HIDE DEF at, named
<1>6. SetOps(k, given).at = at /\ SetOps(k, given).groups = {g \in DOMAIN named : named[g]}
  BY <1>1
<1>7. DOMAIN at = {ColumnOf(k, p) : p \in defined}
  BY DEF at
<1>8. \A p \in Props(k) :
        IF ValueOf(k, p, given) \in {None, NoCoordinates}
        THEN ColumnOf(k, p) \notin DOMAIN at
        ELSE /\ ColumnOf(k, p) \in DOMAIN at
             /\ at[ColumnOf(k, p)] = ValueOf(k, p, given)
  BY <1>4, <1>5, <1>7
<1> QED
  BY <1>1, <1>2, <1>3, <1>6, <1>7, <1>8

(* What an update leaves in a column.                                      *)
LEMMA AppliedStored ==
    ASSUME NEW r, r = [groups |-> r.groups, at |-> r.at],
           NEW patch, NEW c
    PROVE  /\ Applied(r, patch) = [groups |-> Applied(r, patch).groups, at |-> Applied(r, patch).at]
           /\ r.groups \subseteq Applied(r, patch).groups
           /\ c \in DOMAIN patch.at => Stored(Applied(r, patch), c) = patch.at[c]
           /\ c \notin DOMAIN patch.at =>
                \/ Stored(Applied(r, patch), c) = Stored(r, c)
                \/ IsRejected(r, patch) /\ c[1] \in patch.groups /\ Stored(r, c) # None
<1>1. CASE DOMAIN patch.at = {}
  BY <1>1 DEF Applied
<1>2. CASE DOMAIN patch.at # {} /\ IsRejected(r, patch)
  <2> DEFINE kept == [d \in {e \in DOMAIN r.at : e[1] \notin patch.groups} |-> r.at[d]]
  <2>1. Applied(r, patch) = [groups |-> r.groups \cup patch.groups, at |-> Merge(kept, patch.at)]
    BY <1>2 DEF Applied, Updated, Unflattened
  <2>2. Merge(kept, patch.at) = [d \in DOMAIN kept \cup DOMAIN patch.at |->
                                   IF d \in DOMAIN patch.at THEN patch.at[d] ELSE kept[d]]
    BY DEF Merge
  <2>3. c \in DOMAIN kept <=> c \in DOMAIN r.at /\ c[1] \notin patch.groups
    OBVIOUS
  <2>4. c \in DOMAIN kept => kept[c] = r.at[c]
    OBVIOUS
  <2> HIDE DEF kept
  <2>5. c \in DOMAIN patch.at => Stored(Applied(r, patch), c) = patch.at[c]
    BY <2>1, <2>2 DEF Stored
  <2>6. CASE c \notin DOMAIN patch.at /\ c \in DOMAIN kept
    BY <2>1, <2>2, <2>3, <2>4, <2>6 DEF Stored
  <2>7. CASE c \notin DOMAIN patch.at /\ c \notin DOMAIN kept
    <3>1. Stored(Applied(r, patch), c) = None
      BY <2>1, <2>2, <2>7 DEF Stored
    <3> QED
      BY <1>2, <2>1, <2>3, <2>7, <3>1 DEF Stored
  <2> QED
    BY <2>1, <2>5, <2>6, <2>7
<1>3. CASE DOMAIN patch.at # {} /\ ~IsRejected(r, patch)
  <2>1. Applied(r, patch) = [r EXCEPT !.at = Merge(r.at, patch.at)]
    BY <1>3 DEF Applied, Updated, Flattened
  <2>2. Applied(r, patch) = [groups |-> r.groups, at |-> Merge(r.at, patch.at)]
    BY <2>1
  <2>3. Merge(r.at, patch.at) = [d \in DOMAIN r.at \cup DOMAIN patch.at |->
                                   IF d \in DOMAIN patch.at THEN patch.at[d] ELSE r.at[d]]
    BY DEF Merge
  <2> QED
    BY <2>2, <2>3 DEF Stored
<1> QED
  BY <1>1, <1>2, <1>3

-----------------------------------------------------------------------------
(* What an update may give.                                                *)

LEMMA NamesOfKinds ==
    ASSUME NEW k \in Kinds
    PROVE  /\ k # "device" => "deviceType" \notin Props(k)
           /\ k # "subscription" => "provider.name" \notin Props(k)
<1>1. k = "location" => \A c \in Columns(k) : c[1] \notin {"deviceType", "provider.name"}
  BY DEF Columns, LocationColumns
<1>2. k = "device" => \A c \in Columns(k) : c[1] # "provider.name"
  BY DEF Columns, DeviceColumns
<1>3. k = "user" => \A c \in Columns(k) : c[1] \notin {"deviceType", "provider.name"}
  BY DEF Columns, UserColumns
<1>4. k = "account" => \A c \in Columns(k) : c[1] \notin {"deviceType", "provider.name"}
  BY DEF Columns, AccountColumns
<1>5. k = "subscription" => \A c \in Columns(k) : c[1] # "deviceType"
  BY DEF Columns, SubscriptionColumns
<1> QED
  BY <1>1, <1>2, <1>3, <1>4, <1>5, RecordsAssumption DEF Props

Value == STRING \ {None, NoCoordinates, "space"}

LEMMA PartialsAre ==
    ASSUME NEW k \in Kinds, NEW v \in Value, NEW given \in Partials(k, v)
    PROVE  /\ \A p \in DOMAIN given : /\ given[p] \notin {None, "space"}
                                      /\ given[p] = NoCoordinates => p = "geoLocation"
           /\ "deviceType" \notin DOMAIN given
           /\ k = "subscription" => {"provider.name", "status"} \subseteq DOMAIN given
           /\ k # "subscription" => "provider.name" \notin DOMAIN given
           /\ k # "location" => "geoLocation" \notin DOMAIN given
<1> DEFINE single == {pw \in (Settable(k) \ ({"systemMode.target", "address"} \cup Reverts))
                               \X {v, "empty", "Mixed", "yes", "no", "unsure"} : pw[2] \in Inputs(pw[1], v)}
<1>1. \/ \E pw \in single : given = [q \in {pw[1]} |-> pw[2]]
      \/ /\ k \in {"location", "device"}
         /\ \E r \in {{}, Reverts} : given = [q \in {"systemMode.target"} \cup r |-> v]
      \/ k = "subscription" /\ \E props \in FromStripe : given = [q \in props |-> v]
      \/ /\ k = "location"
         /\ \E g \in {v, NoCoordinates} :
               given = [q \in {"address", "geoLocation"} |-> IF q = "address" THEN v ELSE g]
  BY DEF Partials
<1>2. \A p \in Settable(k) : /\ p # "deviceType" /\ k # "subscription"
                             /\ p # "provider.name"
                             /\ k # "location" => p # "geoLocation"
  BY RecordsAssumption, NamesOfKinds, OtherFacts DEF Settable
<1>3. v \notin {None, NoCoordinates, "space"}
  BY DEF Value
<1>4. CASE \E pw \in single : given = [q \in {pw[1]} |-> pw[2]]
  <2>1. PICK pw \in single : given = [q \in {pw[1]} |-> pw[2]]
    BY <1>4
  <2>2. pw[1] \in Settable(k) /\ pw[2] \in {v, "empty", "Mixed", "yes", "no", "unsure"}
    BY <2>1
  <2> HIDE DEF single
  <2>3. pw[2] \notin {None, NoCoordinates, "space"}
    BY <1>3, <2>2 DEF None, NoCoordinates
  <2>4. DOMAIN given = {pw[1]} /\ given[pw[1]] = pw[2]
    BY <2>1
  <2> QED
    BY <1>2, <2>2, <2>3, <2>4
<1>5. CASE k \in {"location", "device"} /\ \E r \in {{}, Reverts} : given = [q \in {"systemMode.target"} \cup r |-> v]
  <2>1. PICK r \in {{}, Reverts} : given = [q \in {"systemMode.target"} \cup r |-> v]
    BY <1>5
  <2>2. /\ DOMAIN given \subseteq {"systemMode.target", "systemMode.revertMinutes", "systemMode.revertMode",
                                   "systemMode.revertScheduledAt"}
        /\ \A p \in DOMAIN given : given[p] = v
    BY <2>1 DEF Reverts
  <2> QED
    BY <1>3, <1>5, <2>2
<1>6. CASE k = "subscription" /\ \E props \in FromStripe : given = [q \in props |-> v]
  <2>1. PICK props \in FromStripe : given = [q \in props |-> v]
    BY <1>6
  <2>2. /\ {"provider.name", "status"} \subseteq props
        /\ "deviceType" \notin props /\ "geoLocation" \notin props
    BY DEF FromStripe, ProviderInfo, Plain
  <2>3. DOMAIN given = props /\ \A p \in props : given[p] = v
    BY <2>1
  <2> QED
    BY <1>3, <1>6, <2>2, <2>3
<1>7. CASE k = "location" /\ \E g \in {v, NoCoordinates} :
              given = [q \in {"address", "geoLocation"} |-> IF q = "address" THEN v ELSE g]
  <2>1. PICK g \in {v, NoCoordinates} :
              given = [q \in {"address", "geoLocation"} |-> IF q = "address" THEN v ELSE g]
    BY <1>7
  <2>2. DOMAIN given = {"address", "geoLocation"} /\ given["address"] = v /\ given["geoLocation"] = g
    BY <2>1
  <2> QED
    BY <1>3, <1>7, <2>2 DEF None, NoCoordinates
<1> QED
  BY <1>1, <1>4, <1>5, <1>6, <1>7

-----------------------------------------------------------------------------
(* What a row always has: a location its name, a subscription the map of   *)
(* what Stripe says, a device the type it was created with.                *)
RowIsWhole ==
    /\ kind \in Kinds /\ updates \in Nat
    /\ row = [groups |-> row.groups, at |-> row.at]
    /\ kind = "location" => Stored(row, <<"item", "location_name">>) # None
    /\ kind = "subscription" => "stripe_provider_data" \in row.groups
    /\ "deviceType" \notin lost

After(given) == Applied(row, SetOps(kind, given))

\* A value that is given is written.
LEMMA GivenIsWritten ==
    ASSUME RowIsWhole, NEW v \in Value, NEW given \in Partials(kind, v),
           NEW p \in Props(kind), p \in DOMAIN given, given[p] # NoCoordinates
    PROVE  /\ ValueOf(kind, p, given) = Written(p, given[p])
           /\ ColumnOf(kind, p) \in DOMAIN SetOps(kind, given).at
           /\ Stored(After(given), ColumnOf(kind, p)) = Written(p, given[p])
           /\ Written(p, given[p]) # None
<1>1. ValueOf(kind, p, given) = Written(p, given[p])
  BY DEF ValueOf
<1>2. given[p] # None
  BY PartialsAre DEF RowIsWhole
<1>3. Written(p, given[p]) \notin {None, NoCoordinates}
  BY <1>2 DEF Written, None, NoCoordinates
<1>4. /\ ColumnOf(kind, p) \in DOMAIN SetOps(kind, given).at
      /\ SetOps(kind, given).at[ColumnOf(kind, p)] = Written(p, given[p])
  BY <1>1, <1>3, SetOpsAre DEF RowIsWhole
<1> QED
  BY <1>1, <1>3, <1>4, AppliedStored DEF RowIsWhole, After

(* An update is rejected only in the cases that SetsWholeObjects names.    *)
LEMMA RejectedIf ==
    ASSUME RowIsWhole, NEW v \in Value, NEW given \in Partials(kind, v),
           IsRejected(row, SetOps(kind, given))
    PROVE  SetsWholeObjects(given)
<1> DEFINE patch == SetOps(kind, given)
<1>1. PICK g \in patch.groups : g \notin row.groups \/ \A c \in DOMAIN patch.at : c[1] # g
  BY DEF IsRejected
<1>2. /\ g \in {"profile", "geo_positioning", "stripe_provider_data"}
      /\ \/ g = "profile" /\ kind = "location"
         \/ g = "geo_positioning" /\ "geoLocation" \in DOMAIN given
         \/ g = "stripe_provider_data" /\ "provider.name" \in DOMAIN given
  BY SetOpsAre DEF RowIsWhole
<1>3. CASE g = "profile" /\ kind = "location"
  <2>1. /\ "waterShutoffKnown" \in Props(kind)
        /\ ColumnOf(kind, "waterShutoffKnown") = <<"profile", "water_shutoff_known">>
    BY <1>3, LocationFacts DEF RowIsWhole
  <2>2. ValueOf(kind, "waterShutoffKnown", given) \notin {None, NoCoordinates}
    <3>1. CASE "waterShutoffKnown" \in DOMAIN given
      <4>1. given["waterShutoffKnown"] \notin {None, NoCoordinates}
        BY <3>1, PartialsAre DEF RowIsWhole
      <4> QED
        BY <3>1, <4>1 DEF ValueOf, Written, None, NoCoordinates
    <3>2. CASE "waterShutoffKnown" \notin DOMAIN given
      BY <3>2 DEF ValueOf, None, NoCoordinates
    <3> QED
      BY <3>1, <3>2
  <2>3. ColumnOf(kind, "waterShutoffKnown") \in DOMAIN SetOps(kind, given).at
    <3>1. kind \in Kinds
      BY DEF RowIsWhole
    <3> QED
      BY <2>1, <2>2, <3>1, SetOpsAre
  <2>4. <<"profile", "water_shutoff_known">> \in DOMAIN patch.at
    BY <2>1, <2>3
  <2> QED
    BY <1>1, <1>3, <2>4 DEF SetsWholeObjects
<1>4. CASE g = "geo_positioning" /\ "geoLocation" \in DOMAIN given
  <2>1. kind = "location"
    BY <1>4, PartialsAre DEF RowIsWhole
  <2>2. CASE given["geoLocation"] = NoCoordinates
    BY <1>4, <2>1, <2>2 DEF SetsWholeObjects
  <2>3. CASE given["geoLocation"] # NoCoordinates
    <3>1. <<"geo_positioning", "coordinates">> \in DOMAIN patch.at
      BY <1>4, <2>1, <2>3, GivenIsWritten, LocationFacts DEF RowIsWhole
    <3> QED
      BY <1>1, <1>4, <2>1, <3>1 DEF SetsWholeObjects
  <2> QED
    BY <2>2, <2>3
<1>5. CASE g = "stripe_provider_data" /\ "provider.name" \in DOMAIN given
  <2>1. kind = "subscription" /\ "status" \in DOMAIN given /\ given["status"] # NoCoordinates
    BY <1>5, PartialsAre DEF RowIsWhole
  <2>2. <<"stripe_provider_data", "status">> \in DOMAIN patch.at
    BY <2>1, GivenIsWritten, KindFacts DEF RowIsWhole
  <2> QED
    BY <1>1, <1>5, <2>1, <2>2 DEF RowIsWhole
<1> QED
  BY <1>2, <1>3, <1>4, <1>5

-----------------------------------------------------------------------------
(* What an update leaves of a property that it is not given, and makes of  *)
(* one that it is.                                                         *)

LEMMA ColumnKept ==
    ASSUME RowIsWhole, NEW v \in Value, NEW given \in Partials(kind, v),
           NEW p \in Props(kind), p \notin DOMAIN given, p \notin OverwrittenBy(given)
    PROVE  Stored(After(given), ColumnOf(kind, p)) = Stored(row, ColumnOf(kind, p))
<1> DEFINE patch == SetOps(kind, given)
           c == ColumnOf(kind, p)
<1>1. p \notin {"areas", "waterShutoffKnown", "locale"}
  BY DEF OverwrittenBy
<1>2. ValueOf(kind, p, given) = None
  BY <1>1 DEF ValueOf
<1>3. c \notin DOMAIN patch.at
  BY <1>2, SetOpsAre DEF RowIsWhole
<1>4. \/ Stored(After(given), c) = Stored(row, c)
      \/ IsRejected(row, patch) /\ c[1] \in patch.groups /\ Stored(row, c) # None
  BY <1>3, AppliedStored DEF RowIsWhole, After
<1>5. CASE IsRejected(row, patch) /\ c[1] \in patch.groups /\ Stored(row, c) # None
  <2>1. SetsWholeObjects(given) /\ kind = "location"
    BY <1>5, RejectedIf DEF SetsWholeObjects
  <2>2. c[1] # "profile"
    BY <1>5, <2>1 DEF OverwrittenBy
  <2>3. c[1] \in {"item", "profile", "geo_positioning"} /\ (c[1] = "geo_positioning" => p = "geoLocation")
    BY <2>1, LocationFacts DEF RowIsWhole
  <2>4. /\ c[1] \in {"profile", "geo_positioning", "stripe_provider_data"}
        /\ c[1] = "geo_positioning" => "geoLocation" \in DOMAIN given
    BY <1>5, SetOpsAre DEF RowIsWhole
  <2> QED
    BY <2>2, <2>3, <2>4
<1> QED
  BY <1>4, <1>5

\* The columns of the previous version are read and not written.
LEMMA LegacyKept ==
    ASSUME RowIsWhole, NEW given, NEW p \in Props(kind)
    PROVE  Legacy(After(given), p) = Legacy(row, p)
<1>1. CASE p \notin DOMAIN LegacyColumn
  BY <1>1 DEF Legacy
<1>2. CASE p \in DOMAIN LegacyColumn
  <2> DEFINE c == <<"item", LegacyColumn[p]>>
             patch == SetOps(kind, given)
  <2>1. kind = "location" /\ kind \in Kinds
    BY <1>2, OtherFacts DEF RowIsWhole
  <2>2. \A q \in Props(kind) : ColumnOf(kind, q)[1] = "item" => ColumnOf(kind, q)[2] # LegacyColumn[p]
    BY <1>2, <2>1, LocationFacts DEF LegacyNames
  <2>3. \A q \in Props(kind) : ColumnOf(kind, q) # c
    BY <2>2
  <2>4. c \notin DOMAIN patch.at
    BY <2>1, <2>3, SetOpsAre
  <2>5. c[1] \notin patch.groups
    BY <2>1, SetOpsAre
  <2>6. Stored(After(given), c) = Stored(row, c)
    BY <2>4, <2>5, AppliedStored DEF RowIsWhole, After
  <2> QED
    BY <1>2, <2>6 DEF Legacy
<1> QED
  BY <1>1, <1>2

LEMMA TypeIsKept ==
    ASSUME RowIsWhole, NEW v \in Value, NEW given \in Partials(kind, v)
    PROVE  "deviceType" \notin DOMAIN given \cup OverwrittenBy(given)
<1>1. "deviceType" \notin DOMAIN given
  BY PartialsAre DEF RowIsWhole
<1>2. "deviceType" \notin Ended(given)
  BY DEF Ended, Reverts
<1>3. ~(SetsWholeObjects(given) /\ "deviceType" \in Props(kind))
  BY NamesOfKinds DEF SetsWholeObjects, RowIsWhole
<1> QED
  BY <1>1, <1>2, <1>3 DEF OverwrittenBy, Lists

LEMMA WholeKept ==
    ASSUME RowIsWhole, NEW v \in Value, NEW given \in Partials(kind, v), UpdatePartial(given)
    PROVE  RowIsWhole'
<1>1. row' = After(given) /\ kind' = kind
  BY DEF UpdatePartial, After
<1>2. /\ row' = [groups |-> row'.groups, at |-> row'.at]
      /\ row.groups \subseteq row'.groups
  BY <1>1, AppliedStored DEF After, RowIsWhole
<1>3. kind = "location" => Stored(row', <<"item", "location_name">>) # None
  <2> SUFFICES ASSUME kind = "location"
               PROVE  Stored(row', <<"item", "location_name">>) # None
    OBVIOUS
  <2>1. /\ "nickname" \in Props(kind)
        /\ ColumnOf(kind, "nickname") = <<"item", "location_name">>
    BY LocationFacts DEF RowIsWhole
  <2>2. CASE "nickname" \in DOMAIN given
    <3>1. given["nickname"] # NoCoordinates
      BY <2>2, PartialsAre DEF RowIsWhole
    <3> QED
      BY <1>1, <2>1, <2>2, <3>1, GivenIsWritten
  <2>3. CASE "nickname" \notin DOMAIN given
    <3>1. kind \in Kinds
      BY DEF RowIsWhole
    <3>2. ValueOf(kind, "nickname", given) = None
      BY <2>3 DEF ValueOf
    <3>3. ColumnOf(kind, "nickname") \notin DOMAIN SetOps(kind, given).at
      BY <2>1, <3>1, <3>2, SetOpsAre
    <3>4. "item" \notin SetOps(kind, given).groups
      BY <3>1, SetOpsAre
    <3>5. Stored(row', <<"item", "location_name">>) = Stored(row, <<"item", "location_name">>)
      BY <1>1, <2>1, <3>3, <3>4, AppliedStored DEF RowIsWhole, After
    <3> QED
      BY <3>5 DEF RowIsWhole
  <2> QED
    BY <2>2, <2>3
<1>4. "deviceType" \notin lost'
  BY TypeIsKept DEF UpdatePartial, RowIsWhole
<1> QED
  BY <1>1, <1>2, <1>3, <1>4 DEF RowIsWhole, UpdatePartial

LEMMA ShownKept ==
    ASSUME RowIsWhole, NEW v \in Value, NEW given \in Partials(kind, v),
           NEW p \in Props(kind), p \notin DOMAIN given, p \notin OverwrittenBy(given)
    PROVE  Shown(kind, After(given), p) = Shown(kind, row, p)
<1>1. Stored(After(given), ColumnOf(kind, p)) = Stored(row, ColumnOf(kind, p))
  BY ColumnKept
<1>2. Legacy(After(given), p) = Legacy(row, p)
  BY LegacyKept
<1>3. CASE p \in Lists
  BY <1>1, <1>2, <1>3 DEF Shown, ShownList
<1>4. CASE p = "nickname" /\ kind = "location"
  <2>1. Stored(row, ColumnOf(kind, p)) # None
    BY <1>4, LocationFacts DEF RowIsWhole
  <2> QED
    BY <1>1, <1>4, <2>1 DEF Shown, Or, Lists
<1>5. CASE p = "puckConfig"
  <2>1. kind = "device" /\ kind \in Kinds
    BY <1>5, KindFacts DEF RowIsWhole
  <2>2. "deviceType" \in Props(kind) /\ ColumnOf(kind, "deviceType") = <<"item", "device_type">>
    BY <2>1, KindFacts
  <2>3. Stored(After(given), <<"item", "device_type">>) = Stored(row, <<"item", "device_type">>)
    BY <2>2, TypeIsKept, ColumnKept
  <2> QED
    BY <1>1, <1>2, <1>5, <2>3 DEF Shown, Lists
<1>6. CASE p \notin Lists /\ ~(p = "nickname" /\ kind = "location") /\ p # "puckConfig"
  BY <1>1, <1>2, <1>6 DEF Shown
<1> QED
  BY <1>3, <1>4, <1>5, <1>6

LEMMA ShownGiven ==
    ASSUME RowIsWhole, KeepsTheRest, NEW v \in Value, NEW given \in Partials(kind, v),
           NEW p \in Props(kind), p \in DOMAIN given, p \notin OverwrittenBy(given)
    PROVE  Shown(kind, After(given), p) = Promised(p, given[p])
<1> DEFINE own == Stored(After(given), ColumnOf(kind, p))
<1>1. given[p] \notin {None, NoCoordinates, "space"}
  BY PartialsAre DEF RowIsWhole, OverwrittenBy
<1>2. own = Written(p, given[p]) /\ own # None
  BY <1>1, GivenIsWritten
<1>3. CASE p \in Lists
  <2>1. p \notin {"parent", "area", "email", "waterShutoffKnown", "puckConfig", "geoLocation"}
    BY <1>3 DEF Lists
  <2>2. own = given[p] /\ Promised(p, given[p]) = given[p]
    BY <1>2, <2>1 DEF Written, Promised
  <2>3. given[p] = "empty" => Legacy(row, p) = None
    <3>1. kind = "location"
      BY <1>3, OtherFacts DEF RowIsWhole
    <3> QED
      BY <1>3, <3>1 DEF OverwrittenBy
  <2>4. Legacy(After(given), p) = Legacy(row, p)
    BY LegacyKept
  <2>5. Shown(kind, After(given), p) = ShownList(kind, After(given), p)
    BY <1>3, <2>1 DEF Shown, Lists
  <2> QED
    BY <1>2, <2>2, <2>3, <2>4, <2>5 DEF ShownList, Or, None
<1>4. CASE p = "nickname" /\ kind = "location"
  BY <1>2, <1>4 DEF Shown, Or, Lists, Written, Promised
<1>5. CASE p \in {"parent", "area"}
  BY <1>1, <1>2, <1>5 DEF Shown, Or, Lists, Written, Promised
<1>6. CASE p = "puckConfig"
  <2>1. kind = "device" /\ kind \in Kinds
    BY <1>6, KindFacts DEF RowIsWhole
  <2>2. "deviceType" \in Props(kind) /\ ColumnOf(kind, "deviceType") = <<"item", "device_type">>
    BY <2>1, KindFacts
  <2>3. Stored(After(given), <<"item", "device_type">>) = Stored(row, <<"item", "device_type">>)
    BY <2>2, TypeIsKept, ColumnKept
  <2>4. wanted["deviceType"] = "puck_oem" <=> Stored(row, <<"item", "device_type">>) = "puck_oem"
    <3>1. wanted["deviceType"] = Shown(kind, row, "deviceType")
      BY <2>2 DEF KeepsTheRest, RowIsWhole
    <3>2. Legacy(row, "deviceType") = None
      BY <2>1, <2>2, OtherFacts DEF Legacy
    <3>3. Default("deviceType") = "flo_device_v2"
      BY DEF Default, Lists
    <3> QED
      BY <2>2, <3>1, <3>2, <3>3 DEF Shown, Or, Lists, None
  <2>5. wanted["puckConfig"] = None
    BY <1>6 DEF OverwrittenBy
  <2>6. own = given[p]
    BY <1>2, <1>6 DEF Written
  <2> QED
    BY <1>2, <1>6, <2>3, <2>4, <2>5, <2>6 DEF Shown, Or, Lists, Promised
<1>7. CASE p = "waterShutoffKnown"
  <2>1. given[p] # "no"
    BY <1>7 DEF OverwrittenBy
  <2> QED
    BY <1>2, <1>7, <2>1 DEF Shown, Or, Lists, Written, Promised
<1>8. CASE p \notin Lists \cup {"nickname", "parent", "area", "puckConfig", "waterShutoffKnown"}
           \/ (p = "nickname" /\ kind # "location")
  <2>1. own = Promised(p, given[p])
    BY <1>1, <1>2, <1>8 DEF Written, Promised
  <2>2. Shown(kind, After(given), p) = own
    BY <1>2, <1>8 DEF Shown, Or, Lists
  <2> QED
    BY <2>1, <2>2
<1> QED
  BY <1>3, <1>4, <1>5, <1>6, <1>7, <1>8

-----------------------------------------------------------------------------
(* The invariant.                                                          *)

RecordInv == RowIsWhole /\ KeepsTheRest

LEMMA RecordNextKeeps ==
    ASSUME RecordInv, [RecordNext]_recordVars
    PROVE  RecordInv'
<1>1. CASE UNCHANGED recordVars
  BY <1>1 DEF recordVars, RecordInv, RowIsWhole, KeepsTheRest
<1>2. CASE RecordNext
  <2>1. updates < Len(Values)
    BY <1>2 DEF RecordNext
  <2>2. PICK given \in Partials(kind, Values[updates + 1]) : UpdatePartial(given)
    BY <1>2, <2>1 DEF RecordNext
  <2>3. Values[updates + 1] \in Value
    BY <2>1, RecordsAssumption, ElementOfSeq DEF RecordInv, RowIsWhole, Value
  <2>4. RowIsWhole'
    BY <2>2, <2>3, WholeKept DEF RecordInv
  <2>5. /\ row' = After(given) /\ kind' = kind
        /\ wanted' = [p \in Props(kind) |-> CASE p \in DOMAIN given -> Promised(p, given[p])
                                              [] p \in Ended(given) -> None
                                              [] OTHER -> wanted[p]]
        /\ lost' = (lost \ DOMAIN given) \cup OverwrittenBy(given)
    BY <2>2 DEF UpdatePartial, After
  <2>6. ASSUME NEW p \in Props(kind) \ lost'
        PROVE  Shown(kind, row', p) = wanted'[p]
    <3>1. CASE p \in DOMAIN given
      <4>1. wanted'[p] = Promised(p, given[p])
        <5>1. p \in Props(kind) /\ p \notin Ended(given)
          BY <2>6, <3>1 DEF Ended
        <5>2. wanted'[p] = CASE p \in DOMAIN given -> Promised(p, given[p])
                             [] p \in Ended(given) -> None
                             [] OTHER -> wanted[p]
          BY <2>5, <5>1
        <5> QED
          BY <5>1, <5>2, <3>1
      <4>2. Shown(kind, After(given), p) = Promised(p, given[p])
        BY <2>3, <2>5, <2>6, <3>1, ShownGiven DEF RecordInv
      <4> QED
        BY <2>5, <4>1, <4>2
    <3>2. CASE p \notin DOMAIN given
      <4>1. p \notin lost /\ p \notin OverwrittenBy(given)
        BY <2>5, <2>6, <3>2
      <4>2. p \notin Ended(given)
        BY <4>1 DEF OverwrittenBy
      <4>3. wanted'[p] = wanted[p]
        BY <2>5, <2>6, <3>2, <4>2
      <4>4. Shown(kind, After(given), p) = Shown(kind, row, p)
        BY <2>3, <2>6, <3>2, <4>1, ShownKept DEF RecordInv
      <4>5. Shown(kind, row, p) = wanted[p]
        BY <2>6, <4>1 DEF RecordInv, KeepsTheRest
      <4> QED
        BY <2>5, <4>3, <4>4, <4>5
    <3> QED
      BY <3>1, <3>2
  <2>7. KeepsTheRest'
    BY <2>5, <2>6 DEF KeepsTheRest
  <2> QED
    BY <2>4, <2>7 DEF RecordInv
<1> QED
  BY <1>1, <1>2

\* What a creation writes.
LEMMA CreatedStored ==
    ASSUME NEW k \in Kinds, NEW given, NEW p \in Props(k), p \in DOMAIN given,
           ValueOf(k, p, given) \notin {None, NoCoordinates},
           k = "user" => p # "unitSystem"
    PROVE  Stored(Created(k, given), ColumnOf(k, p)) = ValueOf(k, p, given)
<1> DEFINE patch == SetOps(k, given)
           c == ColumnOf(k, p)
           kept == {d \in DOMAIN patch.at :
                      k = "user" => d[2] # "unit_system" /\ (d[2] = "locale" => "locale" \in DOMAIN given)}
           new == [d \in kept |-> patch.at[d]]
<1>1. c \in DOMAIN patch.at /\ patch.at[c] = ValueOf(k, p, given)
  BY SetOpsAre
<1>2. k = "user" => c[2] # "unit_system" /\ (c[2] = "locale" => "locale" \in DOMAIN given)
  <2> SUFFICES ASSUME k = "user"
               PROVE  c[2] # "unit_system" /\ (c[2] = "locale" => "locale" \in DOMAIN given)
    OBVIOUS
  <2>1. PICK t \in Columns(k) : t[1] = p
    BY DEF Props
  <2>2. c = <<t[2], t[3]>>
    BY <2>1, ColumnIs
  <2>3. (t[3] = "unit_system" => t[1] = "unitSystem") /\ (t[3] = "locale" => t[1] = "locale")
    BY <2>1 DEF Columns, UserColumns
  <2> QED
    BY <2>1, <2>2, <2>3
<1>3. \E old : Created(k, given).at = Merge(old, new)
  BY DEF Created
<1>4. DOMAIN new = kept /\ \A d \in kept : new[d] = patch.at[d]
  OBVIOUS
<1>5. c \in kept
  BY <1>1, <1>2
<1> HIDE DEF new, kept
<1>6. PICK old : Created(k, given).at = Merge(old, new)
  BY <1>3
<1>7. c \in DOMAIN Merge(old, new) /\ Merge(old, new)[c] = new[c]
  BY <1>4, <1>5 DEF Merge
<1> QED
  BY <1>1, <1>4, <1>5, <1>6, <1>7 DEF Stored

\* Each model is created with these properties.
LEMMA CreationsAre ==
    ASSUME NEW k \in Kinds, NEW props \in Creations(k)
    PROVE  /\ props \subseteq Props(k)
           /\ k = "location" => "nickname" \in props
           /\ "puckConfig" \notin props
<1>1. CASE k = "location"
  <2>1. {"nickname", "timezone", "geoLocation"} \subseteq Props(k)
    BY <1>1 DEF Props, Columns, LocationColumns
  <2>2. "puckConfig" \notin Props(k)
    BY <1>1, KindFacts
  <2>3. props = Props(k) \/ props = {"nickname", "timezone", "geoLocation"}
    BY <1>1 DEF Creations
  <2> QED
    BY <1>1, <2>1, <2>2, <2>3
<1>2. CASE k = "device"
  <2>1. props = {"nickname", "deviceType", "deviceModel"}
    BY <1>2 DEF Creations
  <2>2. {"nickname", "deviceType", "deviceModel"} \subseteq Props(k)
    BY <1>2 DEF Props, Columns, DeviceColumns
  <2> QED
    BY <1>2, <2>1, <2>2
<1>3. CASE k = "user"
  <2>1. {"firstName", "lastName", "phoneMobile", "email"} \subseteq Props(k)
    BY <1>3 DEF Props, Columns, UserColumns
  <2>2. "puckConfig" \notin Props(k)
    BY <1>3, KindFacts
  <2>3. props = Props(k) \ {"enabledFeatures"} \/ props = {"firstName", "lastName", "phoneMobile", "email"}
    BY <1>3 DEF Creations
  <2> QED
    BY <1>3, <2>1, <2>2, <2>3
<1>4. CASE k = "account"
  <2>1. props = {"owner", "type"}
    BY <1>4 DEF Creations
  <2>2. {"owner", "type"} \subseteq Props(k)
    BY <1>4 DEF Props, Columns, AccountColumns
  <2> QED
    BY <1>4, <2>1, <2>2
<1>5. CASE k = "subscription"
  <2>1. Plain \cup ProviderInfo \subseteq Props(k)
    BY <1>5 DEF Props, Columns, SubscriptionColumns, Plain, ProviderInfo
  <2>2. "puckConfig" \notin Props(k)
    BY <1>5, KindFacts
  <2>3. props \subseteq Props(k)
    BY <1>5, <2>1 DEF Creations, ProviderInfo
  <2> QED
    BY <1>5, <2>2, <2>3
<1> QED
  BY <1>1, <1>2, <1>3, <1>4, <1>5, RecordsAssumption

LEMMA FirstGiven ==
    ASSUME NEW props, NEW first \in FirstValues
    PROVE  /\ DOMAIN FirstModel(props, first) = props
           /\ \A p \in props :
                /\ FirstModel(props, first)[p] \in {"first", "puck_oem", "flo_device_v2", "found",
                                                    NoCoordinates, "yes", "unsure"}
                /\ FirstModel(props, first)[p] = NoCoordinates => p = "geoLocation"
<1>1. /\ DOMAIN first = {"deviceType", "geoLocation", "waterShutoffKnown"}
      /\ first["deviceType"] \in {"puck_oem", "flo_device_v2"}
      /\ first["geoLocation"] \in {"found", NoCoordinates}
      /\ first["waterShutoffKnown"] \in {"yes", "unsure"}
  BY DEF FirstValues
<1>2. FirstModel(props, first) = [p \in props |-> IF p \in DOMAIN first THEN first[p] ELSE "first"]
  BY DEF FirstModel
<1> QED
  BY <1>1, <1>2 DEF NoCoordinates

LEMMA InitCreated ==
    ASSUME kind \in Kinds, updates = 0,
           NEW props \in Creations(kind), NEW first \in FirstValues,
           row = Created(kind, FirstModel(props, first)),
           wanted = [p \in Props(kind) |->
                       IF p \in props /\ FirstModel(props, first)[p] # NoCoordinates
                       THEN FirstModel(props, first)[p] ELSE Shown(kind, row, p)],
           lost = IF kind = "user" THEN {"unitSystem"} ELSE {}
    PROVE  RecordInv
<1> DEFINE given == FirstModel(props, first)
<1>1. /\ DOMAIN given = props
      /\ \A p \in props :
           /\ given[p] \in {"first", "puck_oem", "flo_device_v2", "found", NoCoordinates, "yes", "unsure"}
           /\ given[p] = NoCoordinates => p = "geoLocation"
  BY FirstGiven
<1>2. props \subseteq Props(kind) /\ (kind = "location" => "nickname" \in props) /\ "puckConfig" \notin props
  BY CreationsAre
<1>3. /\ row = Created(kind, given)
      /\ \A p \in Props(kind) : wanted[p] = IF p \in props /\ given[p] # NoCoordinates
                                            THEN given[p] ELSE Shown(kind, row, p)
  OBVIOUS
<1> HIDE DEF given
<1>4. ASSUME NEW p \in props, given[p] # NoCoordinates, p \notin lost
      PROVE  Stored(row, ColumnOf(kind, p)) = given[p]
  <2>1. given[p] \in {"first", "puck_oem", "flo_device_v2", "found", "yes", "unsure"}
    BY <1>1, <1>4
  <2>2. ValueOf(kind, p, given) = given[p]
    BY <1>1, <2>1 DEF ValueOf, Written
  <2>3. ValueOf(kind, p, given) \notin {None, NoCoordinates}
    BY <2>1, <2>2 DEF None, NoCoordinates
  <2>4. kind = "user" => p # "unitSystem"
    BY <1>4
  <2> QED
    BY <1>1, <1>2, <1>3, <2>2, <2>3, <2>4, CreatedStored
<1>5. ASSUME NEW p \in Props(kind) \ lost
      PROVE  Shown(kind, row, p) = wanted[p]
  <2>1. CASE p \in props /\ given[p] # NoCoordinates
    <3>1. /\ Stored(row, ColumnOf(kind, p)) = given[p] /\ given[p] = wanted[p]
          /\ given[p] \in {"first", "puck_oem", "flo_device_v2", "found", "yes", "unsure"}
          /\ p # "puckConfig"
      BY <1>1, <1>2, <1>3, <1>4, <1>5, <2>1
    <3>2. CASE p \in Lists
      BY <3>1, <3>2 DEF Shown, ShownList, Or, Lists, None
    <3>3. CASE p \notin Lists
      BY <3>1, <3>3 DEF Shown, Or, None
    <3> QED
      BY <3>2, <3>3
  <2>2. CASE ~(p \in props /\ given[p] # NoCoordinates)
    BY <1>3, <1>5, <2>2
  <2> QED
    BY <2>1, <2>2
<1>6. /\ row = [groups |-> row.groups, at |-> row.at]
      /\ kind = "subscription" => "stripe_provider_data" \in row.groups
  <2> DEFINE groups == CASE kind = "location"     -> {"profile", "geo_positioning"}
                         [] kind = "subscription" -> {"stripe_provider_data"}
                         [] OTHER                 -> {}
  <2>1. PICK at : row = [groups |-> groups, at |-> at]
    BY <1>3 DEF Created
  <2>2. kind = "subscription" => groups = {"stripe_provider_data"}
    OBVIOUS
  <2> HIDE DEF groups
  <2>3. row.groups = groups /\ row.at = at
    BY <2>1
  <2> QED
    BY <2>1, <2>2, <2>3
<1>7. kind = "location" => Stored(row, <<"item", "location_name">>) # None
  <2>1. kind = "location" => given["nickname"] \in {"first", "puck_oem", "flo_device_v2", "found", "yes", "unsure"}
    BY <1>1, <1>2
  <2> QED
    BY <1>2, <1>4, <2>1, LocationFacts DEF None, NoCoordinates
<1> QED
  BY <1>5, <1>6, <1>7 DEF RecordInv, RowIsWhole, KeepsTheRest

LEMMA InitLegacy ==
    ASSUME kind \in Kinds, kind = "location", updates = 0, row = LegacyRow, lost = {},
           wanted = [p \in Props(kind) |-> Shown(kind, row, p)]
    PROVE  RecordInv
<1>1. row = [groups |-> row.groups, at |-> row.at]
  BY DEF LegacyRow
<1>2. Stored(row, <<"item", "location_name">>) = "legacy"
  BY DEF LegacyRow, Stored
<1> QED
  BY <1>1, <1>2 DEF RecordInv, RowIsWhole, KeepsTheRest, None

LEMMA RecordInitKeeps == RecordInit => RecordInv
  BY InitCreated, InitLegacy DEF RecordInit

(* The inductive invariant: what the records of each kind always have.     *)
THEOREM RecordInvariant == RecordSpec => []RecordInv
<1>1. RecordInv /\ [RecordNext]_recordVars => RecordInv'
  BY RecordNextKeeps
<1> QED
  BY <1>1, RecordInitKeeps, PTL DEF RecordSpec

(* Whatever sequence of updates a record has been through, with any number *)
(* of updates and any values, a property shows what it was last asked to   *)
(* be, but for the losses that are named.                                  *)
THEOREM KeepsTheorem == RecordSpec => []KeepsTheRest
<1>1. RecordInv => KeepsTheRest
  BY DEF RecordInv
<1> QED
  BY <1>1, RecordInvariant, PTL

=============================================================================
