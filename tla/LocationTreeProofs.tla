------------------------- MODULE LocationTreeProofs -------------------------
(***************************************************************************)
(* For any set of locations, the closure table stays a transitive closure  *)
(* without cycles whose depths are distances.  The inductive invariant is  *)
(* the conjunction IInv: transitivity needs the self rows, the absence of  *)
(* cycles needs both, and the depths need all three.  With it, the second  *)
(* invariant Stepwise says that every chain of rows can be walked one step *)
(* at a time from either end, which a move keeps and needs.  The second    *)
(* half is about the cache in front of the table: an entry that no race    *)
(* reached equals the rows, or a MULTI that is still due puts it right.    *)
(***************************************************************************)
EXTENDS CachedLocationTree, TLAPS

IsClosure(t) == IsTable(t) /\ IsReflexive(t) /\ IsTransitive(t)

IsHierarchy(t) == IsClosure(t) /\ IsAcyclic(t) /\ IsDistance(t)

IInv == IsHierarchy(tree)

(* A deletion that leaves no dangling pair keeps a hierarchy: if (a,b) and *)
(* (b,c) stay then (a,c) stays, and a row keeps its self rows.             *)
LEMMA DeletionKeepsHierarchy ==
    ASSUME NEW t, NEW K, IsHierarchy(t),
           \A a, b, c \in Location :
               /\ <<a, b>> \in DOMAIN t \ K
               /\ <<b, c>> \in DOMAIN t \ K
               => <<a, c>> \notin K,
           \A k \in DOMAIN t \ K : <<k[1], k[1]>> \notin K /\ <<k[2], k[2]>> \notin K
    PROVE  IsHierarchy(DeleteRows(t, K))
<1> DEFINE s == DeleteRows(t, K)
<1>1. DOMAIN s = DOMAIN t \ K /\ \A k \in DOMAIN s : s[k] = t[k]
  BY DEF DeleteRows
<1>2. IsTable(s)
  BY DEF IsHierarchy, IsClosure, IsTable, DeleteRows
<1>3. IsReflexive(s)
  BY <1>1 DEF IsHierarchy, IsClosure, IsReflexive
<1> HIDE DEF s
<1>4. IsTransitive(s)
  BY <1>1 DEF IsHierarchy, IsClosure, IsTransitive
<1>5. IsAcyclic(s)
  BY <1>1 DEF IsHierarchy, IsAcyclic
<1>6. IsDistance(s)
  <2>1. \A k \in DOMAIN s : s[k] = 0 <=> k[1] = k[2]
    BY <1>1 DEF IsHierarchy, IsDistance
  <2>2. ASSUME NEW a \in Location, NEW b \in Location, NEW c \in Location,
               <<a, b>> \in DOMAIN s, <<b, c>> \in DOMAIN s
        PROVE  s[<<a, c>>] = s[<<a, b>>] + s[<<b, c>>]
    <3>1. <<a, c>> \in DOMAIN s
      BY <1>4, <2>2 DEF IsTransitive
    <3> QED
      BY <1>1, <2>2, <3>1 DEF IsHierarchy, IsDistance
  <2> QED
    BY <2>1, <2>2 DEF IsDistance
<1> QED
  BY <1>2, <1>3, <1>4, <1>5, <1>6 DEF IsHierarchy, IsClosure, s

(* removeSubTree deletes every row into the subtree of id: what remains    *)
(* lies wholly outside the subtree.                                        *)
LEMMA RemoveSubTreeKeepsHierarchy ==
    ASSUME NEW t, NEW id \in Location, IsHierarchy(t)
    PROVE  IsHierarchy(DeleteRows(t, {k \in DOMAIN t : <<id, k[2]>> \in DOMAIN t}))
<1> DEFINE K == {k \in DOMAIN t : <<id, k[2]>> \in DOMAIN t}
<1>1. \A k \in DOMAIN t : k = <<k[1], k[2]>> /\ k[1] \in Location /\ k[2] \in Location
  BY DEF IsHierarchy, IsClosure, IsTable
<1>2. \A a, b, c \in Location :
          <<a, b>> \in DOMAIN t \ K /\ <<b, c>> \in DOMAIN t \ K => <<a, c>> \notin K
  OBVIOUS
<1>3. \A k \in DOMAIN t \ K : <<k[1], k[1]>> \notin K /\ <<k[2], k[2]>> \notin K
  <2> SUFFICES ASSUME NEW k \in DOMAIN t \ K
               PROVE  <<k[1], k[1]>> \notin K /\ <<k[2], k[2]>> \notin K
    OBVIOUS
  <2>1. <<id, k[2]>> \notin DOMAIN t
    OBVIOUS
  <2>2. <<id, k[1]>> \notin DOMAIN t
    BY <1>1, <2>1 DEF IsHierarchy, IsClosure, IsTransitive
  <2> QED
    BY <2>1, <2>2
<1> QED
  BY <1>2, <1>3, DeletionKeepsHierarchy

(* The DELETE of updateParent cuts the subtree of id off: a chain that     *)
(* stays lies inside the subtree, or outside of it.                        *)
LEMMA DetachKeepsHierarchy ==
    ASSUME NEW t, NEW id \in Location, NEW hasPrevParent \in BOOLEAN, IsHierarchy(t)
    PROVE  IsHierarchy(Detached(t, id, hasPrevParent))
<1> DEFINE K == DetachedRows(t, id)
<1>1. \A k \in DOMAIN t : k = <<k[1], k[2]>> /\ k[1] \in Location /\ k[2] \in Location
  BY DEF IsHierarchy, IsClosure, IsTable
<1>2. ASSUME NEW a \in Location, NEW b \in Location, NEW c \in Location,
             <<a, b>> \in DOMAIN t \ K, <<b, c>> \in DOMAIN t \ K
      PROVE  <<a, c>> \notin K
  <2> SUFFICES ASSUME <<id, c>> \in DOMAIN t, <<id, a>> \notin DOMAIN t
               PROVE  FALSE
    BY DEF DetachedRows
  <2>1. <<id, b>> \in DOMAIN t
    BY <1>2 DEF DetachedRows
  <2> QED
    BY <1>2, <2>1 DEF DetachedRows
<1>3. \A k \in DOMAIN t \ K : <<k[1], k[1]>> \notin K /\ <<k[2], k[2]>> \notin K
  BY DEF DetachedRows
<1>4. IsHierarchy(DeleteRows(t, K))
  BY <1>2, <1>3, DeletionKeepsHierarchy
<1> QED
  BY <1>4 DEF Detached

(* ON CONFLICT DO NOTHING: adding a self row keeps a hierarchy.            *)
LEMMA SelfLinkKeepsHierarchy ==
    ASSUME NEW t, NEW x \in Location, IsHierarchy(t)
    PROVE  /\ IsHierarchy(SelfLink(t, x))
           /\ DOMAIN SelfLink(t, x) = DOMAIN t \cup {<<x, x>>}
<1> DEFINE s == SelfLink(t, x)
<1>1. /\ DOMAIN s = DOMAIN t \cup {<<x, x>>}
      /\ \A k \in DOMAIN t : s[k] = t[k]
      /\ <<x, x>> \notin DOMAIN t => s[<<x, x>>] = 0
  BY DEF SelfLink
<1>2. \A k \in DOMAIN t : k = <<k[1], k[2]>> /\ k[1] \in Location /\ k[2] \in Location
  BY DEF IsHierarchy, IsClosure, IsTable
<1>3. IsTable(s)
  BY DEF IsHierarchy, IsClosure, IsTable, SelfLink
<1> HIDE DEF s
<1>4. IsReflexive(s)
  <2>1. \A k \in DOMAIN t : <<k[1], k[1]>> \in DOMAIN s /\ <<k[2], k[2]>> \in DOMAIN s
    BY <1>1 DEF IsHierarchy, IsClosure, IsReflexive
  <2>2. <<x, x>>[1] = x /\ <<x, x>>[2] = x /\ <<x, x>> \in DOMAIN s
    BY <1>1
  <2> QED
    BY <1>1, <2>1, <2>2 DEF IsReflexive
<1>5. IsTransitive(s)
  BY <1>1 DEF IsHierarchy, IsClosure, IsTransitive
<1>6. IsAcyclic(s)
  BY <1>1 DEF IsHierarchy, IsAcyclic
<1>7. \A k \in DOMAIN s : s[k] = 0 <=> k[1] = k[2]
  BY <1>1 DEF IsHierarchy, IsDistance
<1>8. ASSUME NEW a \in Location, NEW b \in Location, NEW c \in Location,
             <<a, b>> \in DOMAIN s, <<b, c>> \in DOMAIN s
      PROVE  s[<<a, c>>] = s[<<a, b>>] + s[<<b, c>>]
  <2>1. CASE a = b
    <3>1. s[<<a, b>>] = 0 /\ s[<<b, c>>] \in Nat
      BY <1>3, <1>7, <1>8, <2>1 DEF IsTable
    <3> QED
      BY <2>1, <3>1
  <2>2. CASE b = c
    <3>1. s[<<b, c>>] = 0 /\ s[<<a, b>>] \in Nat
      BY <1>3, <1>7, <1>8, <2>2 DEF IsTable
    <3> QED
      BY <2>2, <3>1
  <2>3. CASE a # b /\ b # c
    <3>1. <<a, b>> \in DOMAIN t /\ <<b, c>> \in DOMAIN t
      BY <1>1, <1>8, <2>3
    <3>2. <<a, c>> \in DOMAIN t
      BY <3>1 DEF IsHierarchy, IsClosure, IsTransitive
    <3> QED
      BY <1>1, <3>1, <3>2 DEF IsHierarchy, IsDistance
  <2> QED
    BY <2>1, <2>2, <2>3
<1> QED
  BY <1>1, <1>3, <1>4, <1>5, <1>6, <1>7, <1>8 DEF IsHierarchy, IsClosure, IsDistance, s

(* The cross join: unless it repeats a row, it keeps a hierarchy.  A cycle *)
(* would need a location both in the subtree of id and above parent, and   *)
(* the join would then repeat that location's self row.                    *)
LEMMA InsertKeepsHierarchy ==
    ASSUME NEW t, NEW id \in Location, NEW parent \in Location,
           IsHierarchy(t), ~Conflicts(t, id, parent)
    PROVE  IsHierarchy(InsertRows(t, id, parent))
<1> DEFINE N == NewRows(t, id, parent)
           s == InsertRows(t, id, parent)
<1>1. \A k \in DOMAIN t : k = <<k[1], k[2]>> /\ k[1] \in Location /\ k[2] \in Location
  BY DEF IsHierarchy, IsClosure, IsTable
<1>2. \A a, b \in Location :
          <<a, b>> \in N <=> <<a, parent>> \in DOMAIN t /\ <<id, b>> \in DOMAIN t
  BY DEF NewRows
<1>3. N \subseteq Location \X Location /\ N \cap DOMAIN t = {}
  BY DEF NewRows, Conflicts
<1>4. /\ DOMAIN s = DOMAIN t \cup N
      /\ \A k \in DOMAIN t : s[k] = t[k]
      /\ \A a, b \in Location :
            <<a, b>> \in N => s[<<a, b>>] = t[<<a, parent>>] + t[<<id, b>>] + 1
  BY <1>3 DEF InsertRows
<1>5. \A k \in DOMAIN t : t[k] \in Nat
  BY DEF IsHierarchy, IsClosure, IsTable
<1>6. IsTable(s)
  <2>1. \A k \in DOMAIN s : s[k] \in Nat
    <3> SUFFICES ASSUME NEW k \in DOMAIN s
                 PROVE  s[k] \in Nat
      OBVIOUS
    <3>1. CASE k \in DOMAIN t
      BY <1>4, <1>5, <3>1
    <3>2. CASE k \in N
      <4>1. PICK a \in Location, b \in Location : k = <<a, b>>
        BY <1>3, <3>2
      <4>2. t[<<a, parent>>] \in Nat /\ t[<<id, b>>] \in Nat
        BY <1>2, <1>5, <3>2, <4>1
      <4>3. s[k] = t[<<a, parent>>] + t[<<id, b>>] + 1
        BY <1>4, <3>2, <4>1
      <4> QED
        BY <4>2, <4>3
    <3> QED
      BY <1>4, <3>1, <3>2
  <2>2. s = [k \in DOMAIN s |-> s[k]]
    BY DEF InsertRows
  <2>3. s \in [DOMAIN s -> Nat]
    BY <2>1, <2>2
  <2> QED
    BY <1>1, <1>3, <1>4, <2>3 DEF IsTable, IsHierarchy, IsClosure
<1> HIDE DEF s, N
<1>7. \A a, b \in Location : <<a, b>> \in N => a # b
  BY <1>2, <1>3, <1>1 DEF IsHierarchy, IsClosure, IsReflexive
<1>8. IsReflexive(s)
  <2>1. \A k \in DOMAIN t : <<k[1], k[1]>> \in DOMAIN t /\ <<k[2], k[2]>> \in DOMAIN t
    BY DEF IsHierarchy, IsClosure, IsReflexive
  <2>2. ASSUME NEW a \in Location, NEW b \in Location, <<a, b>> \in N
        PROVE  <<a, a>> \in DOMAIN t /\ <<b, b>> \in DOMAIN t
    <3>1. <<a, parent>> \in DOMAIN t /\ <<id, b>> \in DOMAIN t
      BY <1>2, <2>2
    <3>2. <<a, parent>>[1] = a /\ <<id, b>>[2] = b
      OBVIOUS
    <3> QED
      BY <2>1, <3>1, <3>2
  <2>3. \A k \in N : <<k[1], k[1]>> \in DOMAIN t /\ <<k[2], k[2]>> \in DOMAIN t
    BY <1>3, <2>2
  <2> QED
    BY <1>4, <2>1, <2>3 DEF IsReflexive
<1>9. ASSUME NEW a \in Location, NEW b \in Location, NEW c \in Location,
             <<a, b>> \in DOMAIN s, <<b, c>> \in DOMAIN s
      PROVE  <<a, c>> \in DOMAIN s /\ s[<<a, c>>] = s[<<a, b>>] + s[<<b, c>>]
  <2>1. CASE <<a, b>> \in DOMAIN t /\ <<b, c>> \in DOMAIN t
    <3>1. <<a, c>> \in DOMAIN t
      BY <2>1 DEF IsHierarchy, IsClosure, IsTransitive
    <3> QED
      BY <1>4, <2>1, <3>1 DEF IsHierarchy, IsDistance
  <2>2. CASE <<a, b>> \in DOMAIN t /\ <<b, c>> \in N
    <3>1. <<b, parent>> \in DOMAIN t /\ <<id, c>> \in DOMAIN t
      BY <1>2, <2>2
    <3>2. <<a, parent>> \in DOMAIN t
      BY <2>2, <3>1 DEF IsHierarchy, IsClosure, IsTransitive
    <3>3. <<a, c>> \in N
      BY <1>2, <3>1, <3>2
    <3>4. t[<<a, parent>>] = t[<<a, b>>] + t[<<b, parent>>]
      BY <2>2, <3>1 DEF IsHierarchy, IsDistance
    <3> QED
      BY <1>4, <1>5, <2>2, <3>1, <3>2, <3>3, <3>4
  <2>3. CASE <<a, b>> \in N /\ <<b, c>> \in DOMAIN t
    <3>1. <<a, parent>> \in DOMAIN t /\ <<id, b>> \in DOMAIN t
      BY <1>2, <2>3
    <3>2. <<id, c>> \in DOMAIN t
      BY <2>3, <3>1 DEF IsHierarchy, IsClosure, IsTransitive
    <3>3. <<a, c>> \in N
      BY <1>2, <3>1, <3>2
    <3>4. t[<<id, c>>] = t[<<id, b>>] + t[<<b, c>>]
      BY <2>3, <3>1 DEF IsHierarchy, IsDistance
    <3> QED
      BY <1>4, <1>5, <2>3, <3>1, <3>2, <3>3, <3>4
  <2>4. CASE <<a, b>> \in N /\ <<b, c>> \in N
    <3>1. <<b, b>> \in N
      BY <1>2, <2>4
    <3> QED
      BY <1>7, <3>1
  <2> QED
    BY <1>4, <1>9, <2>1, <2>2, <2>3, <2>4
<1>10. IsTransitive(s)
  BY <1>9 DEF IsTransitive
<1>11. IsAcyclic(s)
  <2> SUFFICES ASSUME NEW a \in Location, NEW b \in Location,
                      <<a, b>> \in DOMAIN s, <<b, a>> \in DOMAIN s
               PROVE  a = b
    BY DEF IsAcyclic
  <2>1. CASE <<a, b>> \in DOMAIN t /\ <<b, a>> \in DOMAIN t
    BY <2>1 DEF IsHierarchy, IsAcyclic
  <2>2. CASE <<a, b>> \in N
    <3>1. <<a, parent>> \in DOMAIN t /\ <<id, b>> \in DOMAIN t
      BY <1>2, <2>2
    <3>2. CASE <<b, a>> \in DOMAIN t
      <4>1. <<b, parent>> \in DOMAIN t
        BY <3>1, <3>2 DEF IsHierarchy, IsClosure, IsTransitive
      <4>2. <<b, b>> \in N
        BY <1>2, <3>1, <4>1
      <4> QED
        BY <1>7, <4>2
    <3>3. CASE <<b, a>> \in N
      <4>1. <<b, b>> \in N
        BY <1>2, <3>1, <3>3
      <4> QED
        BY <1>7, <4>1
    <3> QED
      BY <1>4, <3>2, <3>3
  <2>3. CASE <<b, a>> \in N /\ <<a, b>> \in DOMAIN t
    <3>1. <<b, parent>> \in DOMAIN t /\ <<id, a>> \in DOMAIN t
      BY <1>2, <2>3
    <3>2. <<a, parent>> \in DOMAIN t
      BY <2>3, <3>1 DEF IsHierarchy, IsClosure, IsTransitive
    <3>3. <<a, a>> \in N
      BY <1>2, <3>1, <3>2
    <3> QED
      BY <1>7, <3>3
  <2> QED
    BY <1>4, <2>1, <2>2, <2>3
<1>12. IsDistance(s)
  <2>1. \A k \in DOMAIN s : s[k] = 0 <=> k[1] = k[2]
    <3> SUFFICES ASSUME NEW k \in DOMAIN s
                 PROVE  s[k] = 0 <=> k[1] = k[2]
      OBVIOUS
    <3>1. CASE k \in DOMAIN t
      BY <1>4, <3>1 DEF IsHierarchy, IsDistance
    <3>2. CASE k \in N
      <4>1. PICK a \in Location, b \in Location : k = <<a, b>>
        BY <1>3, <3>2
      <4>2. t[<<a, parent>>] \in Nat /\ t[<<id, b>>] \in Nat
        BY <1>2, <1>5, <3>2, <4>1
      <4>3. s[k] = t[<<a, parent>>] + t[<<id, b>>] + 1
        BY <1>4, <3>2, <4>1
      <4>4. k[1] # k[2]
        BY <1>7, <3>2, <4>1
      <4> QED
        BY <4>2, <4>3, <4>4
    <3> QED
      BY <1>4, <3>1, <3>2
  <2> QED
    BY <1>9, <2>1 DEF IsDistance
<1> QED
  BY <1>6, <1>8, <1>10, <1>11, <1>12 DEF IsHierarchy, IsClosure, s

-----------------------------------------------------------------------------

LEMMA InitHierarchy == Init => IInv
  BY DEF Init, IInv, IsHierarchy, IsClosure, IsTable, IsReflexive, IsTransitive,
         IsAcyclic, IsDistance

LEMMA NextHierarchy == IInv /\ [Next]_tree => IInv'
<1> SUFFICES ASSUME IInv, [Next]_tree
             PROVE  IInv'
  OBVIOUS
<1>1. ASSUME NEW id \in Location, RemoveSubTree(id)
      PROVE  IInv'
  BY <1>1, RemoveSubTreeKeepsHierarchy DEF IInv, RemoveSubTree, Rows
<1>2. ASSUME NEW id \in Location, NEW hasPrevParent \in BOOLEAN,
             Detach(id, hasPrevParent)
      PROVE  IInv'
  BY <1>2, DetachKeepsHierarchy DEF IInv, Detach
<1>3. ASSUME NEW id \in Location, NEW hasPrevParent \in BOOLEAN,
             NEW parent \in Location \ {id}, Attach(id, parent, hasPrevParent)
      PROVE  IInv'
  <2> DEFINE t1 == Detached(tree, id, hasPrevParent)
             t2 == SelfLink(t1, parent)
             t3 == SelfLink(t2, id)
  <2>1. IsHierarchy(t1)
    BY DetachKeepsHierarchy DEF IInv
  <2>2. IsHierarchy(t2)
    BY <2>1, SelfLinkKeepsHierarchy
  <2>3. IsHierarchy(t3)
    BY <2>2, SelfLinkKeepsHierarchy
  <2>4. ~Conflicts(t3, id, parent) /\ tree' = InsertRows(t3, id, parent)
    BY <1>3 DEF Attach, Linked
  <2> HIDE DEF t1, t2, t3
  <2> QED
    BY <2>3, <2>4, InsertKeepsHierarchy DEF IInv
<1>4. ASSUME NEW id \in Location, NEW hasPrevParent \in BOOLEAN,
             NEW parent \in Location \ {id}, AttachRolledBack(id, parent, hasPrevParent)
      PROVE  IInv'
  BY <1>4 DEF AttachRolledBack, IInv
<1>5. CASE UNCHANGED tree
  BY <1>5 DEF IInv
<1> QED
  BY <1>1, <1>2, <1>3, <1>4, <1>5 DEF Next

(* The table is a hierarchy in every reachable state.                      *)
THEOREM HierarchyInvariant == Spec => []IInv
  BY InitHierarchy, NextHierarchy, PTL DEF Spec

(* Rows keep their type.                                                   *)
THEOREM TypeCorrect == Spec => []TypeOK
<1>1. IInv => TypeOK
  BY DEF IInv, IsHierarchy, IsClosure, TypeOK
<1> QED
  BY <1>1, HierarchyInvariant, PTL

(* For any set of locations and any sequence of calls, the table is a      *)
(* reflexive and transitive closure.                                       *)
THEOREM ClosureInvariant == Spec => []Closure
<1>1. IInv => Closure
  BY DEF IInv, IsHierarchy, IsClosure, Closure
<1> QED
  BY <1>1, HierarchyInvariant, PTL

(* No sequence of moves makes a location its own ancestor.                 *)
THEOREM AcyclicInvariant == Spec => []Acyclic
<1>1. IInv => Acyclic
  BY DEF IInv, IsHierarchy, Acyclic
<1> QED
  BY <1>1, HierarchyInvariant, PTL

(* Depths are distances in every reachable table.                          *)
THEOREM DepthInvariant == Spec => []DepthIsDistance
<1>1. IInv => DepthIsDistance
  BY DEF IInv, IsHierarchy, DepthIsDistance
<1> QED
  BY <1>1, HierarchyInvariant, PTL

-----------------------------------------------------------------------------
(* The second invariant rests on the first: an immediate child and an      *)
(* immediate parent lie on every chain of rows.                            *)

Link(t, a, b) == <<a, b>> \in DOMAIN t /\ t[<<a, b>>] = 1

IsStepwise(t) ==
    \A a, c \in Location : <<a, c>> \in DOMAIN t /\ a # c =>
        /\ \E b \in Location : Link(t, a, b) /\ <<b, c>> \in DOMAIN t
        /\ \E b \in Location : <<a, b>> \in DOMAIN t /\ Link(t, b, c)

Stepwise(t) == IsHierarchy(t) /\ IsStepwise(t)

(* A statement that adds self rows at most, and with (a,c) keeps both      *)
(* halves of every chain through some b.                                   *)
LEMMA ChainsKept ==
    ASSUME NEW t, NEW s, IsStepwise(t),
           \A a, c \in Location : <<a, c>> \in DOMAIN s /\ a # c => <<a, c>> \in DOMAIN t,
           \A k \in DOMAIN t \cap DOMAIN s : s[k] = t[k],
           \A a, b, c \in Location :
               /\ <<a, b>> \in DOMAIN t
               /\ <<b, c>> \in DOMAIN t
               /\ <<a, c>> \in DOMAIN t \cap DOMAIN s
               => <<a, b>> \in DOMAIN s /\ <<b, c>> \in DOMAIN s
    PROVE  IsStepwise(s)
<1> SUFFICES ASSUME NEW a \in Location, NEW c \in Location, <<a, c>> \in DOMAIN s, a # c
             PROVE  /\ \E b \in Location : Link(s, a, b) /\ <<b, c>> \in DOMAIN s
                    /\ \E b \in Location : <<a, b>> \in DOMAIN s /\ Link(s, b, c)
  BY DEF IsStepwise
<1>1. <<a, c>> \in DOMAIN t
  OBVIOUS
<1>2. PICK b \in Location : Link(t, a, b) /\ <<b, c>> \in DOMAIN t
  BY <1>1 DEF IsStepwise
<1>3. PICK d \in Location : <<a, d>> \in DOMAIN t /\ Link(t, d, c)
  BY <1>1 DEF IsStepwise
<1>4. Link(s, a, b) /\ <<b, c>> \in DOMAIN s
  BY <1>1, <1>2 DEF Link
<1>5. <<a, d>> \in DOMAIN s /\ Link(s, d, c)
  BY <1>1, <1>3 DEF Link
<1> QED
  BY <1>4, <1>5

LEMMA SelfLinkKeepsSteps ==
    ASSUME NEW t, NEW x \in Location, Stepwise(t)
    PROVE  Stepwise(SelfLink(t, x))
<1> DEFINE s == SelfLink(t, x)
<1>1. DOMAIN s = DOMAIN t \cup {<<x, x>>} /\ \A k \in DOMAIN t : s[k] = t[k]
  BY DEF SelfLink
<1>2. IsHierarchy(s)
  BY SelfLinkKeepsHierarchy DEF Stepwise
<1> HIDE DEF s
<1>3. IsStepwise(s)
  BY <1>1, ChainsKept DEF Stepwise
<1> QED
  BY <1>2, <1>3 DEF Stepwise, s

(* A new row (a,c) leads through the immediate child of a on the way to    *)
(* parent or, when a is parent, through id itself; and through the         *)
(* immediate parent of c below id or, when c is id, through parent.        *)
LEMMA InsertKeepsSteps ==
    ASSUME NEW t, NEW id \in Location, NEW parent \in Location,
           Stepwise(t), ~Conflicts(t, id, parent),
           <<id, id>> \in DOMAIN t, <<parent, parent>> \in DOMAIN t
    PROVE  Stepwise(InsertRows(t, id, parent))
<1> DEFINE N == NewRows(t, id, parent)
           s == InsertRows(t, id, parent)
<1>1. \A a, b \in Location :
          <<a, b>> \in N <=> <<a, parent>> \in DOMAIN t /\ <<id, b>> \in DOMAIN t
  BY DEF NewRows
<1>2. N \subseteq Location \X Location /\ N \cap DOMAIN t = {}
  BY DEF NewRows, Conflicts
<1>3. /\ DOMAIN s = DOMAIN t \cup N
      /\ \A k \in DOMAIN t : s[k] = t[k]
      /\ \A a, b \in Location :
            <<a, b>> \in N => s[<<a, b>>] = t[<<a, parent>>] + t[<<id, b>>] + 1
  BY <1>2 DEF InsertRows
<1>4. IsHierarchy(s)
  BY InsertKeepsHierarchy DEF Stepwise
<1> HIDE DEF s, N
<1>5. t[<<parent, parent>>] = 0 /\ t[<<id, id>>] = 0
  BY DEF Stepwise, IsHierarchy, IsDistance
<1>6. Link(s, parent, id) /\ \A a, b \in Location : Link(t, a, b) => Link(s, a, b)
  BY <1>1, <1>3, <1>5 DEF Link
<1>7. ASSUME NEW a \in Location, NEW c \in Location, <<a, c>> \in DOMAIN t, a # c
      PROVE  /\ \E b \in Location : Link(s, a, b) /\ <<b, c>> \in DOMAIN s
             /\ \E b \in Location : <<a, b>> \in DOMAIN s /\ Link(s, b, c)
  BY <1>3, <1>6, <1>7 DEF Stepwise, IsStepwise
<1>8. ASSUME NEW a \in Location, NEW c \in Location, <<a, c>> \in N
      PROVE  \E b \in Location : Link(s, a, b) /\ <<b, c>> \in DOMAIN s
  <2>1. <<a, parent>> \in DOMAIN t /\ <<id, c>> \in DOMAIN t
    BY <1>1, <1>8
  <2>2. CASE a = parent
    BY <1>3, <1>6, <2>1, <2>2
  <2>3. CASE a # parent
    <3>1. PICK b \in Location : Link(t, a, b) /\ <<b, parent>> \in DOMAIN t
      BY <2>1, <2>3 DEF Stepwise, IsStepwise
    <3> QED
      BY <1>1, <1>3, <1>6, <2>1, <3>1
  <2> QED
    BY <2>2, <2>3
<1>9. ASSUME NEW a \in Location, NEW c \in Location, <<a, c>> \in N
      PROVE  \E b \in Location : <<a, b>> \in DOMAIN s /\ Link(s, b, c)
  <2>1. <<a, parent>> \in DOMAIN t /\ <<id, c>> \in DOMAIN t
    BY <1>1, <1>9
  <2>2. CASE c = id
    BY <1>3, <1>6, <2>1, <2>2
  <2>3. CASE c # id
    <3>1. PICK b \in Location : <<id, b>> \in DOMAIN t /\ Link(t, b, c)
      BY <2>1, <2>3 DEF Stepwise, IsStepwise
    <3> QED
      BY <1>1, <1>3, <1>6, <2>1, <3>1
  <2> QED
    BY <2>2, <2>3
<1>10. IsStepwise(s)
  BY <1>3, <1>7, <1>8, <1>9 DEF IsStepwise
<1> QED
  BY <1>4, <1>10 DEF Stepwise, s

LEMMA RemoveSubTreeKeepsSteps ==
    ASSUME NEW t, NEW id \in Location, Stepwise(t)
    PROVE  Stepwise(DeleteRows(t, {k \in DOMAIN t : <<id, k[2]>> \in DOMAIN t}))
<1> DEFINE K == {k \in DOMAIN t : <<id, k[2]>> \in DOMAIN t}
           s == DeleteRows(t, K)
<1>1. DOMAIN s = DOMAIN t \ K /\ \A k \in DOMAIN s : s[k] = t[k]
  BY DEF DeleteRows
<1>2. ASSUME NEW a \in Location, NEW b \in Location, NEW c \in Location,
             <<a, b>> \in DOMAIN t, <<b, c>> \in DOMAIN t, <<a, c>> \in DOMAIN t \ K
      PROVE  <<a, b>> \notin K /\ <<b, c>> \notin K
  <2>1. <<id, c>> \notin DOMAIN t
    BY <1>2
  <2>2. <<id, b>> \notin DOMAIN t
    BY <1>2, <2>1 DEF Stepwise, IsHierarchy, IsClosure, IsTransitive
  <2> QED
    BY <2>1, <2>2
<1>3. IsHierarchy(s)
  BY RemoveSubTreeKeepsHierarchy DEF Stepwise
<1> HIDE DEF s, K
<1>4. IsStepwise(s)
  BY <1>1, <1>2, ChainsKept DEF Stepwise
<1> QED
  BY <1>3, <1>4 DEF Stepwise, s, K

LEMMA DetachKeepsSteps ==
    ASSUME NEW t, NEW id \in Location, NEW hasPrevParent \in BOOLEAN, Stepwise(t)
    PROVE  Stepwise(Detached(t, id, hasPrevParent))
<1> DEFINE K == DetachedRows(t, id)
           s == DeleteRows(t, K)
<1>1. DOMAIN s = DOMAIN t \ K /\ \A k \in DOMAIN s : s[k] = t[k]
  BY DEF DeleteRows
<1>2. ASSUME NEW a \in Location, NEW b \in Location, NEW c \in Location,
             <<a, b>> \in DOMAIN t, <<b, c>> \in DOMAIN t, <<a, c>> \in DOMAIN t \ K
      PROVE  <<a, b>> \notin K /\ <<b, c>> \notin K
  <2>1. \A x, y, z \in Location :
            <<x, y>> \in DOMAIN t /\ <<y, z>> \in DOMAIN t => <<x, z>> \in DOMAIN t
    BY DEF Stepwise, IsHierarchy, IsClosure, IsTransitive
  <2>2. \A x, y \in Location : <<x, y>> \in K <=>
            <<x, y>> \in DOMAIN t /\ <<id, y>> \in DOMAIN t /\ <<id, x>> \notin DOMAIN t
    BY DEF DetachedRows
  <2> HIDE DEF K
  <2> QED
    BY <1>2, <2>1, <2>2
<1>3. Detached(t, id, hasPrevParent) \in {s, t}
  BY DEF Detached
<1>4. IsHierarchy(Detached(t, id, hasPrevParent))
  BY DetachKeepsHierarchy DEF Stepwise
<1> HIDE DEF s, K
<1>5. IsStepwise(s)
  BY <1>1, <1>2, ChainsKept DEF Stepwise
<1> QED
  BY <1>3, <1>4, <1>5 DEF Stepwise

(* The transaction of a move, before the cross join.                       *)
LEMMA LinkedIsStepwise ==
    ASSUME NEW t, NEW id \in Location, NEW parent \in Location,
           NEW hasPrevParent \in BOOLEAN, Stepwise(t)
    PROVE  /\ Stepwise(Linked(t, id, parent, hasPrevParent))
           /\ \A k : k \in DOMAIN Linked(t, id, parent, hasPrevParent) <=>
                \/ k \in DOMAIN Detached(t, id, hasPrevParent)
                \/ k \in {<<parent, parent>>, <<id, id>>}
           /\ <<parent, parent>> \in DOMAIN Linked(t, id, parent, hasPrevParent)
           /\ <<id, id>> \in DOMAIN Linked(t, id, parent, hasPrevParent)
<1> DEFINE t1 == Detached(t, id, hasPrevParent)
           t2 == SelfLink(t1, parent)
           t3 == SelfLink(t2, id)
<1>1. Stepwise(t1)
  BY DetachKeepsSteps
<1> HIDE DEF t1
<1>2. Stepwise(t2)
  BY <1>1, SelfLinkKeepsSteps
<1>3. DOMAIN t3 = DOMAIN t1 \cup {<<parent, parent>>, <<id, id>>}
  BY DEF SelfLink
<1> HIDE DEF t2
<1>4. Stepwise(t3)
  BY <1>2, SelfLinkKeepsSteps
<1> QED
  BY <1>3, <1>4 DEF Linked, t1, t2

LEMMA NextSteps == Stepwise(tree) /\ [Next]_tree => Stepwise(tree)'
<1> SUFFICES ASSUME Stepwise(tree), [Next]_tree
             PROVE  Stepwise(tree')
  BY DEF Stepwise, IsHierarchy, IsClosure, IsTable, IsReflexive, IsTransitive,
         IsAcyclic, IsDistance, IsStepwise, Link
<1>1. ASSUME NEW id \in Location, RemoveSubTree(id)
      PROVE  Stepwise(tree')
  BY <1>1, RemoveSubTreeKeepsSteps DEF RemoveSubTree, Rows
<1>2. ASSUME NEW id \in Location, NEW hasPrevParent \in BOOLEAN,
             Detach(id, hasPrevParent)
      PROVE  Stepwise(tree')
  BY <1>2, DetachKeepsSteps DEF Detach
<1>3. ASSUME NEW id \in Location, NEW hasPrevParent \in BOOLEAN,
             NEW parent \in Location \ {id}, Attach(id, parent, hasPrevParent)
      PROVE  Stepwise(tree')
  <2> DEFINE l == Linked(tree, id, parent, hasPrevParent)
  <2>1. ~Conflicts(l, id, parent) /\ tree' = InsertRows(l, id, parent)
    BY <1>3 DEF Attach
  <2>2. Stepwise(l) /\ <<parent, parent>> \in DOMAIN l /\ <<id, id>> \in DOMAIN l
    BY LinkedIsStepwise
  <2> HIDE DEF l
  <2> QED
    BY <2>1, <2>2, InsertKeepsSteps
<1>4. ASSUME NEW id \in Location, NEW hasPrevParent \in BOOLEAN,
             NEW parent \in Location \ {id}, AttachRolledBack(id, parent, hasPrevParent)
      PROVE  Stepwise(tree')
  BY <1>4 DEF AttachRolledBack
<1>5. CASE UNCHANGED tree
  BY <1>5
<1> QED
  BY <1>1, <1>2, <1>3, <1>4, <1>5 DEF Next

LEMMA StepwiseInvariant == Spec => []Stepwise(tree)
<1>1. Init => Stepwise(tree)
  BY InitHierarchy DEF Init, IInv, Stepwise, IsStepwise
<1> QED
  BY <1>1, NextSteps, PTL DEF Spec

(* Whoever is below a location is below one of its immediate children.     *)
THEOREM ReachedByChildrenInvariant == Spec => []ReachedByChildren
<1>1. Stepwise(tree) => ReachedByChildren
  BY DEF Stepwise, IsStepwise, Link, ReachedByChildren, IsReachedByChildren,
         ImmediateChildren
<1> QED
  BY <1>1, StepwiseInvariant, PTL

-----------------------------------------------------------------------------
(* A move, row by row.                                                     *)

(* The row (a,b) is there and survives the deletion of a move of id.       *)
Stays(t, id, hasPrevParent, a, b) ==
    /\ <<a, b>> \in DOMAIN t
    /\ hasPrevParent /\ <<id, b>> \in DOMAIN t => <<id, a>> \in DOMAIN t

(* A pair is a row after the deletion unless it led into the subtree of id *)
(* from outside; the self rows of id and parent are there in any case; and *)
(* the cross join puts parent's ancestors above id's descendants.          *)
LEMMA RowsOfMove ==
    ASSUME NEW t, NEW id \in Location, NEW parent \in Location, id # parent,
           NEW hasPrevParent \in BOOLEAN, Stepwise(t),
           ~Conflicts(Linked(t, id, parent, hasPrevParent), id, parent)
    PROVE  LET l == Linked(t, id, parent, hasPrevParent)
               s == InsertRows(l, id, parent)
           IN  /\ \A a, b \in Location : <<a, b>> \in DOMAIN l <=>
                    \/ a = b /\ a \in {id, parent}
                    \/ Stays(t, id, hasPrevParent, a, b)
               /\ \A a, b \in Location : <<a, b>> \in DOMAIN s <=>
                    \/ <<a, b>> \in DOMAIN l
                    \/ <<a, parent>> \in DOMAIN l /\ <<id, b>> \in DOMAIN l
               /\ <<id, parent>> \notin DOMAIN l
               /\ \A k \in DOMAIN t \cap DOMAIN l : s[k] = t[k]
               /\ \A a, b \in Location : Link(s, a, b) <=>
                    \/ Link(t, a, b) /\ <<a, b>> \in DOMAIN l
                    \/ a = parent /\ b = id
<1> DEFINE l == Linked(t, id, parent, hasPrevParent)
           s == InsertRows(l, id, parent)
           N == NewRows(l, id, parent)
           d == Detached(t, id, hasPrevParent)
<1>1. /\ Stepwise(l)
      /\ \A k : k \in DOMAIN l <=> k \in DOMAIN d \/ k \in {<<parent, parent>>, <<id, id>>}
  BY LinkedIsStepwise
<1>2. \A a, b \in Location : <<a, b>> \in DOMAIN d <=> Stays(t, id, hasPrevParent, a, b)
  BY DEF Detached, DeleteRows, DetachedRows, Stays
<1>3. \A k \in DOMAIN d : k \in DOMAIN t /\ d[k] = t[k]
  BY DEF Detached, DeleteRows
<1>4. \A k \in DOMAIN d : l[k] = d[k]
  BY DEF Linked, SelfLink
<1>5. /\ \A a, b \in Location : <<a, b>> \in N <=>
            <<a, parent>> \in DOMAIN l /\ <<id, b>> \in DOMAIN l
      /\ N \cap DOMAIN l = {}
  BY DEF NewRows, Conflicts
<1>6. /\ DOMAIN s = DOMAIN l \cup N
      /\ \A k \in DOMAIN l : s[k] = l[k]
      /\ \A a, b \in Location :
            <<a, b>> \in N => s[<<a, b>>] = l[<<a, parent>>] + l[<<id, b>>] + 1
  BY <1>5 DEF InsertRows
<1> HIDE DEF l, s, N, d
<1>7. /\ <<id, id>> \in DOMAIN l /\ <<parent, parent>> \in DOMAIN l
      /\ \A k \in DOMAIN l : l[k] \in Nat
      /\ \A a, b \in Location : <<a, b>> \in DOMAIN l => (l[<<a, b>>] = 0 <=> a = b)
  BY <1>1 DEF Stepwise, IsHierarchy, IsClosure, IsTable, IsDistance
<1>8. <<id, parent>> \notin DOMAIN l
  BY <1>5, <1>7
<1>9. \A a, b \in Location : <<a, b>> \in DOMAIN l <=>
          (a = b /\ a \in {id, parent}) \/ <<a, b>> \in DOMAIN d
  BY <1>1
<1>10. \A k \in DOMAIN t \cap DOMAIN l : l[k] = t[k]
  <2> SUFFICES ASSUME NEW k \in DOMAIN t, k \in DOMAIN l
               PROVE  l[k] = t[k]
    OBVIOUS
  <2>1. CASE k \in DOMAIN d
    BY <1>3, <1>4, <2>1
  <2>2. CASE k \in {<<parent, parent>>, <<id, id>>}
    BY <1>7, <2>2 DEF Stepwise, IsHierarchy, IsDistance
  <2> QED
    BY <1>1, <2>1, <2>2
<1>11. \A a, b \in Location : Link(s, a, b) <=> Link(l, a, b) \/ (a = parent /\ b = id)
  <2> SUFFICES ASSUME NEW a \in Location, NEW b \in Location
               PROVE  Link(s, a, b) <=> Link(l, a, b) \/ (a = parent /\ b = id)
    OBVIOUS
  <2>1. CASE <<a, b>> \in DOMAIN l
    BY <1>5, <1>6, <1>7, <2>1 DEF Link
  <2>2. CASE <<a, b>> \in N
    <3>1. s[<<a, b>>] = l[<<a, parent>>] + l[<<id, b>>] + 1
      BY <1>6, <2>2
    <3>2. l[<<a, parent>>] \in Nat /\ l[<<id, b>>] \in Nat
      BY <1>5, <1>7, <2>2
    <3>3. s[<<a, b>>] = 1 <=> l[<<a, parent>>] = 0 /\ l[<<id, b>>] = 0
      BY <3>1, <3>2
    <3>4. s[<<a, b>>] = 1 <=> a = parent /\ id = b
      BY <1>5, <1>7, <2>2, <3>3
    <3> QED
      BY <1>5, <1>6, <2>2, <3>4 DEF Link
  <2>3. CASE <<a, b>> \notin DOMAIN l /\ <<a, b>> \notin N
    BY <1>5, <1>6, <1>7, <2>3 DEF Link
  <2> QED
    BY <2>1, <2>2, <2>3
<1>12. \A a, b \in Location : <<a, b>> \in DOMAIN s <=>
           \/ <<a, b>> \in DOMAIN l
           \/ <<a, parent>> \in DOMAIN l /\ <<id, b>> \in DOMAIN l
  BY <1>5, <1>6
<1>13. \A k \in DOMAIN t \cap DOMAIN l : s[k] = t[k]
  BY <1>6, <1>10
<1>14. \A a, b \in Location : <<a, b>> \in DOMAIN l <=>
           \/ a = b /\ a \in {id, parent}
           \/ Stays(t, id, hasPrevParent, a, b)
  BY <1>2, <1>9
<1>15. \A a, b \in Location : Link(l, a, b) <=> Link(t, a, b) /\ <<a, b>> \in DOMAIN l
  <2> SUFFICES ASSUME NEW a \in Location, NEW b \in Location, <<a, b>> \in DOMAIN l
               PROVE  Link(l, a, b) <=> Link(t, a, b)
    BY DEF Link
  <2>1. CASE <<a, b>> \in DOMAIN t
    BY <1>10, <2>1 DEF Link
  <2>2. CASE <<a, b>> \notin DOMAIN t
    <3>1. a = b
      BY <1>14, <2>2 DEF Stays
    <3>2. l[<<a, b>>] = 0
      BY <1>7, <3>1
    <3> QED
      BY <2>2, <3>2 DEF Link
  <2> QED
    BY <2>1, <2>2
<1> QED
  BY <1>8, <1>11, <1>12, <1>13, <1>14, <1>15 DEF l, s

(* The proper ancestors and descendants that the reads return are those    *)
(* with a row.                                                             *)
LEMMA ReadsOfHierarchy ==
    ASSUME NEW t, IsHierarchy(t), NEW id \in Location
    PROVE  /\ AllParents(t, id) = {p \in Location : p # id /\ <<p, id>> \in DOMAIN t}
           /\ AllChildren(t, id) = {c \in Location : c # id /\ <<id, c>> \in DOMAIN t}
<1>1. \A k \in DOMAIN t : t[k] \in Nat /\ (t[k] = 0 <=> k[1] = k[2])
  BY DEF IsHierarchy, IsClosure, IsTable, IsDistance
<1>2. \A a, b \in Location : <<a, b>>[1] = a /\ <<a, b>>[2] = b
  OBVIOUS
<1>3. \A a, b \in Location : <<a, b>> \in DOMAIN t => (t[<<a, b>>] > 0 <=> a # b)
  BY <1>1, <1>2
<1> QED
  BY <1>3 DEF AllParents, AllChildren

LEMMA MoveIsExact ==
    ASSUME NEW t, NEW id \in Location, NEW parent \in Location, id # parent,
           NEW hasPrevParent \in BOOLEAN, hasPrevParent, Stepwise(t),
           ~Conflicts(Linked(t, id, parent, hasPrevParent), id, parent)
    PROVE  LET s == InsertRows(Linked(t, id, parent, hasPrevParent), id, parent)
           IN  /\ AllParents(s, id) = {parent} \cup AllParents(s, parent)
               /\ AllChildren(s, id) = AllChildren(t, id)
<1> DEFINE l == Linked(t, id, parent, hasPrevParent)
           s == InsertRows(l, id, parent)
<1>1. Stepwise(l) /\ <<parent, parent>> \in DOMAIN l /\ <<id, id>> \in DOMAIN l
  BY LinkedIsStepwise
<1>2. Stepwise(s)
  BY <1>1, InsertKeepsSteps
<1>3. /\ \A a, b \in Location : <<a, b>> \in DOMAIN l <=>
            \/ a = b /\ a \in {id, parent}
            \/ /\ <<a, b>> \in DOMAIN t
               /\ <<id, b>> \in DOMAIN t => <<id, a>> \in DOMAIN t
      /\ \A a, b \in Location : <<a, b>> \in DOMAIN s <=>
            \/ <<a, b>> \in DOMAIN l
            \/ <<a, parent>> \in DOMAIN l /\ <<id, b>> \in DOMAIN l
      /\ <<id, parent>> \notin DOMAIN l
  <2>1. /\ \A a, b \in Location : <<a, b>> \in DOMAIN l <=>
            (a = b /\ a \in {id, parent}) \/ Stays(t, id, hasPrevParent, a, b)
        /\ \A a, b \in Location : <<a, b>> \in DOMAIN s <=>
            \/ <<a, b>> \in DOMAIN l
            \/ <<a, parent>> \in DOMAIN l /\ <<id, b>> \in DOMAIN l
        /\ <<id, parent>> \notin DOMAIN l
    BY RowsOfMove
  <2> HIDE DEF l, s
  <2> QED
    BY <2>1 DEF Stays
<1> HIDE DEF l, s
<1>4. \A a, b \in Location : <<a, b>> \in DOMAIN t => <<a, a>> \in DOMAIN t /\ <<b, b>> \in DOMAIN t
  <2> SUFFICES ASSUME NEW a \in Location, NEW b \in Location, <<a, b>> \in DOMAIN t
               PROVE  <<a, a>> \in DOMAIN t /\ <<b, b>> \in DOMAIN t
    OBVIOUS
  <2>1. <<a, b>>[1] = a /\ <<a, b>>[2] = b
    OBVIOUS
  <2> QED
    BY <2>1 DEF Stepwise, IsHierarchy, IsClosure, IsReflexive
<1>5. \A a \in Location : <<a, id>> \in DOMAIN l => a = id
  BY <1>3, <1>4 DEF Stepwise, IsHierarchy, IsAcyclic
<1>6. \A a \in Location : a # id => (<<a, id>> \in DOMAIN s <=> <<a, parent>> \in DOMAIN s)
  BY <1>1, <1>3, <1>5
<1>7. <<parent, parent>> \in DOMAIN s /\ <<id, parent>> \notin DOMAIN s
  BY <1>1, <1>3
<1>8. AllParents(s, id) = {parent} \cup AllParents(s, parent)
  <2>1. /\ AllParents(s, id) = {p \in Location : p # id /\ <<p, id>> \in DOMAIN s}
        /\ AllParents(s, parent) = {p \in Location : p # parent /\ <<p, parent>> \in DOMAIN s}
    BY <1>2, ReadsOfHierarchy DEF Stepwise
  <2> QED
    BY <1>6, <1>7, <2>1
<1>9. \A c \in Location : c # id => (<<id, c>> \in DOMAIN s <=> <<id, c>> \in DOMAIN t)
  BY <1>3, <1>4
<1>10. AllChildren(s, id) = AllChildren(t, id)
  <2>1. /\ AllChildren(s, id) = {c \in Location : c # id /\ <<id, c>> \in DOMAIN s}
        /\ AllChildren(t, id) = {c \in Location : c # id /\ <<id, c>> \in DOMAIN t}
    BY <1>2, ReadsOfHierarchy DEF Stepwise
  <2> QED
    BY <1>9, <2>1
<1> QED
  BY <1>8, <1>10 DEF l, s

(* For any hierarchy: a move that commits leaves the location below its    *)
(* new parent and what is above that, with all its descendants.            *)
THEOREM MoveTheorem == Spec => MovedExactly
<1>1. ASSUME Stepwise(tree), NEW id \in Location, NEW parent \in Location, id # parent,
             Attach(id, parent, TRUE)
      PROVE  /\ AllParents(tree', id) = {parent} \cup AllParents(tree', parent)
             /\ AllChildren(tree', id) = AllChildren(tree, id)
  BY <1>1, MoveIsExact DEF Attach
<1>2. Stepwise(tree) /\ [Next]_tree =>
          [\A id \in Location, parent \in Location :
              (id # parent /\ Attach(id, parent, TRUE)) =>
                  /\ AllParents(tree', id) = {parent} \cup AllParents(tree', parent)
                  /\ AllChildren(tree', id) = AllChildren(tree, id)]_tree
  BY <1>1
<1> QED
  BY <1>2, StepwiseInvariant, PTL DEF Spec, MovedExactly

-----------------------------------------------------------------------------
(* The cache of CachedLocationTree.  What it asks of the table.            *)

LEMMA TableFacts ==
    ASSUME NEW t, Stepwise(t)
    PROVE  /\ \A a, b \in Location : <<a, b>> \in DOMAIN t =>
                <<a, a>> \in DOMAIN t /\ <<b, b>> \in DOMAIN t
           /\ \A a, b, c \in Location :
                <<a, b>> \in DOMAIN t /\ <<b, c>> \in DOMAIN t => <<a, c>> \in DOMAIN t
           /\ \A id, x \in Location :
                /\ x \in AllChildren(t, id) <=> x # id /\ <<id, x>> \in DOMAIN t
                /\ x \in AllParents(t, id) <=> x # id /\ <<x, id>> \in DOMAIN t
           /\ \A id \in Location : ImmediateChildren(t, id) = {} => AllChildren(t, id) = {}
<1>1. IsHierarchy(t) /\ IsStepwise(t)
  BY DEF Stepwise
<1>2. \A a, b \in Location : <<a, b>> \in DOMAIN t =>
          /\ <<a, a>> \in DOMAIN t /\ <<b, b>> \in DOMAIN t
          /\ t[<<a, b>>] > 0 <=> a # b
  <2> SUFFICES ASSUME NEW a \in Location, NEW b \in Location, <<a, b>> \in DOMAIN t
               PROVE  /\ <<a, a>> \in DOMAIN t /\ <<b, b>> \in DOMAIN t
                      /\ t[<<a, b>>] > 0 <=> a # b
    OBVIOUS
  <2>1. <<a, b>>[1] = a /\ <<a, b>>[2] = b
    OBVIOUS
  <2>2. t[<<a, b>>] \in Nat
    BY <1>1 DEF IsHierarchy, IsClosure, IsTable
  <2>3. t[<<a, b>>] = 0 <=> a = b
    BY <1>1, <2>1 DEF IsHierarchy, IsDistance
  <2>4. <<a, a>> \in DOMAIN t /\ <<b, b>> \in DOMAIN t
    BY <1>1, <2>1 DEF IsHierarchy, IsClosure, IsReflexive
  <2> QED
    BY <2>2, <2>3, <2>4
<1>3. \A a, b, c \in Location :
          <<a, b>> \in DOMAIN t /\ <<b, c>> \in DOMAIN t => <<a, c>> \in DOMAIN t
  BY <1>1 DEF IsHierarchy, IsClosure, IsTransitive
<1>4. \A id, x \in Location :
          /\ x \in AllChildren(t, id) <=> x # id /\ <<id, x>> \in DOMAIN t
          /\ x \in AllParents(t, id) <=> x # id /\ <<x, id>> \in DOMAIN t
  BY <1>2 DEF AllChildren, AllParents
<1>5. ASSUME NEW id \in Location, ImmediateChildren(t, id) = {}
      PROVE  AllChildren(t, id) = {}
  <2>1. \A b \in Location : ~Link(t, id, b)
    BY <1>5 DEF Link, ImmediateChildren
  <2>2. \A c \in Location : ~(c # id /\ <<id, c>> \in DOMAIN t)
    BY <1>1, <2>1 DEF IsStepwise
  <2>3. AllChildren(t, id) \subseteq Location
    BY DEF AllChildren
  <2> QED
    BY <1>4, <2>2, <2>3
<1> QED
  BY <1>2, <1>3, <1>4, <1>5

(* The row that a member x of the sorted set k stands for.                 *)
RowOf(k, x) == IF k[1] = "children" THEN <<k[2], x>> ELSE <<x, k[2]>>

Members(t, k) == {x \in Location : x = k[2] \/ RowOf(k, x) \in DOMAIN t}
EntryIn(t, k) == [x \in Members(t, k) |-> IF x = k[2] THEN 0 ELSE t[RowOf(k, x)]]

LEMMA EntryOfRows ==
    ASSUME NEW t, Stepwise(t), NEW k \in Key
    PROVE  LET others == IF k[1] = "children" THEN AllChildren(t, k[2])
                                              ELSE AllParents(t, k[2])
           IN  [x \in others \cup {k[2]} |->
                   IF x = k[2] THEN 0
                   ELSE IF k[1] = "children" THEN t[<<k[2], x>>] ELSE t[<<x, k[2]>>]]
               = EntryIn(t, k)
<1>1. k[2] \in Location /\ k[1] \in {"parents", "children"}
  BY DEF Key
<1>2. CASE k[1] = "children"
  <2>1. AllChildren(t, k[2]) \subseteq Location
    BY DEF AllChildren
  <2>3. \A x \in Location : x \in AllChildren(t, k[2]) <=> x # k[2] /\ <<k[2], x>> \in DOMAIN t
    BY <1>1, TableFacts
  <2>2. AllChildren(t, k[2]) \cup {k[2]} = Members(t, k)
    BY <1>1, <1>2, <2>1, <2>3 DEF RowOf, Members
  <2> QED
    BY <1>2, <2>2 DEF EntryIn, RowOf
<1>3. CASE k[1] # "children"
  <2>1. AllParents(t, k[2]) \subseteq Location
    BY DEF AllParents
  <2>3. \A x \in Location : x \in AllParents(t, k[2]) <=> x # k[2] /\ <<x, k[2]>> \in DOMAIN t
    BY <1>1, TableFacts
  <2>2. AllParents(t, k[2]) \cup {k[2]} = Members(t, k)
    BY <1>1, <1>3, <2>1, <2>3 DEF RowOf, Members
  <2> QED
    BY <1>3, <2>2 DEF EntryIn, RowOf
<1> QED
  BY <1>2, <1>3

LEMMA Entries ==
    ASSUME NEW k \in Key
    PROVE  /\ Stepwise(tree) => Entry(k) = EntryIn(tree, k)
           /\ Stepwise(tree') => Entry(k)' = EntryIn(tree', k)
  BY EntryOfRows DEF Entry

(* An entry whose rows a statement leaves alone is as good as before.      *)
LEMMA SameEntry ==
    ASSUME NEW s, NEW t, NEW k \in Key,
           \A x \in Location : x # k[2] =>
               /\ RowOf(k, x) \in DOMAIN s <=> RowOf(k, x) \in DOMAIN t
               /\ RowOf(k, x) \in DOMAIN s => t[RowOf(k, x)] = s[RowOf(k, x)]
    PROVE  EntryIn(t, k) = EntryIn(s, k)
<1>1. Members(t, k) = Members(s, k)
  BY DEF Members
<1>2. \A x \in Members(s, k) : x # k[2] => t[RowOf(k, x)] = s[RowOf(k, x)]
  BY DEF Members
<1> QED
  BY <1>1, <1>2 DEF EntryIn

(* An entry that loses the row of one other member, and that alone.        *)
LEMMA TrimmedEntry ==
    ASSUME NEW s, NEW t, NEW k \in Key, NEW id \in Location, id # k[2],
           \A x \in Location : x # k[2] =>
               /\ RowOf(k, x) \in DOMAIN t <=> RowOf(k, x) \in DOMAIN s /\ x # id
               /\ RowOf(k, x) \in DOMAIN t => t[RowOf(k, x)] = s[RowOf(k, x)]
    PROVE  EntryIn(t, k) = ZRem(EntryIn(s, k), id)
<1>1. Members(t, k) = Members(s, k) \ {id}
  BY DEF Members
<1>2. \A x \in Members(t, k) : x # k[2] => t[RowOf(k, x)] = s[RowOf(k, x)]
  BY DEF Members
<1>3. DOMAIN EntryIn(s, k) = Members(s, k)
  BY DEF EntryIn
<1> QED
  BY <1>1, <1>2, <1>3 DEF EntryIn, ZRem

-----------------------------------------------------------------------------
(* What the two transactions change.                                       *)

LEMMA RemovedRows ==
    ASSUME Stepwise(tree), NEW id \in Location, RemoveSubTree(id),
           AllChildren(tree, id) = {}
    PROVE  \A a, b \in Location :
               /\ <<a, b>> \in DOMAIN tree' <=> <<a, b>> \in DOMAIN tree /\ b # id
               /\ <<a, b>> \in DOMAIN tree' => tree'[<<a, b>>] = tree[<<a, b>>]
<1>1. \A k : /\ k \in DOMAIN tree' <=> k \in DOMAIN tree /\ <<id, k[2]>> \notin DOMAIN tree
             /\ k \in DOMAIN tree' => tree'[k] = tree[k]
  BY DEF RemoveSubTree, DeleteRows, Rows
<1>2. \A c \in Location : <<id, c>> \in DOMAIN tree => c = id
  BY TableFacts
<1>3. \A a \in Location : <<a, id>> \in DOMAIN tree => <<id, id>> \in DOMAIN tree
  BY TableFacts
<1> SUFFICES ASSUME NEW a \in Location, NEW b \in Location
             PROVE  /\ <<a, b>> \in DOMAIN tree' <=> <<a, b>> \in DOMAIN tree /\ b # id
                    /\ <<a, b>> \in DOMAIN tree' => tree'[<<a, b>>] = tree[<<a, b>>]
  OBVIOUS
<1>4. <<a, b>>[2] = b
  OBVIOUS
<1> QED
  BY <1>1, <1>2, <1>3, <1>4

(* Where a move may put a row or another depth, and where it may delete one.*)
Gained(id, parent, a, b) ==
    /\ parent \in Location
    /\ a = parent \/ <<a, parent>> \in DOMAIN tree
    /\ b = id \/ <<id, b>> \in DOMAIN tree
Lost(id, hasPrev, a, b) ==
    hasPrev /\ <<id, b>> \in DOMAIN tree /\ <<id, a>> \notin DOMAIN tree

LEMMA MovedRows ==
    ASSUME Stepwise(tree), NEW id \in Location, NEW parent \in Location \cup {NoParent},
           parent # id, NEW hasPrev \in BOOLEAN,
           IF parent = NoParent THEN Detach(id, hasPrev) ELSE Attach(id, parent, hasPrev)
    PROVE  \A a, b \in Location : a # b =>
               /\ <<a, b>> \in DOMAIN tree' =>
                    \/ <<a, b>> \in DOMAIN tree /\ tree'[<<a, b>>] = tree[<<a, b>>]
                    \/ Gained(id, parent, a, b)
               /\ <<a, b>> \in DOMAIN tree /\ <<a, b>> \notin DOMAIN tree' =>
                    Lost(id, hasPrev, a, b)
<1> DEFINE d == Detached(tree, id, hasPrev)
<1>1. /\ \A k \in DOMAIN d : k \in DOMAIN tree /\ d[k] = tree[k]
      /\ \A a, b \in Location : <<a, b>> \in DOMAIN tree /\ <<a, b>> \notin DOMAIN d =>
            Lost(id, hasPrev, a, b)
  BY DEF Lost, Detached, DeleteRows, DetachedRows
<1> HIDE DEF d
<1>2. CASE parent = NoParent
  <2>1. tree' = d
    BY <1>2 DEF Detach, d
  <2> QED
    BY <1>1, <2>1
<1>3. CASE parent # NoParent
  <2> DEFINE l == Linked(tree, id, parent, hasPrev)
             N == NewRows(l, id, parent)
  <2>1. parent \in Location
    BY <1>3
  <2>2. /\ \A k : k \in DOMAIN l <=> k \in DOMAIN d \/ k \in {<<parent, parent>>, <<id, id>>}
        /\ \A k \in DOMAIN d : l[k] = d[k]
    BY DEF Linked, SelfLink, d
  <2> HIDE DEF l
  <2>3. /\ N \cap DOMAIN l = {}
        /\ tree' = InsertRows(l, id, parent)
    BY <1>3 DEF Attach, Conflicts, l
  <2>4. /\ DOMAIN tree' = DOMAIN l \cup N
        /\ \A k \in DOMAIN l : tree'[k] = l[k]
    BY <2>3 DEF InsertRows
  <2>5. \A a, b \in Location : <<a, b>> \in N =>
            <<a, parent>> \in DOMAIN l /\ <<id, b>> \in DOMAIN l
    BY DEF NewRows
  <2> HIDE DEF N
  <2>6. \A a, b \in Location : a # b =>
            /\ <<a, b>> \in DOMAIN l <=> <<a, b>> \in DOMAIN d
            /\ <<a, b>> \in DOMAIN d => l[<<a, b>>] = tree[<<a, b>>]
    BY <1>1, <2>2
  <2> SUFFICES ASSUME NEW a \in Location, NEW b \in Location, a # b
               PROVE  /\ <<a, b>> \in DOMAIN tree' =>
                            \/ <<a, b>> \in DOMAIN tree /\ tree'[<<a, b>>] = tree[<<a, b>>]
                            \/ Gained(id, parent, a, b)
                      /\ <<a, b>> \in DOMAIN tree /\ <<a, b>> \notin DOMAIN tree' =>
                            Lost(id, hasPrev, a, b)
    OBVIOUS
  <2>7. ASSUME <<a, b>> \in N
        PROVE  Gained(id, parent, a, b)
    BY <1>1, <2>1, <2>5, <2>6, <2>7 DEF Gained
  <2>8. ASSUME <<a, b>> \in DOMAIN l
        PROVE  <<a, b>> \in DOMAIN tree /\ tree'[<<a, b>>] = tree[<<a, b>>]
    BY <1>1, <2>4, <2>6, <2>8
  <2>9. ASSUME <<a, b>> \in DOMAIN tree, <<a, b>> \notin DOMAIN tree'
        PROVE  Lost(id, hasPrev, a, b)
    BY <1>1, <2>4, <2>6, <2>9
  <2> QED
    BY <2>4, <2>7, <2>8, <2>9
<1> QED
  BY <1>2, <1>3

(* The keys that the MULTI of a move drops are those whose rows it changed.*)
LEMMA MovedEntries ==
    ASSUME Stepwise(tree), NEW id \in Location, NEW parent \in Location \cup {NoParent},
           parent # id, NEW hasPrev \in BOOLEAN, hasPrev => ~SharedBelow(id),
           IF parent = NoParent THEN Detach(id, hasPrev) ELSE Attach(id, parent, hasPrev),
           NEW k \in Key,
           k \notin {"parents"} \X ({id} \cup AllChildren(tree, id)),
           k \notin {"children"} \X AllParents(tree, id),
           parent \in Location => k \notin {"children"} \X ({parent} \cup AllParents(tree, parent))
    PROVE  EntryIn(tree', k) = EntryIn(tree, k)
<1>1. k[2] \in Location /\ k[1] \in {"parents", "children"} /\ k = <<k[1], k[2]>>
  BY DEF Key
<1>2. \A x, c \in Location : c \in AllChildren(tree, x) <=> c # x /\ <<x, c>> \in DOMAIN tree
  BY TableFacts
<1>3. \A x, p \in Location : p \in AllParents(tree, x) <=> p # x /\ <<p, x>> \in DOMAIN tree
  BY TableFacts
<1>4. \A a, b \in Location : <<a, b>> \in DOMAIN tree =>
          <<a, a>> \in DOMAIN tree /\ <<b, b>> \in DOMAIN tree
  BY TableFacts
<1>5. \A c, p \in Location :
          hasPrev /\ c \in AllChildren(tree, id) /\ p \in AllParents(tree, c) =>
              p = id \/ p \in AllChildren(tree, id) \/ p \in AllParents(tree, id)
  BY DEF SharedBelow
<1>0. \A a, b \in Location : a # b =>
          /\ <<a, b>> \in DOMAIN tree' =>
                \/ <<a, b>> \in DOMAIN tree /\ tree'[<<a, b>>] = tree[<<a, b>>]
                \/ Gained(id, parent, a, b)
          /\ <<a, b>> \in DOMAIN tree /\ <<a, b>> \notin DOMAIN tree' => Lost(id, hasPrev, a, b)
  BY MovedRows
<1>6. ASSUME k[1] = "children", NEW x \in Location, x # k[2]
      PROVE  /\ <<k[2], x>> \in DOMAIN tree <=> <<k[2], x>> \in DOMAIN tree'
             /\ <<k[2], x>> \in DOMAIN tree => tree'[<<k[2], x>>] = tree[<<k[2], x>>]
  <2> DEFINE p == k[2]
  <2>1. /\ p \in Location /\ p \notin AllParents(tree, id)
        /\ parent \in Location => p # parent /\ p \notin AllParents(tree, parent)
    BY <1>1, <1>6
  <2> HIDE DEF p
  <2>2. <<p, x>> \in DOMAIN tree' =>
            <<p, x>> \in DOMAIN tree /\ tree'[<<p, x>>] = tree[<<p, x>>]
    BY <1>0, <1>3, <1>6, <2>1 DEF p, Gained
  <2>3. ASSUME <<p, x>> \in DOMAIN tree, <<p, x>> \notin DOMAIN tree'
        PROVE  FALSE
    <3>1. hasPrev /\ <<id, x>> \in DOMAIN tree /\ <<id, p>> \notin DOMAIN tree
      BY <1>0, <1>6, <2>1, <2>3 DEF p, Lost
    <3>2. p # id
      BY <1>4, <2>1, <2>3, <3>1
    <3>3. x # id
      BY <1>3, <2>1, <2>3, <3>2
    <3> QED
      BY <1>2, <1>3, <1>5, <1>6, <2>1, <2>3, <3>1, <3>2, <3>3 DEF p
  <2> QED
    BY <2>2, <2>3 DEF p
<1>7. ASSUME k[1] = "parents", NEW x \in Location, x # k[2]
      PROVE  /\ <<x, k[2]>> \in DOMAIN tree <=> <<x, k[2]>> \in DOMAIN tree'
             /\ <<x, k[2]>> \in DOMAIN tree => tree'[<<x, k[2]>>] = tree[<<x, k[2]>>]
  <2> DEFINE c == k[2]
  <2>1. c \in Location /\ c # id /\ c \notin AllChildren(tree, id)
    BY <1>1, <1>7
  <2> HIDE DEF c
  <2>2. <<id, c>> \notin DOMAIN tree
    BY <1>2, <2>1
  <2> QED
    <3>1. x # c /\ c \in Location /\ ~Gained(id, parent, x, c) /\ ~Lost(id, hasPrev, x, c)
      BY <1>7, <2>1, <2>2 DEF c, Gained, Lost
    <3> QED
      BY <1>0, <3>1 DEF c
<1> QED
  BY <1>1, <1>6, <1>7, SameEntry DEF RowOf

(* Those of a removal are dropped, or lose a member.                       *)
LEMMA RemovedEntries ==
    ASSUME Stepwise(tree), NEW id \in Location, RemoveSubTree(id),
           AllChildren(tree, id) = {}, NEW k \in Key, k[2] # id
    PROVE  /\ k \in {"children"} \X AllParents(tree, id) =>
                EntryIn(tree', k) = ZRem(EntryIn(tree, k), id)
           /\ k \notin {"children"} \X AllParents(tree, id) =>
                EntryIn(tree', k) = EntryIn(tree, k)
<1>1. k[2] \in Location /\ k[1] \in {"parents", "children"} /\ k = <<k[1], k[2]>>
  BY DEF Key
<1>2. \A a, b \in Location :
          /\ <<a, b>> \in DOMAIN tree' <=> <<a, b>> \in DOMAIN tree /\ b # id
          /\ <<a, b>> \in DOMAIN tree' => tree'[<<a, b>>] = tree[<<a, b>>]
  BY RemovedRows
<1>3. \A p \in Location : p \in AllParents(tree, id) <=> p # id /\ <<p, id>> \in DOMAIN tree
  BY TableFacts
<1>4. CASE k[1] = "children" /\ k[2] \in AllParents(tree, id)
  <2>1. \A x \in Location : x # k[2] =>
            /\ RowOf(k, x) \in DOMAIN tree' <=> RowOf(k, x) \in DOMAIN tree /\ x # id
            /\ RowOf(k, x) \in DOMAIN tree' => tree'[RowOf(k, x)] = tree[RowOf(k, x)]
    BY <1>1, <1>2, <1>4 DEF RowOf
  <2>2. EntryIn(tree', k) = ZRem(EntryIn(tree, k), id)
    BY <2>1, TrimmedEntry
  <2> QED
    BY <1>1, <1>4, <2>2
<1>5. CASE ~(k[1] = "children" /\ k[2] \in AllParents(tree, id))
  <2>1. ASSUME NEW x \in Location, x # k[2]
        PROVE  /\ RowOf(k, x) \in DOMAIN tree <=> RowOf(k, x) \in DOMAIN tree'
               /\ RowOf(k, x) \in DOMAIN tree => tree'[RowOf(k, x)] = tree[RowOf(k, x)]
    <3>1. CASE k[1] = "children"
      BY <1>1, <1>2, <1>3, <1>5, <2>1, <3>1 DEF RowOf
    <3>2. CASE k[1] = "parents"
      BY <1>1, <1>2, <2>1, <3>2 DEF RowOf
    <3> QED
      BY <1>1, <3>1, <3>2
  <2>2. EntryIn(tree', k) = EntryIn(tree, k)
    BY <2>1, SameEntry
  <2> QED
    BY <1>5, <2>2
<1> QED
  BY <1>4, <1>5

LEMMA TrimsNothing ==
    ASSUME NEW t, NEW id \in Location, NEW k \in Key, k[2] # id,
           \A a \in Location : <<a, id>> \notin DOMAIN t, k[1] = "children"
    PROVE  ZRem(EntryIn(t, k), id) = EntryIn(t, k)
<1>1. k[2] \in Location
  BY DEF Key
<1>2. DOMAIN EntryIn(t, k) = Members(t, k) /\ id \notin Members(t, k)
  BY <1>1 DEF EntryIn, Members, RowOf
<1> QED
  BY <1>2 DEF EntryIn, ZRem

-----------------------------------------------------------------------------
(* Types of the cache and of the calls under way.                          *)

Data == UNION {[S -> Nat] : S \in SUBSET Location}

ReaderType ==
    {NoRead} \cup [pc : {"missed"}, key : Key]
    \cup [pc : {"read"}, key : Key, data : Data, overtaken : BOOLEAN]

Move == [pc : {"read", "committed"}, id : Location, parent : Location \cup {NoParent},
         hasPrev : BOOLEAN, allChildren : SUBSET Location, allParents : SUBSET Location,
         allParentsParents : SUBSET Location, overtaken : BOOLEAN]

WriterType ==
    {NoWrite} \cup Move
    \cup [pc : {"check"}, id : Location, mayFill : BOOLEAN, overtaken : BOOLEAN]
    \cup [pc : {"fill"}, id : Location, data : Data, overtaken : BOOLEAN]

CacheTypes ==
    /\ Stepwise(tree)
    /\ cache \in [Key -> Data]
    /\ reader \in [Reader -> ReaderType]
    /\ writer \in [Writer -> WriterType]

LEMMA EntryType == ASSUME Stepwise(tree), NEW k \in Key PROVE Entry(k) \in Data
<1>1. k[2] \in Location
  BY DEF Key
<1>2. \A r \in DOMAIN tree : tree[r] \in Nat
  BY DEF Stepwise, IsHierarchy, IsClosure, IsTable
<1>3. \A x \in Members(tree, k) : x # k[2] => RowOf(k, x) \in DOMAIN tree
  BY DEF Members
<1>4. EntryIn(tree, k) \in [Members(tree, k) -> Nat]
  BY <1>2, <1>3 DEF EntryIn
<1>5. Members(tree, k) \in SUBSET Location
  BY DEF Members
<1> QED
  BY <1>4, <1>5, Entries DEF Data

LEMMA NoEntryType == NoEntry \in Data
  BY DEF NoEntry, Data

LEMMA ZAddType == ASSUME NEW d \in Data, NEW e \in Data PROVE ZAdd(d, e) \in Data
<1>1. PICK S \in SUBSET Location, U \in SUBSET Location : d \in [S -> Nat] /\ e \in [U -> Nat]
  BY DEF Data
<1>2. ZAdd(d, e) \in [S \cup U -> Nat]
  BY <1>1 DEF ZAdd
<1> QED
  BY <1>2 DEF Data

LEMMA ZRemType == ASSUME NEW d \in Data, NEW x PROVE ZRem(d, x) \in Data
<1>1. PICK S \in SUBSET Location : d \in [S -> Nat]
  BY DEF Data
<1>2. ZRem(d, x) \in [S \ {x} -> Nat]
  BY <1>1 DEF ZRem
<1> QED
  BY <1>2 DEF Data

LEMMA RemovingType == ASSUME NEW id \in Location PROVE Removing(id) \in Move
  BY DEF Removing, Move, AllChildren, AllParents

LEMMA TableChildrenType ==
    ASSUME Stepwise(tree), NEW id \in Location, NEW mayFill \in BOOLEAN
    PROVE  TableChildren(id, mayFill) \in WriterType
<1>1. <<"children", id>> \in Key
  BY DEF Key
<1> QED
  BY <1>1, EntryType, RemovingType DEF TableChildren, WriterType

(* The fields of a call, by where it stands.                               *)
LEMMA WriterFields ==
    ASSUME NEW v \in WriterType
    PROVE  /\ v.pc \in {"idle", "check", "fill", "read", "committed"}
           /\ v.pc \in {"read", "committed"} => v \in Move
           /\ v.pc = "check" => v.id \in Location /\ v.mayFill \in BOOLEAN
           /\ v.pc = "fill" => v.id \in Location /\ v.data \in Data /\ v.overtaken \in BOOLEAN
  BY DEF WriterType, NoWrite, Move

LEMMA OvertakenType ==
    ASSUME NEW v \in WriterType, v.pc # "idle"
    PROVE  [v EXCEPT !.overtaken = TRUE] \in WriterType
  BY DEF WriterType, NoWrite, Move

LEMMA NextIsTable == CacheTypes /\ [CachedNext]_vars => [Next]_tree
<1> SUFFICES ASSUME CacheTypes, [CachedNext]_vars PROVE [Next]_tree
  OBVIOUS
<1>1. ASSUME NEW w \in Writer, CommitUpdateParent(w) PROVE Next
  <2>1. PICK id \in Location, parent \in Location \cup {NoParent}, hasPrev \in BOOLEAN :
            /\ parent # id
            /\ id = writer[w].id /\ parent = writer[w].parent /\ hasPrev = writer[w].hasPrev
    BY <1>1, WriterFields DEF CacheTypes, CommitUpdateParent, Move
  <2>2. IF parent = NoParent THEN Detach(id, hasPrev) ELSE Attach(id, parent, hasPrev)
    BY <1>1, <2>1 DEF CommitUpdateParent
  <2>3. CASE parent = NoParent
    BY <2>2, <2>3 DEF Next
  <2>4. CASE parent # NoParent
    BY <2>1, <2>2, <2>4 DEF Next
  <2> QED
    BY <2>3, <2>4
<1>2. ASSUME NEW w \in Writer, CommitRemoveSubTree(w) PROVE Next
  <2>1. writer[w].id \in Location
    BY <1>2, WriterFields DEF CacheTypes, CommitRemoveSubTree, Move
  <2> QED
    BY <1>2, <2>1 DEF CommitRemoveSubTree, Next
<1> QED
  BY <1>1, <1>2 DEF CachedNext, vars, Miss, ReadTable, Fill, StartUpdateParent,
     RollBackUpdateParent, AttachRolledBack, InvalidateAfterUpdateParent, StartRemoveSubTree,
     CheckChildren, FillChildren, InvalidateAfterRemoveSubTree, LoseInvalidation

LEMMA NextCacheTypes == CacheTypes /\ [CachedNext]_vars => CacheTypes'
<1> SUFFICES ASSUME CacheTypes, [CachedNext]_vars PROVE CacheTypes'
  OBVIOUS
<1> USE DEF CacheTypes
<1>0. Stepwise(tree)'
  BY NextIsTable, NextSteps
<1>1. NoRead \in ReaderType /\ NoWrite \in WriterType
  BY DEF ReaderType, WriterType
<1>2. ASSUME NEW r \in Reader, NEW k \in Key, NEW policy \in CachePolicy, Miss(r, k, policy)
      PROVE  CacheTypes'
  BY <1>0, <1>2 DEF Miss, ReaderType
<1>3. ASSUME NEW r \in Reader, ReadTable(r)
      PROVE  CacheTypes'
  <2>1. reader[r].key \in Key
    BY <1>3 DEF ReadTable, ReaderType, NoRead
  <2> QED
    BY <1>0, <1>3, <2>1, EntryType DEF ReadTable, ReaderType
<1>4. ASSUME NEW r \in Reader, Fill(r)
      PROVE  CacheTypes'
  <2>1. reader[r].key \in Key /\ reader[r].data \in Data
    BY <1>4 DEF Fill, ReaderType, NoRead
  <2>2. ZAdd(cache[reader[r].key], reader[r].data) \in Data
    BY <2>1, ZAddType
  <2> QED
    BY <1>0, <1>1, <1>4, <2>1, <2>2 DEF Fill
<1>5. ASSUME NEW w \in Writer, NEW id \in Location, NEW parent \in {NoParent} \cup (Location \ {id}),
             NEW hasPrev \in BOOLEAN, StartUpdateParent(w, id, parent, hasPrev)
      PROVE  CacheTypes'
  <2> DEFINE v == [pc |-> "read", id |-> id, parent |-> parent, hasPrev |-> hasPrev,
                   allChildren |-> AllChildren(tree, id),
                   allParents |-> AllParents(tree, id),
                   allParentsParents |-> IF parent = NoParent THEN {}
                                         ELSE AllParents(tree, parent),
                   overtaken |-> hasPrev /\ SharedBelow(id)]
  <2>1. (hasPrev /\ SharedBelow(id)) \in BOOLEAN
    OBVIOUS
  <2>2. v \in Move
    BY <2>1 DEF Move, AllChildren, AllParents
  <2>3. writer' = [writer EXCEPT ![w] = v] /\ UNCHANGED <<cache, reader>>
    BY <1>5 DEF StartUpdateParent
  <2> HIDE DEF v
  <2> QED
    BY <1>0, <2>2, <2>3 DEF WriterType
<1>6. ASSUME NEW w \in Writer, NEW id \in Location, NEW policy \in CachePolicy,
             StartRemoveSubTree(w, id, policy)
      PROVE  CacheTypes'
  <2>1. MayFill(policy) \in BOOLEAN
    BY DEF MayFill
  <2>2. Removing(id) \in WriterType /\ TableChildren(id, MayFill(policy)) \in WriterType
    BY <2>1, RemovingType, TableChildrenType DEF WriterType
  <2>3. [pc |-> "check", id |-> id, mayFill |-> MayFill(policy), overtaken |-> FALSE] \in WriterType
    BY <2>1 DEF WriterType
  <2> QED
    BY <1>0, <1>6, <2>2, <2>3 DEF StartRemoveSubTree
<1>7. ASSUME NEW w \in Writer, NEW c \in Move, c = [writer[w] EXCEPT !.pc = "committed"],
             Overtake(w), UNCHANGED cache
      PROVE  CacheTypes'
  <2>1. reader' \in [Reader -> ReaderType]
    BY <1>7 DEF Overtake, ReaderType, NoRead
  <2>2. \A v \in Writer : writer[v].pc # "idle" => [writer[v] EXCEPT !.overtaken = TRUE] \in WriterType
    BY OvertakenType
  <2>3. writer' \in [Writer -> WriterType]
    BY <1>7, <2>2 DEF Overtake, WriterType
  <2> QED
    BY <1>0, <1>7, <2>1, <2>3
<1>8. ASSUME NEW w \in Writer, CommitUpdateParent(w) \/ CommitRemoveSubTree(w)
      PROVE  CacheTypes'
  <2>1. writer[w] \in Move
    BY <1>8, WriterFields DEF CommitUpdateParent, CommitRemoveSubTree
  <2>2. [writer[w] EXCEPT !.pc = "committed"] \in Move
    BY <2>1 DEF Move
  <2> QED
    BY <1>7, <1>8, <2>2 DEF CommitUpdateParent, CommitRemoveSubTree
<1>9. ASSUME NEW w \in Writer, RollBackUpdateParent(w)
      PROVE  CacheTypes'
  BY <1>0, <1>1, <1>9 DEF RollBackUpdateParent
<1>10. ASSUME NEW w \in Writer, InvalidateAfterUpdateParent(w)
       PROVE  CacheTypes'
  BY <1>0, <1>1, <1>10, NoEntryType DEF InvalidateAfterUpdateParent, DropKeys
<1>11. ASSUME NEW w \in Writer, CheckChildren(w)
       PROVE  CacheTypes'
  <2>1. writer[w].id \in Location
    BY <1>11, WriterFields DEF CheckChildren
  <2>2. Removing(writer[w].id) \in WriterType /\ TableChildren(writer[w].id, TRUE) \in WriterType
    BY <2>1, RemovingType, TableChildrenType DEF WriterType
  <2> QED
    BY <1>0, <1>11, <2>2 DEF CheckChildren
<1>12. ASSUME NEW w \in Writer, FillChildren(w)
       PROVE  CacheTypes'
  <2>1. writer[w].id \in Location /\ writer[w].data \in Data
    BY <1>12, WriterFields DEF FillChildren
  <2>2. <<"children", writer[w].id>> \in Key
    BY <2>1 DEF Key
  <2>3. ZAdd(cache[<<"children", writer[w].id>>], writer[w].data) \in Data
    BY <2>1, <2>2, ZAddType
  <2>4. Removing(writer[w].id) \in WriterType
    BY <2>1, RemovingType DEF WriterType
  <2> QED
    BY <1>0, <1>1, <1>12, <2>2, <2>3, <2>4 DEF FillChildren
<1>13. ASSUME NEW w \in Writer, InvalidateAfterRemoveSubTree(w)
       PROVE  CacheTypes'
  <2>1. \A k \in Key : ZRem(cache[k], writer[w].id) \in Data
    BY ZRemType
  <2> QED
    BY <1>0, <1>1, <1>13, <2>1, NoEntryType DEF InvalidateAfterRemoveSubTree
<1>14. ASSUME NEW w \in Writer, LoseInvalidation(w)
       PROVE  CacheTypes'
  BY <1>0, <1>1, <1>14 DEF LoseInvalidation
<1>15. CASE UNCHANGED vars
  BY <1>0, <1>15 DEF vars
<1> QED
  BY <1>2, <1>3, <1>4, <1>5, <1>6, <1>8, <1>9, <1>10, <1>11, <1>12, <1>13, <1>14, <1>15 DEF CachedNext

-----------------------------------------------------------------------------
(* What a call under way that no commit has overtaken still knows.         *)

(* The reads of a write, taken before its transaction.                     *)
Current(v) ==
    /\ v.allChildren = AllChildren(tree, v.id)
    /\ v.allParents = AllParents(tree, v.id)
    /\ v.parent = v.id => v.allChildren = {}
    /\ v.parent \in Location \ {v.id} => v.allParentsParents = AllParents(tree, v.parent)
    /\ v.parent # v.id /\ v.hasPrev => ~SharedBelow(v.id)

(* After the transaction of a removal nothing is above the location.       *)
CallOK(v) ==
    /\ v.pc = "read" /\ ~v.overtaken => Current(v)
    /\ v.pc = "fill" /\ ~v.overtaken => v.data = Entry(<<"children", v.id>>)
    /\ v.pc = "committed" /\ ~v.overtaken /\ v.parent = v.id =>
          \A a \in Location : <<a, v.id>> \notin DOMAIN tree

ReadOK(q) == q.pc = "read" /\ ~q.overtaken => q.data = Entry(q.key)

CallsOK ==
    /\ \A w \in Writer : CallOK(writer[w])
    /\ \A r \in Reader : ReadOK(reader[r])

(* Of the writes that have an invalidation to do, all but one know that    *)
(* another commit came after theirs.                                       *)
LastCommit ==
    \A v, w \in Writer :
        /\ writer[v].pc = "committed" /\ ~writer[v].overtaken
        /\ writer[w].pc = "committed" /\ ~writer[w].overtaken
        => v = w

LEMMA RemovingOK ==
    ASSUME NEW id \in Location, Stepwise(tree)
    PROVE  CallOK(Removing(id))
<1>1. Removing(id).pc = "read" /\ Removing(id).id = id /\ Removing(id).parent = id
  BY DEF Removing
<1>2. /\ Removing(id).allChildren = AllChildren(tree, id)
      /\ Removing(id).allParents = AllParents(tree, id)
      /\ Removing(id).overtaken = (ImmediateChildren(tree, id) # {})
  BY DEF Removing
<1>3. ImmediateChildren(tree, id) = {} => AllChildren(tree, id) = {}
  BY TableFacts
<1> QED
  BY <1>1, <1>2, <1>3 DEF CallOK, Current

LEMMA TableChildrenOK ==
    ASSUME NEW id \in Location, NEW mayFill \in BOOLEAN, Stepwise(tree)
    PROVE  /\ CallOK(TableChildren(id, mayFill))
           /\ TableChildren(id, mayFill).pc # "committed"
<1>1. CASE mayFill
  BY <1>1 DEF TableChildren, CallOK
<1>2. CASE ~mayFill
  <2>1. CallOK(NoWrite) /\ NoWrite.pc # "committed"
    BY DEF CallOK, NoWrite
  <2>2. Removing(id).pc # "committed"
    BY DEF Removing
  <2> QED
    BY <1>2, <2>1, <2>2, RemovingOK DEF TableChildren
<1> QED
  BY <1>1, <1>2

(* A step that leaves the table alone and takes one write to where it has  *)
(* no invalidation to do.                                                  *)
LEMMA OneCall ==
    ASSUME CacheTypes, CallsOK, LastCommit, UNCHANGED tree, UNCHANGED reader,
           NEW w \in Writer, NEW c, CallOK(c), c.pc # "committed",
           writer' = [writer EXCEPT ![w] = c]
    PROVE  CallsOK' /\ LastCommit'
<1>1. \A v \in Writer : writer'[v] = IF v = w THEN c ELSE writer[v]
  BY DEF CacheTypes
<1>2. \A v : CallOK(v)' <=> CallOK(v)
  BY DEF CallOK, Current, Entry, SharedBelow
<1>3. \A q : ReadOK(q)' <=> ReadOK(q)
  BY DEF ReadOK, Entry
<1>4. ASSUME NEW v \in Writer PROVE CallOK(writer[v])'
  <2>1. PICK d : d = writer'[v]
    OBVIOUS
  <2>2. CallOK(d)'
    BY <1>1, <1>2, <2>1 DEF CallsOK
  <2> QED
    BY <2>1, <2>2 DEF CallOK, Current
<1>5. ASSUME NEW r \in Reader PROVE ReadOK(reader[r])'
  BY <1>3 DEF CallsOK, ReadOK
<1>6. LastCommit'
  BY <1>1 DEF LastCommit
<1> QED
  BY <1>4, <1>5, <1>6 DEF CallsOK

LEMMA OneRead ==
    ASSUME CacheTypes, CallsOK, LastCommit, UNCHANGED tree, UNCHANGED writer,
           NEW r \in Reader, NEW q, ReadOK(q), reader' = [reader EXCEPT ![r] = q]
    PROVE  CallsOK' /\ LastCommit'
<1>1. \A p \in Reader : reader'[p] = IF p = r THEN q ELSE reader[p]
  BY DEF CacheTypes
<1>2. \A v : CallOK(v)' <=> CallOK(v)
  BY DEF CallOK, Current, Entry, SharedBelow
<1>3. ASSUME NEW p \in Reader PROVE ReadOK(reader[p])'
  <2>1. ReadOK(reader'[p])
    BY <1>1 DEF CallsOK
  <2> QED
    BY <2>1 DEF ReadOK, Entry
<1>4. ASSUME NEW v \in Writer PROVE CallOK(writer[v])'
  BY <1>2 DEF CallsOK, CallOK, Current
<1> QED
  BY <1>3, <1>4 DEF CallsOK, LastCommit

(* A transaction commits: every other call is overtaken.                   *)
LEMMA AfterCommit ==
    ASSUME CacheTypes, NEW w \in Writer, writer[w] \in Move, Overtake(w),
           ~writer[w].overtaken /\ writer[w].parent = writer[w].id =>
               \A a \in Location : <<a, writer[w].id>> \notin DOMAIN tree'
    PROVE  CallsOK' /\ LastCommit'
<1>1. PICK c : c = writer'[w]
  OBVIOUS
<1>2. /\ c.pc = "committed" /\ c.id = writer[w].id /\ c.parent = writer[w].parent
      /\ c.overtaken = writer[w].overtaken
  BY <1>1 DEF Overtake, Move
<1>3. ASSUME NEW v \in Writer, v # w
      PROVE  writer'[v].pc = "idle" \/ writer'[v].overtaken
  <2>1. CASE writer[v].pc = "idle"
    BY <1>3, <2>1 DEF Overtake
  <2>2. CASE writer[v].pc # "idle"
    <3>1. writer'[v] = [writer[v] EXCEPT !.overtaken = TRUE]
      BY <1>3, <2>2 DEF Overtake
    <3>2. "overtaken" \in DOMAIN writer[v]
      BY <2>2 DEF CacheTypes, WriterType, NoWrite, Move
    <3> QED
      BY <3>1, <3>2
  <2> QED
    BY <2>1, <2>2
<1>4. ASSUME NEW v \in Writer PROVE CallOK(writer[v])'
  <2>1. CASE v # w
    BY <1>3, <2>1 DEF CallOK
  <2>2. CASE v = w
    BY <1>1, <1>2, <2>2 DEF CallOK
  <2> QED
    BY <2>1, <2>2
<1>5. ASSUME NEW r \in Reader PROVE ReadOK(reader[r])'
  <2>1. CASE reader[r].pc = "read"
    <3>1. reader'[r] = [reader[r] EXCEPT !.overtaken = TRUE]
      BY <2>1 DEF Overtake
    <3>2. "overtaken" \in DOMAIN reader[r]
      BY <2>1 DEF CacheTypes, ReaderType, NoRead
    <3> QED
      BY <3>1, <3>2 DEF ReadOK
  <2>2. CASE reader[r].pc # "read"
    <3>1. reader'[r] = reader[r]
      BY <2>2 DEF Overtake
    <3> QED
      BY <2>2, <3>1 DEF ReadOK
  <2> QED
    BY <2>1, <2>2
<1>6. LastCommit'
  BY <1>3 DEF LastCommit
<1> QED
  BY <1>4, <1>5, <1>6 DEF CallsOK

LEMMA NextCalls == CacheTypes /\ CallsOK /\ LastCommit /\ [CachedNext]_vars => CallsOK' /\ LastCommit'
<1> SUFFICES ASSUME CacheTypes, CallsOK, LastCommit, [CachedNext]_vars PROVE CallsOK' /\ LastCommit'
  OBVIOUS
<1>0. Stepwise(tree)
  BY DEF CacheTypes
<1>1. CallOK(NoWrite) /\ NoWrite.pc # "committed" /\ ReadOK(NoRead)
  BY DEF CallOK, NoWrite, ReadOK, NoRead
<1>2. ASSUME NEW r \in Reader, NEW k \in Key, NEW policy \in CachePolicy, Miss(r, k, policy)
      PROVE  CallsOK' /\ LastCommit'
  <2>1. ReadOK([pc |-> "missed", key |-> k])
    BY DEF ReadOK
  <2> QED
    BY <1>2, <2>1, OneRead DEF Miss
<1>3. ASSUME NEW r \in Reader, ReadTable(r)
      PROVE  CallsOK' /\ LastCommit'
  <2> DEFINE q == [pc |-> "read", key |-> reader[r].key, data |-> Entry(reader[r].key),
                   overtaken |-> FALSE]
  <2>1. ReadOK(q)
    BY DEF ReadOK
  <2>2. reader' = [reader EXCEPT ![r] = q] /\ UNCHANGED <<tree, writer>>
    BY <1>3 DEF ReadTable, CacheTypes
  <2> HIDE DEF q
  <2> QED
    BY <2>1, <2>2, OneRead
<1>4. ASSUME NEW r \in Reader, Fill(r)
      PROVE  CallsOK' /\ LastCommit'
  BY <1>1, <1>4, OneRead DEF Fill
<1>5. ASSUME NEW w \in Writer, NEW id \in Location, NEW parent \in {NoParent} \cup (Location \ {id}),
             NEW hasPrev \in BOOLEAN, StartUpdateParent(w, id, parent, hasPrev)
      PROVE  CallsOK' /\ LastCommit'
  <2> DEFINE c == [pc |-> "read", id |-> id, parent |-> parent, hasPrev |-> hasPrev,
                   allChildren |-> AllChildren(tree, id),
                   allParents |-> AllParents(tree, id),
                   allParentsParents |-> IF parent = NoParent THEN {}
                                         ELSE AllParents(tree, parent),
                   overtaken |-> hasPrev /\ SharedBelow(id)]
  <2>1. parent # id
    BY CacheAssumption
  <2>2. CallOK(c) /\ c.pc # "committed"
    BY <2>1, CacheAssumption DEF CallOK, Current
  <2>3. writer' = [writer EXCEPT ![w] = c] /\ UNCHANGED <<tree, reader>>
    BY <1>5 DEF StartUpdateParent
  <2> HIDE DEF c
  <2> QED
    BY <2>2, <2>3, OneCall
<1>6. ASSUME NEW w \in Writer, NEW id \in Location, NEW policy \in CachePolicy,
             StartRemoveSubTree(w, id, policy)
      PROVE  CallsOK' /\ LastCommit'
  <2>1. MayFill(policy) \in BOOLEAN
    BY DEF MayFill
  <2>2. /\ CallOK(Removing(id)) /\ Removing(id).pc # "committed"
        /\ CallOK(TableChildren(id, MayFill(policy)))
        /\ TableChildren(id, MayFill(policy)).pc # "committed"
    BY <1>0, <2>1, RemovingOK, TableChildrenOK DEF Removing
  <2>3. CallOK([pc |-> "check", id |-> id, mayFill |-> MayFill(policy), overtaken |-> FALSE])
    BY DEF CallOK
  <2> QED
    BY <1>6, <2>2, <2>3, OneCall DEF StartRemoveSubTree
<1>7. ASSUME NEW w \in Writer, CommitUpdateParent(w)
      PROVE  CallsOK' /\ LastCommit'
  <2>1. writer[w] \in Move
    BY <1>7, WriterFields DEF CacheTypes, CommitUpdateParent
  <2> QED
    BY <1>7, <2>1, AfterCommit DEF CommitUpdateParent
<1>8. ASSUME NEW w \in Writer, CommitRemoveSubTree(w)
      PROVE  CallsOK' /\ LastCommit'
  <2>1. writer[w] \in Move
    BY <1>8, WriterFields DEF CacheTypes, CommitRemoveSubTree
  <2>2. PICK id \in Location : id = writer[w].id
    BY <2>1 DEF Move
  <2>3. ASSUME ~writer[w].overtaken, NEW a \in Location
        PROVE  <<a, id>> \notin DOMAIN tree'
    <3>1. AllChildren(tree, id) = {}
      BY <1>8, <2>2, <2>3 DEF CallsOK, CallOK, Current, CommitRemoveSubTree
    <3>2. RemoveSubTree(id)
      BY <1>8, <2>2 DEF CommitRemoveSubTree
    <3> QED
      BY <1>0, <3>1, <3>2, RemovedRows
  <2> QED
    BY <1>8, <2>1, <2>2, <2>3, AfterCommit DEF CommitRemoveSubTree
<1>9. ASSUME NEW w \in Writer, RollBackUpdateParent(w)
      PROVE  CallsOK' /\ LastCommit'
  BY <1>1, <1>9, OneCall DEF RollBackUpdateParent, AttachRolledBack
<1>10. ASSUME NEW w \in Writer,
              \/ InvalidateAfterUpdateParent(w)
              \/ InvalidateAfterRemoveSubTree(w)
              \/ LoseInvalidation(w)
       PROVE  CallsOK' /\ LastCommit'
  BY <1>1, <1>10, OneCall DEF InvalidateAfterUpdateParent, InvalidateAfterRemoveSubTree,
     LoseInvalidation
<1>11. ASSUME NEW w \in Writer, CheckChildren(w) \/ FillChildren(w)
       PROVE  CallsOK' /\ LastCommit'
  <2>1. PICK id \in Location : id = writer[w].id
    BY <1>11, WriterFields DEF CheckChildren, FillChildren, CacheTypes
  <2>2. /\ CallOK(Removing(id)) /\ Removing(id).pc # "committed"
        /\ CallOK(TableChildren(id, TRUE)) /\ TableChildren(id, TRUE).pc # "committed"
    BY <1>0, RemovingOK, TableChildrenOK DEF Removing
  <2>3. \E c \in {NoWrite, Removing(id), TableChildren(id, TRUE)} :
            writer' = [writer EXCEPT ![w] = c]
    BY <1>11, <2>1 DEF CheckChildren, FillChildren
  <2>4. UNCHANGED <<tree, reader>>
    BY <1>11 DEF CheckChildren, FillChildren
  <2> QED
    BY <1>1, <2>2, <2>3, <2>4, OneCall
<1>12. CASE UNCHANGED vars
  BY <1>12 DEF vars, CallsOK, CallOK, Current, ReadOK, Entry, SharedBelow, LastCommit
<1> QED
  BY <1>2, <1>3, <1>4, <1>5, <1>6, <1>7, <1>8, <1>9, <1>10, <1>11, <1>12 DEF CachedNext

-----------------------------------------------------------------------------
(* Where an entry may differ from the rows: it is suspect, or a MULTI that *)
(* drops it, or trims it to the rows, is still to come.                    *)

Dropped(v) ==
    IF v.parent = v.id THEN DroppedByRemoveSubTree(v) ELSE DroppedByUpdateParent(v)

Trims(v, k) == v.parent = v.id /\ k \in {"children"} \X v.allParents

Pending(v, k) ==
    /\ v.pc = "committed"
    /\ \/ k \in Dropped(v)
       \/ Trims(v, k) /\ v.overtaken
       \/ Trims(v, k) /\ ZRem(cache[k], v.id) = Entry(k)

EntryOK(k) ==
    \/ ~Cached(k)
    \/ cache[k] = Entry(k)
    \/ \E w \in Writer : Pending(writer[w], k)

EntriesOK == \A k \in Key \ suspect : EntryOK(k)

(* A fill with current data mends an entry, or keeps it waiting.           *)
LEMMA FilledEntry ==
    ASSUME NEW k \in Key, EntryOK(k), cache'[k] = ZAdd(cache[k], Entry(k)), UNCHANGED tree,
           \A w \in Writer : writer[w].pc = "committed" => writer'[w] = writer[w],
           CacheTypes, CallsOK
    PROVE  EntryOK(k)'
<1>1. Entry(k)' = Entry(k)
  BY DEF Entry
<1>2. CASE ~Cached(k)
  <2>1. cache'[k] = Entry(k)
    BY <1>2 DEF Cached, ZAdd, Entry
  <2> QED
    BY <1>1, <2>1 DEF EntryOK
<1>3. CASE cache[k] = Entry(k)
  <2>1. cache'[k] = Entry(k)
    BY <1>3 DEF ZAdd, Entry
  <2> QED
    BY <1>1, <2>1 DEF EntryOK
<1>4. ASSUME NEW w \in Writer, Pending(writer[w], k)
      PROVE  Pending(writer[w], k)'
  <2>1. writer'[w] = writer[w]
    BY <1>4 DEF Pending
  <2>2. CASE k \in Dropped(writer[w])
    BY <1>4, <2>1, <2>2 DEF Pending, Dropped, DroppedByRemoveSubTree, DroppedByUpdateParent
  <2>3. CASE Trims(writer[w], k) /\ writer[w].overtaken
    BY <1>4, <2>1, <2>3 DEF Pending, Trims
  <2>4. CASE Trims(writer[w], k) /\ ~writer[w].overtaken /\ ZRem(cache[k], writer[w].id) = Entry(k)
    <3> DEFINE id == writer[w].id
    <3>1. id \notin DOMAIN Entry(k)
      <4>1. DOMAIN ZRem(cache[k], id) = DOMAIN cache[k] \ {id}
        BY DEF ZRem
      <4> QED
        BY <2>4, <4>1
    <3>2. ZRem(ZAdd(cache[k], Entry(k)), id) = Entry(k)
      <4> DEFINE e == Entry(k)
      <4>1. e = [x \in DOMAIN e |-> e[x]]
        BY DEF Entry
      <4> HIDE DEF e
      <4>2. /\ DOMAIN e = DOMAIN cache[k] \ {id}
        BY <2>4 DEF ZRem, e
      <4> QED
        BY <3>1, <4>1, <4>2 DEF ZRem, ZAdd, e
    <3> QED
      BY <1>1, <1>4, <2>1, <2>4, <3>2 DEF Pending, Trims
  <2> QED
    BY <1>4, <2>2, <2>3, <2>4 DEF Pending
<1> QED
  BY <1>2, <1>3, <1>4 DEF EntryOK

(* An entry that a step leaves alone, with the table and every write that  *)
(* has an invalidation for it.                                             *)
LEMMA KeptEntry ==
    ASSUME NEW k \in Key, EntryOK(k), cache'[k] = cache[k], UNCHANGED tree,
           \A w \in Writer : Pending(writer[w], k) => writer'[w] = writer[w]
    PROVE  EntryOK(k)'
<1>1. Entry(k)' = Entry(k)
  BY DEF Entry
<1>2. ASSUME NEW w \in Writer, Pending(writer[w], k)
      PROVE  Pending(writer[w], k)'
  <2>1. PICK v : v = writer[w] /\ v = writer'[w]
    BY <1>2
  <2>2. Pending(v, k)'
    BY <1>1, <1>2, <2>1 DEF Pending, Dropped, Trims, DroppedByRemoveSubTree, DroppedByUpdateParent
  <2> QED
    BY <2>1, <2>2 DEF Pending, Dropped, Trims, DroppedByRemoveSubTree, DroppedByUpdateParent
<1> QED
  BY <1>1, <1>2 DEF EntryOK, Cached

(* A commit: the entries it makes wrong are those its own MULTI will mend. *)
LEMMA CommittedEntry ==
    ASSUME CacheTypes, Stepwise(tree'), CallsOK, NEW w \in Writer,
           CommitUpdateParent(w) \/ CommitRemoveSubTree(w),
           NEW k \in Key, k \notin suspect', k \notin suspect => EntryOK(k)
    PROVE  EntryOK(k)'
<1>1. /\ writer[w] \in Move /\ writer[w].pc = "read" /\ cache' = cache /\ Overtake(w)
      /\ CallOK(writer[w])
  BY WriterFields DEF CacheTypes, CommitUpdateParent, CommitRemoveSubTree, CallsOK
<1>2. PICK v : v = writer[w]
  OBVIOUS
<1>3. v \in Move /\ v.pc = "read"
  BY <1>1, <1>2
<1>4. writer'[w] = [v EXCEPT !.pc = "committed"]
  BY <1>1, <1>2 DEF Overtake
<1>5. PICK c : c = writer'[w]
  OBVIOUS
<1>6. /\ c.pc = "committed" /\ c.id = v.id /\ c.parent = v.parent /\ c.overtaken = v.overtaken
      /\ c.allChildren = v.allChildren /\ c.allParents = v.allParents
      /\ c.allParentsParents = v.allParentsParents
  BY <1>3, <1>4, <1>5 DEF Move
<1>7. Dropped(c) = Dropped(v)
  BY <1>6 DEF Dropped, DroppedByRemoveSubTree, DroppedByUpdateParent
<1>8. CASE v.overtaken
  <2>1. ~Cached(k)
    BY <1>1, <1>2, <1>8 DEF Overtake
  <2> QED
    BY <1>1, <2>1 DEF EntryOK, Cached
<1>9. CASE ~v.overtaken /\ k \in Dropped(v)
  <2>1. k \in Dropped(writer[w])'
    BY <1>5, <1>7, <1>9 DEF Dropped, DroppedByRemoveSubTree, DroppedByUpdateParent
  <2>2. Pending(writer[w], k)'
    BY <1>5, <1>6, <2>1 DEF Pending
  <2> QED
    BY <2>2 DEF EntryOK
<1>10. CASE ~v.overtaken /\ k \notin Dropped(v)
  <2>1. EntryOK(k) /\ Current(v)
    BY <1>1, <1>2, <1>3, <1>10 DEF Overtake, CallOK
  <2>2. Stepwise(tree) /\ Entry(k) = EntryIn(tree, k) /\ Entry(k)' = EntryIn(tree', k)
    BY Entries DEF CacheTypes
  <2>3. CASE ~Cached(k)
    BY <1>1, <2>3 DEF EntryOK, Cached
  <2>4. CASE cache[k] = Entry(k) /\ v.parent # v.id
    <3>1. PICK id \in Location, parent \in Location \cup {NoParent}, hasPrev \in BOOLEAN :
              id = v.id /\ parent = v.parent /\ hasPrev = v.hasPrev
      BY <1>3 DEF Move
    <3>2. IF parent = NoParent THEN Detach(id, hasPrev) ELSE Attach(id, parent, hasPrev)
      BY <1>2, <2>4, <3>1 DEF CommitUpdateParent, CommitRemoveSubTree
    <3>3. parent # id /\ (hasPrev => ~SharedBelow(id))
      BY <2>1, <2>4, <3>1 DEF Current
    <3>4. /\ k \notin {"parents"} \X ({id} \cup AllChildren(tree, id))
          /\ k \notin {"children"} \X AllParents(tree, id)
          /\ parent \in Location => k \notin {"children"} \X ({parent} \cup AllParents(tree, parent))
      <4>1. k \notin DroppedByUpdateParent(v)
        BY <1>10, <2>4 DEF Dropped
      <4>2. parent \in Location => parent # NoParent
        BY CacheAssumption
      <4> QED
        BY <2>1, <2>4, <3>1, <4>1, <4>2 DEF Current, DroppedByUpdateParent
    <3>5. EntryIn(tree', k) = EntryIn(tree, k)
      BY <2>2, <3>2, <3>3, <3>4, MovedEntries
    <3> QED
      BY <1>1, <2>2, <2>4, <3>5 DEF EntryOK
  <2>5. CASE cache[k] = Entry(k) /\ v.parent = v.id
    <3>1. PICK id \in Location : id = v.id
      BY <1>3 DEF Move
    <3>2. RemoveSubTree(id) /\ AllChildren(tree, id) = {} /\ v.allParents = AllParents(tree, id)
      BY <1>2, <2>1, <2>5, <3>1 DEF CommitUpdateParent, CommitRemoveSubTree, Current
    <3>3. k[2] # id
      BY <1>10, <2>5, <3>1 DEF Dropped, DroppedByRemoveSubTree, Key
    <3>4. CASE k \in {"children"} \X AllParents(tree, id)
      <4>1. ZRem(cache[k], id) = Entry(k)'
        BY <2>2, <2>5, <3>2, <3>3, <3>4, RemovedEntries
      <4>2. Trims(c, k) /\ ZRem(cache'[k], c.id) = Entry(k)'
        BY <1>1, <1>6, <2>5, <3>1, <3>2, <3>4, <4>1 DEF Trims
      <4>3. Pending(writer[w], k)'
        BY <1>5, <1>6, <4>2 DEF Pending, Trims
      <4> QED
        BY <4>3 DEF EntryOK
    <3>5. CASE k \notin {"children"} \X AllParents(tree, id)
      <4>1. Entry(k)' = Entry(k)
        BY <2>2, <3>2, <3>3, <3>5, RemovedEntries
      <4> QED
        BY <1>1, <2>5, <4>1 DEF EntryOK
    <3> QED
      BY <3>4, <3>5
  <2>6. ASSUME NEW u \in Writer, Pending(writer[u], k)
        PROVE  EntryOK(k)'
    <3>1. writer[u] \in Move /\ u # w
      BY <1>1, <2>6, WriterFields DEF Pending, CacheTypes
    <3>2. PICK d : d = writer'[u]
      OBVIOUS
    <3>3. d = [writer[u] EXCEPT !.overtaken = TRUE]
      BY <1>1, <2>6, <3>1, <3>2 DEF Overtake, Pending
    <3>4. /\ d.pc = "committed" /\ d.id = writer[u].id /\ d.parent = writer[u].parent /\ d.overtaken
          /\ d.allChildren = writer[u].allChildren /\ d.allParents = writer[u].allParents
          /\ d.allParentsParents = writer[u].allParentsParents
      BY <2>6, <3>1, <3>3 DEF Move, Pending
    <3>5. k \in Dropped(d) \/ (Trims(d, k) /\ d.overtaken)
      BY <2>6, <3>4 DEF Pending, Dropped, DroppedByRemoveSubTree, DroppedByUpdateParent, Trims
    <3>6. Pending(writer[u], k)'
      BY <3>2, <3>4, <3>5 DEF Pending, Dropped, DroppedByRemoveSubTree, DroppedByUpdateParent, Trims
    <3> QED
      BY <3>6 DEF EntryOK
  <2> QED
    BY <2>1, <2>3, <2>4, <2>5, <2>6 DEF EntryOK
<1> QED
  BY <1>8, <1>9, <1>10

LEMMA NextEntries ==
    CacheTypes /\ CacheTypes' /\ CallsOK /\ LastCommit /\ EntriesOK /\ [CachedNext]_vars => EntriesOK'
<1> SUFFICES ASSUME CacheTypes, CacheTypes', CallsOK, LastCommit, EntriesOK, [CachedNext]_vars,
                    NEW k \in Key, k \notin suspect'
             PROVE  EntryOK(k)'
  BY DEF EntriesOK
<1>1. k \notin suspect => EntryOK(k)
  BY DEF EntriesOK
<1>2. ASSUME UNCHANGED <<tree, cache, suspect>>,
             \A w \in Writer : writer[w].pc = "committed" => writer'[w] = writer[w]
      PROVE  EntryOK(k)'
  BY <1>1, <1>2, KeptEntry DEF Pending
<1>3. ASSUME NEW r \in Reader, NEW l \in Key, NEW policy \in CachePolicy, Miss(r, l, policy)
      PROVE  EntryOK(k)'
  BY <1>2, <1>3 DEF Miss
<1>4. ASSUME NEW r \in Reader, ReadTable(r)
      PROVE  EntryOK(k)'
  BY <1>2, <1>4 DEF ReadTable
<1>5. ASSUME NEW r \in Reader, Fill(r)
      PROVE  EntryOK(k)'
  <2>1. \A w \in Writer : writer'[w] = writer[w]
    BY <1>5 DEF Fill
  <2>2. CASE reader[r].key = k
    <3>1. ~reader[r].overtaken /\ k \notin suspect
      BY <1>5, <2>2 DEF Fill
    <3>2. reader[r].data = Entry(k)
      BY <1>5, <2>2, <3>1 DEF Fill, CallsOK, ReadOK
    <3>3. cache'[k] = ZAdd(cache[k], Entry(k)) /\ UNCHANGED tree
      BY <1>5, <2>2, <3>2 DEF Fill, CacheTypes
    <3> QED
      BY <1>1, <2>1, <3>1, <3>3, FilledEntry
  <2>3. CASE reader[r].key # k
    <3>1. cache'[k] = cache[k] /\ UNCHANGED tree /\ k \notin suspect
      BY <1>5, <2>3 DEF Fill, CacheTypes
    <3> QED
      BY <1>1, <2>1, <3>1, KeptEntry
  <2> QED
    BY <2>2, <2>3
<1>6. ASSUME NEW w \in Writer, NEW id \in Location, NEW parent \in {NoParent} \cup (Location \ {id}),
             NEW hasPrev \in BOOLEAN, StartUpdateParent(w, id, parent, hasPrev)
      PROVE  EntryOK(k)'
  BY <1>2, <1>6 DEF StartUpdateParent
<1>7. ASSUME NEW w \in Writer, NEW id \in Location, NEW policy \in CachePolicy,
             StartRemoveSubTree(w, id, policy)
      PROVE  EntryOK(k)'
  <2>1. /\ writer[w].pc = "idle" /\ UNCHANGED <<tree, cache, suspect>>
        /\ \A v \in Writer \ {w} : writer'[v] = writer[v]
    BY <1>7 DEF StartRemoveSubTree, CacheTypes
  <2> QED
    BY <1>2, <2>1
<1>8. ASSUME NEW w \in Writer, CommitUpdateParent(w) \/ CommitRemoveSubTree(w)
      PROVE  EntryOK(k)'
  BY <1>1, <1>8, CommittedEntry DEF CacheTypes
<1>9. ASSUME NEW w \in Writer, RollBackUpdateParent(w)
      PROVE  EntryOK(k)'
  BY <1>2, <1>9 DEF RollBackUpdateParent, AttachRolledBack
<1>10. ASSUME NEW w \in Writer, CheckChildren(w)
       PROVE  EntryOK(k)'
  <2>1. /\ writer[w].pc = "check" /\ UNCHANGED <<tree, cache, suspect>>
        /\ \A v \in Writer \ {w} : writer'[v] = writer[v]
    BY <1>10 DEF CheckChildren, CacheTypes
  <2> QED
    BY <1>2, <2>1
<1>11. ASSUME NEW w \in Writer, FillChildren(w)
       PROVE  EntryOK(k)'
  <2> DEFINE l == <<"children", writer[w].id>>
  <2>1. /\ writer[w].pc = "fill" /\ UNCHANGED tree
        /\ cache' = [cache EXCEPT ![l] = ZAdd(@, writer[w].data)]
        /\ suspect' = IF writer[w].overtaken THEN suspect \cup {l} ELSE suspect
        /\ \A v \in Writer \ {w} : writer'[v] = writer[v]
    BY <1>11 DEF FillChildren, CacheTypes
  <2>2. \A v \in Writer : writer[v].pc = "committed" => writer'[v] = writer[v]
    BY <2>1
  <2>3. CASE l = k
    <3>1. ~writer[w].overtaken /\ k \notin suspect
      BY <2>1, <2>3
    <3>2. writer[w].data = Entry(k)
      BY <2>1, <2>3, <3>1 DEF CallsOK, CallOK
    <3>3. cache'[k] = ZAdd(cache[k], Entry(k))
      BY <2>1, <2>3, <3>2 DEF CacheTypes
    <3> QED
      BY <1>1, <2>1, <2>2, <3>1, <3>3, FilledEntry
  <2>4. CASE l # k
    <3>1. cache'[k] = cache[k] /\ k \notin suspect
      BY <2>1, <2>4 DEF CacheTypes
    <3> QED
      BY <1>1, <2>1, <2>2, <3>1, KeptEntry DEF Pending
  <2> QED
    BY <2>3, <2>4
<1>12. ASSUME NEW w \in Writer, InvalidateAfterUpdateParent(w)
       PROVE  EntryOK(k)'
  <2>1. /\ writer[w].parent # writer[w].id /\ UNCHANGED tree
        /\ \A v \in Writer \ {w} : writer'[v] = writer[v]
        /\ suspect' = suspect \ DroppedByUpdateParent(writer[w])
        /\ cache'[k] = IF k \in DroppedByUpdateParent(writer[w]) THEN NoEntry ELSE cache[k]
    BY <1>12 DEF InvalidateAfterUpdateParent, DropKeys, CacheTypes
  <2>2. CASE k \in DroppedByUpdateParent(writer[w])
    <3>1. ~Cached(k)'
      BY <2>1, <2>2 DEF Cached, NoEntry
    <3> QED
      BY <3>1 DEF EntryOK
  <2>3. CASE k \notin DroppedByUpdateParent(writer[w])
    <3>1. ~Pending(writer[w], k)
      BY <2>1, <2>3 DEF Pending, Dropped, Trims
    <3> QED
      BY <1>1, <2>1, <2>3, <3>1, KeptEntry
  <2> QED
    BY <2>2, <2>3
<1>13. ASSUME NEW w \in Writer, InvalidateAfterRemoveSubTree(w)
       PROVE  EntryOK(k)'
  <2> DEFINE id == writer[w].id
             trimmed == {"children"} \X writer[w].allParents
             dropped == DroppedByRemoveSubTree(writer[w])
  <2>1. /\ writer[w].pc = "committed" /\ writer[w].parent = id /\ UNCHANGED tree
        /\ \A v \in Writer \ {w} : writer'[v] = writer[v]
        /\ suspect' = (suspect \ dropped)
                          \cup IF writer[w].overtaken THEN {l \in trimmed : Cached(l)} ELSE {}
        /\ cache'[k] = IF k \in dropped THEN NoEntry
                       ELSE IF k \in trimmed THEN ZRem(cache[k], id) ELSE cache[k]
    BY <1>13 DEF InvalidateAfterRemoveSubTree, CacheTypes
  <2>2. CASE k \in dropped
    <3>1. ~Cached(k)'
      BY <2>1, <2>2 DEF Cached, NoEntry
    <3> QED
      BY <3>1 DEF EntryOK
  <2>3. CASE k \notin dropped /\ k \notin trimmed
    <3>1. ~Pending(writer[w], k)
      BY <2>1, <2>3 DEF Pending, Dropped, Trims
    <3> QED
      BY <1>1, <2>1, <2>3, <3>1, KeptEntry
  <2>4. CASE k \notin dropped /\ k \in trimmed
    <3>1. EntryOK(k) /\ cache'[k] = ZRem(cache[k], id)
      BY <1>1, <2>1, <2>4
    <3>2. CASE ~Cached(k)
      <4>1. ~Cached(k)'
        BY <3>1, <3>2 DEF Cached, ZRem
      <4> QED
        BY <4>1 DEF EntryOK
    <3>3. CASE Cached(k)
      <4>1. ~writer[w].overtaken
        BY <2>1, <2>4, <3>3
      <4>2. id \in Location /\ k[2] # id /\ k[1] = "children"
        <5>1. writer[w] \in Move
          BY <2>1, WriterFields DEF CacheTypes
        <5> QED
          BY <2>4, <5>1 DEF Move, DroppedByRemoveSubTree, Key
      <4>3. \A a \in Location : <<a, id>> \notin DOMAIN tree
        BY <2>1, <4>1 DEF CallsOK, CallOK
      <4>4. Entry(k)' = Entry(k) /\ Entry(k) = EntryIn(tree, k)
        BY <2>1, Entries DEF Entry, CacheTypes
      <4>5. ZRem(Entry(k), id) = Entry(k)
        BY <4>2, <4>3, <4>4, TrimsNothing
      <4>6. CASE cache[k] = Entry(k)
        BY <3>1, <4>4, <4>5, <4>6 DEF EntryOK
      <4>7. ASSUME NEW v \in Writer, Pending(writer[v], k)
            PROVE  EntryOK(k)'
        <5>1. CASE v = w
          BY <2>1, <2>4, <3>1, <4>1, <4>4, <4>7, <5>1 DEF Pending, Dropped, EntryOK
        <5>2. CASE v # w
          <6>1. writer'[v] = writer[v]
            BY <2>1, <5>2
          <6>2. k \in Dropped(writer[v]) \/ (Trims(writer[v], k) /\ writer[v].overtaken)
            BY <2>1, <4>1, <4>7, <5>2 DEF Pending, LastCommit
          <6>3. Pending(writer[v], k)'
            BY <4>7, <6>1, <6>2 DEF Pending, Dropped, DroppedByRemoveSubTree,
               DroppedByUpdateParent, Trims
          <6> QED
            BY <6>3 DEF EntryOK
        <5> QED
          BY <5>1, <5>2
      <4> QED
        BY <3>1, <3>3, <4>6, <4>7 DEF EntryOK
    <3> QED
      BY <3>2, <3>3
  <2> QED
    BY <2>2, <2>3, <2>4
<1>14. ASSUME NEW w \in Writer, LoseInvalidation(w)
       PROVE  EntryOK(k)'
  <2>1. /\ cache' = cache /\ UNCHANGED tree /\ k \notin suspect
        /\ \A v \in Writer \ {w} : writer'[v] = writer[v]
    BY <1>14 DEF LoseInvalidation, CacheTypes
  <2>2. CASE ~Cached(k)
    BY <2>1, <2>2 DEF EntryOK, Cached
  <2>3. CASE Cached(k)
    <3>1. ~Pending(writer[w], k)
      BY <1>14, <2>3 DEF LoseInvalidation, Pending, Dropped, Trims
    <3> QED
      BY <1>1, <2>1, <3>1, KeptEntry
  <2> QED
    BY <2>2, <2>3
<1>15. CASE UNCHANGED vars
  BY <1>2, <1>15 DEF vars
<1> QED
  BY <1>3, <1>4, <1>5, <1>6, <1>7, <1>8, <1>9, <1>10, <1>11, <1>12, <1>13, <1>14, <1>15 DEF CachedNext

LEMMA InitCache == CachedInit => CacheTypes
<1> SUFFICES ASSUME CachedInit PROVE CacheTypes
  OBVIOUS
<1>1. Stepwise(tree)
  BY InitHierarchy DEF CachedInit, Init, IInv, Stepwise, IsStepwise
<1> QED
  BY <1>1, NoEntryType DEF CachedInit, CacheTypes, ReaderType, WriterType

(* For any set of locations and any number of readers, writers and writes: *)
(* once every commit has been followed by its MULTI, a cached entry equals *)
(* the rows, unless a race or a lost invalidation has made it suspect.     *)
THEOREM CoherentTheorem == CachedSpec => []Coherent
<1>1. CachedInit => CacheTypes /\ CallsOK /\ LastCommit /\ EntriesOK
  <2> SUFFICES ASSUME CachedInit PROVE CacheTypes /\ CallsOK /\ LastCommit /\ EntriesOK
    OBVIOUS
  <2> QED
    BY InitCache DEF CachedInit, CallsOK, CallOK, ReadOK, LastCommit, EntriesOK, EntryOK,
       Cached, NoEntry, NoRead, NoWrite
<1>2. CacheTypes /\ CallsOK /\ LastCommit /\ EntriesOK => Coherent
  BY DEF EntriesOK, EntryOK, Pending, Coherent, NoInvalidationDue
<1> QED
  BY <1>1, <1>2, NextCacheTypes, NextCalls, NextEntries, PTL DEF CachedSpec

=============================================================================
