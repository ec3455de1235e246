------------------------- MODULE SubscriptionsProofs -------------------------
(***************************************************************************)
(* Theorems about Subscriptions, for any number of locations, records,     *)
(* subscriptions and processes, any interleaving and any failures, in this *)
(* order: creations of subscriptions for a location exclude each other;    *)
(* types; a location has one record; what the gateway remembers of Stripe  *)
(* is or was so; what is paid for is recorded; records mirror Stripe; and  *)
(* removing a location ends its subscription.  Each but the first rests on *)
(* an invariant of its own, which says what holds while requests and events*)
(* are under way, and on the ones before it.                               *)
(***************************************************************************)
EXTENDS Subscriptions, FiniteSetTheorems, SequenceTheorems, TLAPS

Excuses == {"overlap", "clobber", "moved", "late", "lapse", "crossed", "gone"}

(* What the exclusion needs of the types.                                  *)
SectionTypes ==
    /\ process = [p \in Process |-> process[p]]
    /\ \A p \in Process : process[p].pc \in {"lock", "stub", "provider", "release"} =>
          process[p].location \in Location
    /\ lock \in [Location -> {"free", "held"}]
    /\ excuse \in [Location -> SUBSET Excuses]

(* The process in the section holds the lock, so that no other gets it.    *)
HoldsLock ==
    \A p \in Process, l \in Location :
        Creating(p, l) /\ "lapse" \notin excuse[l] => lock[l] = "held"

IInv == SectionTypes /\ HoldsLock /\ OneCreationAtATime

(* Excuses are only ever added.                                            *)
Grows ==
    /\ excuse' \in [Location -> SUBSET Excuses]
    /\ \A l \in Location : excuse[l] \subseteq excuse'[l]

LEMMA ExcuseGrows ==
    ASSUME SectionTypes, NEW L, NEW kind \in Excuses, Excuse(L, kind)
    PROVE  Grows
  BY DEF SectionTypes, Excuse, Grows

LEMMA ExcuseIfGrows ==
    ASSUME SectionTypes, NEW l, NEW kind \in Excuses, NEW cond, ExcuseIf(cond, l, kind)
    PROVE  Grows
  BY ExcuseGrows DEF ExcuseIf

LEMMA RemovalGrows == ASSUME SectionTypes, NEW p, RemoveLocationRecord(p) PROVE Grows
  BY DEF SectionTypes, RemoveLocationRecord, Grows, Excuses

LEMMA WriteGrows == ASSUME SectionTypes, NEW p, WriteFromWebhook(p) PROVE Grows
  BY DEF SectionTypes, WriteFromWebhook, Grows, Excuses

LEMMA SameExcuse == SectionTypes /\ UNCHANGED excuse => Grows
  BY DEF SectionTypes, Grows

LEMMA Became ==
    ASSUME SectionTypes, NEW p \in Process, NEW state, Become(p, state)
    PROVE  /\ process' = [q \in Process |-> process'[q]]
           /\ process'[p] = state
           /\ \A q \in Process \ {p} : process'[q] = process[q]
<1>1. process' = [q \in Process |-> IF q = p THEN state ELSE process[q]]
  BY DEF SectionTypes, Become
<1> QED
  BY <1>1

-----------------------------------------------------------------------------
(* A step that leaves the lock alone, and brings nobody into the section.  *)
LEMMA OutsideStep ==
    ASSUME IInv, NEW p \in Process, NEW state, Become(p, state), UNCHANGED lock, Grows,
           state.pc \in {"lock", "stub", "provider", "release"} => state.location \in Location,
           state.pc \in {"stub", "provider", "release"} => Creating(p, state.location)
    PROVE  IInv'
<1> USE DEF IInv
<1>1. /\ process' = [q \in Process |-> process'[q]]
      /\ process'[p] = state
      /\ \A q \in Process \ {p} : process'[q] = process[q]
  BY Became
<1>2. SectionTypes'
  <2>1. \A q \in Process : process'[q].pc \in {"lock", "stub", "provider", "release"} =>
           process'[q].location \in Location
    BY <1>1 DEF SectionTypes
  <2> QED
    BY <1>1, <2>1 DEF SectionTypes, Grows
<1>3. \A q \in Process, l \in Location : Creating(q, l)' => Creating(q, l)
  BY <1>1 DEF Creating
<1>4. HoldsLock' /\ OneCreationAtATime'
  BY <1>3 DEF HoldsLock, OneCreationAtATime, Grows
<1> QED
  BY <1>2, <1>4

LEMMA LockStep == ASSUME IInv, NEW p \in Process, AcquireLock(p) PROVE IInv'
<1> USE DEF IInv
<1> DEFINE here == process[p].location
<1>1. here \in Location /\ process[p].pc = "lock"
  BY DEF AcquireLock, SectionTypes
<1>2. CASE lock[here] # "free"
  <2>1. Become(p, Idle) /\ UNCHANGED <<lock, excuse>>
    BY <1>2 DEF AcquireLock
  <2> QED
    BY <2>1, SameExcuse, OutsideStep DEF Idle
<1>3. CASE lock[here] = "free"
  <2> DEFINE state == [process[p] EXCEPT !.pc = "stub"]
  <2>1. Become(p, state) /\ excuse' = excuse /\ lock' = [lock EXCEPT ![here] = "held"]
    BY <1>3 DEF AcquireLock
  <2>2. state.location = here
    OBVIOUS
  <2>3. /\ process' = [q \in Process |-> process'[q]]
        /\ process'[p] = state
        /\ \A q \in Process \ {p} : process'[q] = process[q]
    BY <2>1, Became
  <2> HIDE DEF state, here
  <2>4. lock'[here] = "held" /\ (\A l \in Location : l # here => lock'[l] = lock[l])
        /\ lock' \in [Location -> {"free", "held"}]
    BY <1>1, <2>1 DEF SectionTypes
  <2>5. SectionTypes'
    <3>1. \A q \in Process : process'[q].pc \in {"lock", "stub", "provider", "release"} =>
             process'[q].location \in Location
      BY <1>1, <2>2, <2>3 DEF SectionTypes
    <3> QED
      BY <2>1, <2>3, <2>4, <3>1 DEF SectionTypes
  <2>6. \A q \in Process, l \in Location : Creating(q, l)' => (q = p /\ l = here) \/ (q # p /\ Creating(q, l))
    BY <2>2, <2>3 DEF Creating
  <2>7. HoldsLock'
    BY <2>1, <2>4, <2>6 DEF HoldsLock
  <2>8. OneCreationAtATime'
    BY <1>3, <2>1, <2>6 DEF HoldsLock, OneCreationAtATime
  <2> QED
    BY <2>5, <2>7, <2>8
<1> QED
  BY <1>2, <1>3

LEMMA ReleaseStep == ASSUME IInv, NEW p \in Process, ReleaseLock(p) PROVE IInv'
<1> USE DEF IInv
<1> DEFINE here == process[p].location
<1>1. here \in Location /\ Creating(p, here)
  BY DEF ReleaseLock, SectionTypes, Creating
<1>2. Become(p, Idle) /\ excuse' = excuse /\ lock' = [lock EXCEPT ![here] = "free"]
  BY DEF ReleaseLock
<1>3. /\ process' = [q \in Process |-> process'[q]]
      /\ process'[p] = Idle
      /\ \A q \in Process \ {p} : process'[q] = process[q]
  BY <1>2, Became
<1> HIDE DEF here
<1>4. SectionTypes'
  <2>1. \A q \in Process : process'[q].pc \in {"lock", "stub", "provider", "release"} =>
           process'[q].location \in Location
    BY <1>3 DEF SectionTypes, Idle
  <2>2. lock' \in [Location -> {"free", "held"}]
    BY <1>2 DEF SectionTypes
  <2> QED
    BY <1>2, <1>3, <2>1, <2>2 DEF SectionTypes
<1>5. \A q \in Process, l \in Location : Creating(q, l)' => q # p /\ Creating(q, l)
  BY <1>3 DEF Creating, Idle
<1>6. HoldsLock'
  <2> SUFFICES ASSUME NEW q \in Process, NEW l \in Location, Creating(q, l)', "lapse" \notin excuse[l]
               PROVE  lock'[l] = "held"
    BY <1>2 DEF HoldsLock
  <2>1. q # p /\ Creating(q, l) /\ lock[l] = "held"
    BY <1>5 DEF HoldsLock
  <2>2. l # here
    BY <1>1, <2>1 DEF OneCreationAtATime
  <2> QED
    BY <1>1, <1>2, <2>1, <2>2 DEF SectionTypes
<1>7. OneCreationAtATime'
  BY <1>2, <1>5 DEF OneCreationAtATime
<1> QED
  BY <1>4, <1>6, <1>7

LEMMA ExpireStep == ASSUME IInv, NEW l \in Location, LockExpires(l) PROVE IInv'
<1> USE DEF IInv
<1>1. Grows /\ process' = process /\ lock' = [lock EXCEPT ![l] = "free"]
  BY ExcuseIfGrows DEF LockExpires, Excuses
<1>2. SectionTypes'
  BY <1>1 DEF SectionTypes, Grows
<1>3. \A p \in Process : Creating(p, l) => "lapse" \in excuse'[l]
  BY DEF LockExpires, ExcuseIf, Excuse
<1>4. \A p \in Process, k \in Location : Creating(p, k)' <=> Creating(p, k)
  BY <1>1 DEF Creating
<1>5. HoldsLock'
  BY <1>1, <1>3, <1>4 DEF HoldsLock, SectionTypes, Grows
<1>6. OneCreationAtATime'
  BY <1>1, <1>4 DEF OneCreationAtATime, Grows
<1> QED
  BY <1>2, <1>5, <1>6

-----------------------------------------------------------------------------
(* Every action.                                                           *)

(* Processes that neither take the lock nor are in the section.            *)
LEMMA FreeStep ==
    ASSUME IInv, NEW p \in Process, NEW state, Become(p, state), UNCHANGED lock, Grows,
           state.pc \notin {"lock", "stub", "provider", "release"}
    PROVE  IInv'
  BY OutsideStep

LEMMA StillStep == ASSUME IInv, UNCHANGED <<process, lock>>, Grows PROVE IInv'
<1>1. SectionTypes'
  BY DEF IInv, SectionTypes, Grows
<1>2. \A p \in Process, l \in Location : Creating(p, l)' <=> Creating(p, l)
  BY DEF Creating
<1> QED
  BY <1>1, <1>2 DEF IInv, HoldsLock, OneCreationAtATime, Grows

LEMMA RequestStep == ASSUME IInv, NEW p \in Process, Request(p) PROVE IInv'
<1> USE DEF IInv
<1>1. ASSUME NEW l \in Location, CreateSubscription(p, l) PROVE IInv'
  <2>1. UNCHANGED lock /\ Grows
    BY <1>1, SameExcuse, ExcuseIfGrows DEF CreateSubscription, Excuses
  <2>2. CASE \E id \in At(l) : Become(p, [pc |-> "reactivate", sub |-> record[id].sub])
    BY <2>1, <2>2, FreeStep
  <2>3. CASE \E id, seen : Become(p, [pc |-> "lock", location |-> l, id |-> id, seen |-> seen])
    BY <2>1, <2>3, OutsideStep
  <2> QED
    BY <1>1, <2>2, <2>3 DEF CreateSubscription
<1>2. ASSUME NEW l \in Location, RemoveLocation(p, l) PROVE IInv'
  <2>1. \E found : Become(p, [pc |-> "removeRecord", location |-> l, found |-> found])
    BY <1>2 DEF RemoveLocation
  <2>2. UNCHANGED lock /\ Grows
    BY <1>2, SameExcuse DEF RemoveLocation
  <2> QED
    BY <2>1, <2>2, FreeStep
<1>3. ASSUME NEW id, NEW immediately, ReadToCancel(p, id, immediately), UNCHANGED <<lock, excuse>>
      PROVE  IInv'
  <2>1. CASE Become(p, Idle)
    BY <1>3, <2>1, SameExcuse, FreeStep DEF Idle
  <2>2. CASE Become(p, [pc |-> "cancel", id |-> id, sub |-> record[id].sub, immediately |-> immediately])
    BY <1>3, <2>2, SameExcuse, FreeStep
  <2> QED
    BY <1>3, <2>1, <2>2 DEF ReadToCancel
<1> QED
  BY <1>1, <1>2, <1>3 DEF Request, CancelSubscription

LEMMA SectionStep == ASSUME IInv, NEW p \in Process, PutStub(p) \/ CreateInStripe(p) PROVE IInv'
<1> USE DEF IInv
<1> DEFINE here == process[p].location
<1>1. here \in Location /\ Creating(p, here) /\ UNCHANGED lock
  BY DEF PutStub, CreateInStripe, SectionTypes, Creating
<1>2. Grows
  BY SameExcuse, ExcuseGrows DEF PutStub, CreateInStripe, Excuses
<1>3. CASE PutStub(p)
  <2>1. Become(p, [pc |-> "provider", location |-> here])
    BY <1>3 DEF PutStub
  <2> QED
    BY <1>1, <1>2, <2>1, OutsideStep
<1>4. CASE CreateInStripe(p)
  <2> DEFINE state == [process[p] EXCEPT !.pc = "release"]
  <2>1. Become(p, state) /\ state.location = here /\ Creating(p, state.location)
    BY <1>1, <1>4 DEF CreateInStripe
  <2> HIDE DEF state
  <2> QED
    BY <1>1, <1>2, <2>1, OutsideStep
<1> QED
  BY <1>3, <1>4

LEMMA OtherSteps ==
    ASSUME IInv, NEW p \in Process,
           \/ Reactivate(p) \/ CancelInStripe(p) \/ SaveCanceled(p) \/ RemoveLocationRecord(p)
           \/ CancelRemoved(p) \/ ValidateLocationExists(p) \/ WriteFromWebhook(p) \/ Crash(p)
    PROVE  IInv'
<1> USE DEF IInv
<1>1. UNCHANGED lock
  BY DEF Reactivate, CancelInStripe, SaveCanceled, RemoveLocationRecord, CancelRemoved,
         ValidateLocationExists, WriteFromWebhook, Crash
<1>2. Grows
  BY SameExcuse, ExcuseIfGrows, RemovalGrows, WriteGrows
  DEF Reactivate, CancelInStripe, SaveCanceled, CancelRemoved, ValidateLocationExists, Crash, Excuses
<1>3. CASE Reactivate(p) \/ SaveCanceled(p) \/ WriteFromWebhook(p) \/ Crash(p)
  <2>1. Become(p, Idle)
    BY <1>3 DEF Reactivate, SaveCanceled, WriteFromWebhook, Crash
  <2> QED
    BY <1>1, <1>2, <2>1, FreeStep DEF Idle
<1>4. CASE CancelInStripe(p)
  <2>1. \/ Become(p, Idle)
        \/ \E id, sub, status, ends :
              Become(p, [pc |-> "saveCancel", id |-> id, sub |-> sub, status |-> status, ends |-> ends])
    BY <1>4 DEF CancelInStripe
  <2> QED
    BY <1>1, <1>2, <2>1, FreeStep DEF Idle
<1>5. CASE RemoveLocationRecord(p)
  <2>1. Become(p, Idle) \/ Become(p, [process[p] EXCEPT !.pc = "removeCancel"])
    BY <1>5 DEF RemoveLocationRecord
  <2>2. [process[p] EXCEPT !.pc = "removeCancel"].pc = "removeCancel"
    OBVIOUS
  <2> QED
    BY <1>1, <1>2, <2>1, <2>2, FreeStep DEF Idle
<1>6. CASE CancelRemoved(p)
  <2>1. PICK id : ReadToCancel(p, id, TRUE)
    BY <1>6 DEF CancelRemoved
  <2>2. \/ Become(p, Idle)
        \/ Become(p, [pc |-> "cancel", id |-> id, sub |-> record[id].sub, immediately |-> TRUE])
    BY <2>1 DEF ReadToCancel
  <2> QED
    BY <1>1, <1>2, <2>2, FreeStep DEF Idle
<1>7. CASE ValidateLocationExists(p)
  <2>1. process[p].pc = "hook" /\ [process[p] EXCEPT !.check = "done"].pc = process[p].pc
    BY <1>7 DEF ValidateLocationExists
  <2>2. Become(p, Idle) \/ Become(p, [process[p] EXCEPT !.check = "done"])
    BY <1>7 DEF ValidateLocationExists
  <2> QED
    BY <1>1, <1>2, <2>1, <2>2, FreeStep DEF Idle
<1> QED
  BY <1>3, <1>4, <1>5, <1>6, <1>7

LEMMA WebhookStep == ASSUME IInv, NEW p \in Process, NEW s \in Sub, Webhook(p, s) PROVE IInv'
<1> USE DEF IInv
<1>1. PICK e : WebhookCreated(p, e) \/ WebhookUpdated(p, e)
  BY DEF Webhook
<1>2. UNCHANGED lock /\ Grows
  BY <1>1, SameExcuse, ExcuseIfGrows DEF Webhook, WebhookCreated, WebhookUpdated, Excuses
<1>3. UNCHANGED process \/ \E id, c : Become(p, [pc |-> "hook", id |-> id, event |-> e, check |-> c])
  BY <1>1 DEF WebhookCreated, WebhookUpdated, Write
<1> QED
  BY <1>2, <1>3, FreeStep, StillStep

LEMMA NextInv == IInv /\ [Next]_vars => IInv'
<1> SUFFICES ASSUME IInv, [Next]_vars PROVE IInv'
  OBVIOUS
<1>1. ASSUME NEW s \in Sub, StripeChanges(s) PROVE IInv'
  BY <1>1, StillStep, SameExcuse DEF StripeChanges, IInv
<1>2. CASE UNCHANGED vars
  BY <1>2, StillStep, SameExcuse DEF vars, IInv
<1> QED
  BY <1>1, <1>2, RequestStep, WebhookStep, LockStep, SectionStep, ReleaseStep, OtherSteps, ExpireStep
  DEF Next, Step

LEMMA InitInv == Init => IInv
  BY DEF Init, IInv, SectionTypes, HoldsLock, OneCreationAtATime, Creating, Idle, Excuses

(* subscription:mutex:<location> keeps creations apart from the stub to    *)
(* the answer of Stripe, whatever else runs and wherever one stops, as     *)
(* long as none outlives the lock.                                         *)
THEOREM ExclusionInvariant == Spec => []OneCreationAtATime
  BY InitInv, NextInv, PTL DEF Spec, IInv

-----------------------------------------------------------------------------
(* Facts about sequences.                                                  *)

(* Min picks an element of a bounded set of numbers: the intervals 1..i are *)
(* well ordered by inclusion.                                              *)
LEMMA LeastExists ==
    ASSUME NEW n \in Nat, NEW I \in SUBSET (1..n), I # {}
    PROVE  Min(I) \in I /\ \A i \in I : Min(I) <= i
<1> DEFINE S == 1..n
           T == {1..i : i \in I}
<1>1. IsFiniteSet(S) /\ FiniteSubsetsOf(S) = SUBSET S
  BY FS_Interval, FS_FiniteSubsetsOfFinite
<1>2. T \subseteq SUBSET S /\ T # {}
  <2>1. \A i \in I : 1..i \subseteq S
    OBVIOUS
  <2> QED
    BY <2>1
<1>3. IsWellFoundedOn(StrictSubsetOrdering(S), SUBSET S)
  BY <1>1, FS_StrictSubsetOrderingWellFounded
<1>4. PICK t \in T : \A u \in T : <<u, t>> \notin StrictSubsetOrdering(S)
  <2> HIDE DEF S, T
  <2> QED
    BY <1>2, <1>3, WFMin
<1>5. PICK x \in I : t = 1..x
  OBVIOUS
<1>6. ASSUME NEW i \in I PROVE x <= i
  <2> SUFFICES ASSUME i < x PROVE FALSE
    OBVIOUS
  <2>1. 1..i \subseteq 1..x /\ x \in 1..x /\ x \notin 1..i
    OBVIOUS
  <2>2. (1..i) \in T /\ (1..i) \in SUBSET S /\ (1..x) \in SUBSET S
    OBVIOUS
  <2>3. <<1..i, 1..x>> \in StrictSubsetOrdering(S)
    BY <2>1, <2>2, Zenon DEF StrictSubsetOrdering
  <2> QED
    BY <1>4, <1>5, <2>2, <2>3
<1> QED
  BY <1>6 DEF Min

(* What RemoveFirst takes away and leaves.                                 *)
LEMMA RemoveFirstProperties ==
    ASSUME NEW S, NEW q \in Seq(S), NEW e
    PROVE  /\ RemoveFirst(q, e) \in Seq(S)
           /\ \A i \in 1..Len(RemoveFirst(q, e)) : \E j \in 1..Len(q) : RemoveFirst(q, e)[i] = q[j]
           /\ \A j \in 1..Len(q) : q[j] # e => \E i \in 1..Len(RemoveFirst(q, e)) : RemoveFirst(q, e)[i] = q[j]
           /\ Len(q) # 0 /\ q[1] = e => RemoveFirst(q, e) = Tail(q)
<1>1. CASE ~ \E i \in 1..Len(q) : q[i] = e
  BY <1>1 DEF RemoveFirst
<1>2. CASE \E i \in 1..Len(q) : q[i] = e
  <2> DEFINE I == {i \in 1..Len(q) : q[i] = e}
             k == Min(I)
  <2>1. k \in 1..Len(q) /\ q[k] = e /\ \A i \in I : k <= i
    <3>1. Len(q) \in Nat /\ I \in SUBSET (1..Len(q)) /\ I # {}
      BY <1>2
    <3> HIDE DEF I
    <3>2. k \in I /\ \A i \in I : k <= i
      BY <3>1, LeastExists
    <3> QED
      BY <3>2 DEF I
  <2>2. SelectInSeq(q, LAMBDA v : v = e) = k
    BY <1>2 DEF SelectInSeq
  <2> HIDE DEF k, I
  <2>3. RemoveFirst(q, e) = SubSeq(q, 1, k - 1) \o SubSeq(q, k + 1, Len(q))
    BY <1>2, <2>2 DEF RemoveFirst, RemoveAt
  <2> DEFINE r == SubSeq(q, 1, k - 1) \o SubSeq(q, k + 1, Len(q))
  <2>4. r \in Seq(S) /\ Len(r) = Len(q) - 1
        /\ \A i \in 1..Len(r) : r[i] = IF i < k THEN q[i] ELSE q[i + 1]
    <3> DEFINE a == SubSeq(q, 1, k - 1)
               b == SubSeq(q, k + 1, Len(q))
    <3>1. a \in Seq(S) /\ Len(a) = k - 1 /\ \A i \in 1..Len(a) : a[i] = q[i]
      BY <2>1
    <3>2. b \in Seq(S) /\ Len(b) = Len(q) - k /\ \A i \in 1..Len(b) : b[i] = q[i + k]
      BY <2>1
    <3> HIDE DEF a, b
    <3>3. Len(a \o b) = Len(a) + Len(b) /\ a \o b \in Seq(S)
      BY <3>1, <3>2
    <3>4. \A i \in 1..Len(a \o b) : (a \o b)[i] = IF i <= Len(a) THEN a[i] ELSE b[i - Len(a)]
      BY <3>1, <3>2, ConcatProperties
    <3>5. ASSUME NEW i \in 1..Len(a \o b)
          PROVE  (a \o b)[i] = IF i < k THEN q[i] ELSE q[i + 1]
      <4>1. i <= Len(a) <=> i < k
        BY <2>1, <3>1, <3>3, <3>2
      <4>2. CASE i < k
        BY <3>1, <3>4, <4>1, <4>2
      <4>3. CASE ~(i < k)
        <5>1. i - Len(a) \in 1..Len(b) /\ (i - Len(a)) + k = i + 1
          BY <2>1, <3>1, <3>2, <3>3, <4>3
        <5> QED
          BY <3>2, <3>4, <4>1, <4>3, <5>1
      <4> QED
        BY <4>2, <4>3
    <3>6. Len(a \o b) = Len(q) - 1
      BY <2>1, <3>1, <3>2, <3>3
    <3>7. r = a \o b
      BY DEF a, b
    <3> HIDE DEF r
    <3> QED
      BY <3>3, <3>5, <3>6, <3>7
  <2> HIDE DEF r
  <2>5. \A j \in 1..Len(q) : q[j] # e => \E i \in 1..Len(r) : r[i] = q[j]
    <3> SUFFICES ASSUME NEW j \in 1..Len(q), q[j] # e PROVE \E i \in 1..Len(r) : r[i] = q[j]
      OBVIOUS
    <3>1. CASE j < k
      BY <2>1, <2>4, <3>1
    <3>2. CASE j > k
      <4>1. j - 1 \in 1..Len(r) /\ r[j - 1] = q[j]
        BY <2>1, <2>4, <3>2
      <4> QED
        BY <4>1
    <3> QED
      BY <2>1, <3>1, <3>2
  <2>6. Len(q) # 0 /\ q[1] = e => r = Tail(q)
    <3> SUFFICES ASSUME Len(q) # 0, q[1] = e PROVE r = Tail(q)
      OBVIOUS
    <3>1. k = 1
      BY <2>1 DEF I
    <3> QED
      BY <2>1, <2>4, <3>1
  <2>7. ASSUME NEW i \in 1..Len(r) PROVE \E j \in 1..Len(q) : r[i] = q[j]
    <3>1. i \in 1..Len(q) /\ i + 1 \in 1..Len(q)
      BY <2>1, <2>4
    <3> QED
      BY <2>4, <3>1
  <2> QED
    BY <2>3, <2>4, <2>5, <2>6, <2>7 DEF r
<1> QED
  BY <1>1, <1>2

LEMMA LastOfTail ==
    ASSUME NEW S, NEW q \in Seq(S), Len(q) # 0, Len(Tail(q)) # 0
    PROVE  Tail(q)[Len(Tail(q))] = q[Len(q)]
<1> DEFINE n == Len(Tail(q))
<1>1. Len(q) \in Nat /\ n = Len(q) - 1 /\ \A i \in 1..n : Tail(q)[i] = q[i + 1]
  BY HeadTailProperties
<1> HIDE DEF n
<1>2. n \in 1..n /\ n + 1 = Len(q)
  BY <1>1 DEF n
<1> QED
  BY <1>1, <1>2 DEF n

-----------------------------------------------------------------------------
(* Type correctness of everything.                                         *)
Billed == {"incomplete", "active", "past_due", "canceled"}

RecordType ==
    {Nothing}
    \cup [location : Location, sub : {Unknown}, status : {"_PENDING_"}, ends : {FALSE}]
    \cup [location : Location, sub : Sub, status : Billed, ends : BOOLEAN]

BilledType == [location : Location, status : Billed, ends : BOOLEAN]

EventType ==
    [type : {"created", "updated", "deleted"}, location : Location, sub : Sub,
     status : Billed, ends : BOOLEAN]

Check == {"none", "due", "done"}

ProcessType ==
    {Idle}
    \cup [pc : {"reactivate"}, sub : Sub]
    \cup [pc : {"lock", "stub"}, location : Location, id : Id, seen : Sub \cup {Unknown}]
    \cup [pc : {"provider", "release"}, location : Location]
    \cup [pc : {"cancel"}, id : Id, sub : Sub \cup {Unknown}, immediately : BOOLEAN]
    \cup [pc : {"saveCancel"}, id : Id, sub : Sub, status : Billed, ends : BOOLEAN]
    \cup [pc : {"removeRecord", "removeCancel"}, location : Location, found : SUBSET Id]
    \cup [pc : {"hook"}, id : Id, event : EventType, check : Check]

(* A cancellation is about a record that was there; it is never removed.   *)
Named ==
    \A p \in Process :
        /\ process[p].pc \in {"cancel", "saveCancel"} => Known(process[p].id)
        /\ process[p].pc \in {"removeRecord", "removeCancel"} => \A id \in process[p].found : Known(id)

TypeOK ==
    /\ record \in [Id -> RecordType]
    /\ locations \in SUBSET Location
    /\ lock \in [Location -> {"free", "held"}]
    /\ stripe \in [Sub -> {Nothing} \cup BilledType]
    /\ events \in [Sub -> Seq(EventType)]
    /\ process \in [Process -> ProcessType]
    /\ failures \in Nat
    /\ excuse \in [Location -> SUBSET Excuses]
    /\ Named

LEMMA RecordCases ==
    ASSUME TypeOK, NEW id \in Id
    PROVE  /\ ~Known(id) => record[id] = Nothing
           /\ Known(id) => \/ record[id] \in [location : Location, sub : {Unknown}, status : {"_PENDING_"}, ends : {FALSE}]
                           \/ record[id] \in [location : Location, sub : Sub, status : Billed, ends : BOOLEAN]
<1>1. record[id] \in RecordType
  BY DEF TypeOK
<1>2. CASE record[id] = Nothing
  BY <1>2 DEF Known, Nothing
<1>3. CASE record[id] \in [location : Location, sub : {Unknown}, status : {"_PENDING_"}, ends : {FALSE}]
  BY <1>3 DEF Known
<1>4. CASE record[id] \in [location : Location, sub : Sub, status : Billed, ends : BOOLEAN]
  BY <1>4 DEF Known, Billed
<1> QED
  BY <1>1, <1>2, <1>3, <1>4 DEF RecordType

LEMMA ProcessCases ==
    ASSUME TypeOK, NEW p \in Process
    PROVE  /\ process[p].pc = "idle" => process[p] = Idle
           /\ process[p].pc = "reactivate" => process[p] \in [pc : {"reactivate"}, sub : Sub]
           /\ process[p].pc \in {"lock", "stub"} =>
                process[p] \in [pc : {"lock", "stub"}, location : Location, id : Id, seen : Sub \cup {Unknown}]
           /\ process[p].pc \in {"provider", "release"} =>
                process[p] \in [pc : {"provider", "release"}, location : Location]
           /\ process[p].pc = "cancel" =>
                process[p] \in [pc : {"cancel"}, id : Id, sub : Sub \cup {Unknown}, immediately : BOOLEAN]
           /\ process[p].pc = "saveCancel" =>
                process[p] \in [pc : {"saveCancel"}, id : Id, sub : Sub, status : Billed, ends : BOOLEAN]
           /\ process[p].pc \in {"removeRecord", "removeCancel"} =>
                process[p] \in [pc : {"removeRecord", "removeCancel"}, location : Location, found : SUBSET Id]
           /\ process[p].pc = "hook" => process[p] \in [pc : {"hook"}, id : Id, event : EventType, check : Check]
  BY DEF TypeOK, ProcessType, Idle

(* Stripe and its events.                                                  *)
LEMMA LiveIsBilled == ASSUME TypeOK, NEW s \in Sub, stripe[s].status # "none" PROVE stripe[s] \in BilledType
  BY DEF TypeOK, Nothing

StripeTypes == stripe \in [Sub -> {Nothing} \cup BilledType] /\ events \in [Sub -> Seq(EventType)]

LEMMA ReportType ==
    ASSUME TypeOK, NEW s \in Sub, NEW new \in BilledType, NEW type \in {"created", "updated", "deleted"},
           Report(s, new, type)
    PROVE  StripeTypes'
<1> DEFINE e == [type |-> type, location |-> new.location, sub |-> s, status |-> new.status, ends |-> new.ends]
<1>1. e \in EventType
  BY DEF EventType, BilledType
<1>2. events' = events \/ events' = [events EXCEPT ![s] = Append(events[s], e)]
  BY DEF Report
<1>3. Append(events[s], e) \in Seq(EventType)
  BY <1>1, AppendProperties DEF TypeOK
<1> HIDE DEF e
<1> QED
  BY <1>2, <1>3 DEF TypeOK, StripeTypes, Report

LEMMA NewType ==
    ASSUME TypeOK, NEW s \in Sub, NEW l \in Location, NEW status \in Billed, NewInStripe(s, l, status)
    PROVE  StripeTypes'
<1>1. [location |-> l, status |-> status, ends |-> FALSE] \in BilledType
  BY DEF BilledType
<1> QED
  BY <1>1, ReportType DEF NewInStripe

LEMMA AcknowledgeType ==
    ASSUME TypeOK, NEW e \in EventType, UNCHANGED stripe, Acknowledge(e) \/ UNCHANGED events
    PROVE  StripeTypes'
<1>1. RemoveFirst(events[e.sub], e) \in Seq(EventType)
  BY RemoveFirstProperties DEF TypeOK, EventType
<1>2. events' = events \/ events' = [events EXCEPT ![e.sub] = RemoveFirst(events[e.sub], e)]
  BY DEF Acknowledge
<1> QED
  BY <1>1, <1>2 DEF TypeOK, StripeTypes

-----------------------------------------------------------------------------
(* Every step keeps the types.                                             *)
LEMMA TypesOfSection == TypeOK => SectionTypes
<1> SUFFICES ASSUME TypeOK PROVE SectionTypes
  OBVIOUS
<1>1. \A p \in Process : process[p].pc \in {"lock", "stub", "provider", "release"} =>
         process[p].location \in Location
  BY ProcessCases
<1> QED
  BY <1>1 DEF TypeOK, SectionTypes

KnownStays == \A id \in Id : Known(id) => Known(id)'

(* What a process goes on with has the types, and names records there are. *)
Proper(state) ==
    /\ state \in ProcessType
    /\ state.pc \in {"cancel", "saveCancel"} => record'[state.id].status # "none"
    /\ state.pc \in {"removeRecord", "removeCancel"} => \A id \in state.found : Known(id)'

LEMMA TypeStep ==
    ASSUME TypeOK, record' \in [Id -> RecordType], KnownStays, locations' \in SUBSET Location,
           lock' \in [Location -> {"free", "held"}], StripeTypes', Grows, failures' \in Nat,
           process' = process \/ \E p \in Process : \E state : Become(p, state) /\ Proper(state)
    PROVE  TypeOK'
<1>1. process' \in [Process -> ProcessType] /\ Named'
  <2>1. CASE process' = process
    <3>1. \A p \in Process : process[p].pc \in {"cancel", "saveCancel"} => process[p].id \in Id
      BY ProcessCases
    <3>2. \A p \in Process : process[p].pc \in {"removeRecord", "removeCancel"} => process[p].found \subseteq Id
      BY ProcessCases
    <3> QED
      BY <2>1, <3>1, <3>2 DEF TypeOK, Named, KnownStays
  <2>2. CASE \E p \in Process : \E state : Become(p, state) /\ Proper(state)
    <3> PICK p \in Process : \E state : Become(p, state) /\ Proper(state)
      BY <2>2
    <3>1. PICK state : Become(p, state) /\ Proper(state)
      OBVIOUS
    <3>2. process' \in [Process -> ProcessType] /\ process'[p] = state
          /\ \A q \in Process \ {p} : process'[q] = process[q]
      BY <3>1 DEF TypeOK, Become, Proper
    <3>3. \A q \in Process : process[q].pc \in {"cancel", "saveCancel"} => process[q].id \in Id
      BY ProcessCases
    <3>4. \A q \in Process : process[q].pc \in {"removeRecord", "removeCancel"} => process[q].found \subseteq Id
      BY ProcessCases
    <3>5. Named'
      BY <3>1, <3>2, <3>3, <3>4 DEF TypeOK, Named, KnownStays, Known, Proper
    <3> QED
      BY <3>2, <3>5
  <2> QED
    BY <2>1, <2>2
<1> QED
  BY <1>1 DEF TypeOK, StripeTypes, Grows

LEMMA ProperIdle == Proper(Idle)
  BY DEF Proper, ProcessType, Idle

(* A step that writes no record.                                           *)
LEMMA TypeOfRequest ==
    ASSUME TypeOK, NEW p \in Process, NEW state, Become(p, state), Proper(state),
           UNCHANGED <<record, locations, stripe, events, failures>>,
           lock' \in [Location -> {"free", "held"}], Grows
    PROVE  TypeOK'
<1>1. KnownStays
  BY DEF KnownStays, Known
<1>2. StripeTypes'
  BY DEF TypeOK, StripeTypes
<1> QED
  BY <1>1, <1>2, TypeStep DEF TypeOK

LEMMA TypeOfBegin == ASSUME TypeOK, NEW p \in Process, Request(p) PROVE TypeOK'
<1> USE TypesOfSection
<1>1. ASSUME NEW l \in Location, CreateSubscription(p, l) PROVE TypeOK'
  <2>1. Grows /\ lock' \in [Location -> {"free", "held"}]
    BY <1>1, SameExcuse, ExcuseIfGrows DEF CreateSubscription, Excuses, TypeOK
  <2>2. ASSUME NEW id \in At(l), Reactivable(record[id]), Become(p, [pc |-> "reactivate", sub |-> record[id].sub])
        PROVE  TypeOK'
    <3>1. record[id].sub \in Sub
      BY <2>2, RecordCases DEF At, Reactivable, Moribund, Delinquent, Active
    <3>2. Proper([pc |-> "reactivate", sub |-> record[id].sub])
      BY <3>1 DEF Proper, ProcessType
    <3> QED
      BY <1>1, <2>1, <2>2, <3>2, TypeOfRequest DEF CreateSubscription
  <2>3. ASSUME NEW id \in Id, NEW seen \in Sub \cup {Unknown},
               Become(p, [pc |-> "lock", location |-> l, id |-> id, seen |-> seen])
        PROVE  TypeOK'
    <3>1. Proper([pc |-> "lock", location |-> l, id |-> id, seen |-> seen])
      BY DEF Proper, ProcessType
    <3> QED
      BY <1>1, <2>1, <2>3, <3>1, TypeOfRequest DEF CreateSubscription
  <2>4. \A id \in At(l) : id \in Id /\ record[id].sub \in Sub \cup {Unknown}
    BY RecordCases DEF At
  <2> QED
    BY <1>1, <2>2, <2>3, <2>4 DEF CreateSubscription, Unused
<1>2. ASSUME NEW l \in Location, RemoveLocation(p, l) PROVE TypeOK'
  <2>1. Grows /\ lock' \in [Location -> {"free", "held"}]
    BY <1>2, SameExcuse DEF RemoveLocation, TypeOK
  <2>2. PICK found \in SUBSET Id : /\ Become(p, [pc |-> "removeRecord", location |-> l, found |-> found])
                                   /\ \A id \in found : Known(id)
    <3>1. At(l) \subseteq Id /\ \A id \in At(l) : Known(id)
      BY DEF At
    <3>2. PICK found : /\ Become(p, [pc |-> "removeRecord", location |-> l, found |-> found])
                       /\ found = {} \/ \E id \in At(l) : found = {id}
      BY <1>2 DEF RemoveLocation
    <3> QED
      BY <3>1, <3>2
  <2>3. Proper([pc |-> "removeRecord", location |-> l, found |-> found])
    BY <1>2, <2>2 DEF Proper, ProcessType, RemoveLocation, Known
  <2> QED
    BY <1>2, <2>1, <2>2, <2>3, TypeOfRequest DEF RemoveLocation
<1>3. ASSUME NEW id \in Id, NEW immediately \in BOOLEAN, CancelSubscription(p, id, immediately) PROVE TypeOK'
  <2>1. Grows /\ lock' \in [Location -> {"free", "held"}]
    BY <1>3, SameExcuse DEF CancelSubscription, TypeOK
  <2>2. CASE Become(p, Idle)
    BY <1>3, <2>1, <2>2, ProperIdle, TypeOfRequest DEF CancelSubscription
  <2> DEFINE state == [pc |-> "cancel", id |-> id, sub |-> record[id].sub, immediately |-> immediately]
  <2>3. CASE Become(p, state)
    <3>1. Known(id) /\ Known(id)'
      BY <1>3 DEF CancelSubscription, Known
    <3>2. Proper(state)
      BY <3>1, RecordCases DEF Proper, ProcessType, Known
    <3> HIDE DEF state
    <3> QED
      BY <1>3, <2>1, <2>3, <3>2, TypeOfRequest DEF CancelSubscription
  <2> QED
    BY <1>3, <2>2, <2>3 DEF CancelSubscription, ReadToCancel
<1> QED
  BY <1>1, <1>2, <1>3 DEF Request

LEMMA TypeOfLock == ASSUME TypeOK, NEW p \in Process, AcquireLock(p) \/ ReleaseLock(p) PROVE TypeOK'
<1> USE TypesOfSection
<1>1. Grows /\ lock' \in [Location -> {"free", "held"}] /\ UNCHANGED <<record, locations, stripe, events, failures>>
  BY SameExcuse DEF AcquireLock, ReleaseLock, TypeOK
<1>2. CASE Become(p, Idle)
  BY <1>1, <1>2, ProperIdle, TypeOfRequest
<1>3. CASE process[p].pc = "lock" /\ Become(p, [process[p] EXCEPT !.pc = "stub"])
  <2>1. Proper([process[p] EXCEPT !.pc = "stub"])
    BY <1>3, ProcessCases DEF Proper, ProcessType
  <2> QED
    BY <1>1, <1>3, <2>1, TypeOfRequest
<1> QED
  BY <1>2, <1>3 DEF AcquireLock, ReleaseLock

(* A step that also changes what Stripe has.                               *)
LEMMA TypeOfStripe ==
    ASSUME TypeOK, NEW p \in Process, NEW state, Become(p, state), Proper(state),
           UNCHANGED <<record, locations, lock, failures, excuse>>, StripeTypes'
    PROVE  TypeOK'
<1>1. KnownStays
  BY DEF KnownStays, Known
<1>2. Grows
  BY TypesOfSection, SameExcuse
<1> QED
  BY <1>1, <1>2, TypeStep DEF TypeOK

LEMMA TypeOfProvider ==
    ASSUME TypeOK, NEW p \in Process, CreateInStripe(p) \/ Reactivate(p) \/ CancelInStripe(p)
    PROVE  TypeOK'
<1>0. UNCHANGED <<stripe, events>> => StripeTypes'
  BY DEF TypeOK, StripeTypes
<1>1. CASE CreateInStripe(p)
  <2>1. process[p] \in [pc : {"provider", "release"}, location : Location]
    BY <1>1, ProcessCases DEF CreateInStripe
  <2>2. StripeTypes'
    BY <1>0, <1>1, <2>1, NewType DEF CreateInStripe, Billed
  <2>3. Proper([process[p] EXCEPT !.pc = "release"])
    BY <2>1 DEF Proper, ProcessType
  <2> QED
    BY <1>1, <2>2, <2>3, TypeOfStripe DEF CreateInStripe
<1>2. CASE Reactivate(p)
  <2> DEFINE s == process[p].sub
             new == [stripe[s] EXCEPT !.ends = FALSE]
  <2>1. s \in Sub
    BY <1>2, ProcessCases DEF Reactivate
  <2>2. CASE Live(s)
    <3>1. new \in BilledType
      BY <2>1, <2>2, LiveIsBilled DEF Live, BilledType
    <3>2. Report(s, new, "updated")
      BY <1>2, <2>2 DEF Reactivate
    <3> HIDE DEF s, new
    <3>3. StripeTypes'
      BY <2>1, <3>1, <3>2, ReportType
    <3> QED
      BY <1>2, <3>3, ProperIdle, TypeOfStripe DEF Reactivate
  <2>3. CASE ~Live(s)
    BY <1>0, <1>2, <2>3, ProperIdle, TypeOfStripe DEF Reactivate
  <2> QED
    BY <2>2, <2>3
<1>3. CASE CancelInStripe(p)
  <2> DEFINE q == process[p]
             s == q.sub
             new == IF q.immediately THEN [stripe[s] EXCEPT !.status = "canceled"]
                                     ELSE [stripe[s] EXCEPT !.ends = TRUE]
             type == IF q.immediately THEN "deleted" ELSE "updated"
             state == [pc |-> "saveCancel", id |-> q.id, sub |-> s, status |-> new.status, ends |-> new.ends]
  <2>1. q.id \in Id /\ Known(q.id) /\ q.immediately \in BOOLEAN
    BY <1>3, ProcessCases DEF CancelInStripe, TypeOK, Named
  <2>2. CASE s \in Sub /\ Live(s)
    <3>1. new \in BilledType
      BY <2>2, LiveIsBilled DEF Live, BilledType, Billed
    <3>2. Report(s, new, type) /\ Become(p, state)
      BY <1>3, <2>2, Zenon DEF CancelInStripe
    <3>3. state.id = q.id /\ state.pc = "saveCancel"
          /\ state \in [pc : {"saveCancel"}, id : Id, sub : Sub, status : Billed, ends : BOOLEAN]
      BY <2>1, <2>2, <3>1 DEF BilledType
    <3> HIDE DEF s, new, state
    <3>4. StripeTypes'
      BY <2>2, <3>1, <3>2, ReportType
    <3>5. Proper(state)
      BY <1>3, <2>1, <3>3 DEF Proper, ProcessType, CancelInStripe, Known
    <3> QED
      BY <1>3, <3>2, <3>4, <3>5, TypeOfStripe DEF CancelInStripe
  <2>3. CASE ~(s \in Sub /\ Live(s))
    <3>1. UNCHANGED <<stripe, events>> /\ Become(p, Idle)
      BY <1>3, <2>3, Zenon DEF CancelInStripe
    <3> QED
      BY <1>0, <1>3, <3>1, ProperIdle, TypeOfStripe DEF CancelInStripe
  <2> QED
    BY <2>2, <2>3
<1> QED
  BY <1>1, <1>2, <1>3

(* A step that writes one record, and lets the process become idle or go   *)
(* on in Stripe.                                                           *)
Put(id, row) == record' = [record EXCEPT ![id] = row]

LEMMA PutKeeps ==
    ASSUME TypeOK, NEW id \in Id, NEW row \in RecordType, row.status # "none", Put(id, row)
    PROVE  /\ record' \in [Id -> RecordType] /\ KnownStays
           /\ record'[id] = row /\ \A i \in Id \ {id} : record'[i] = record[i]
  BY DEF TypeOK, Put, KnownStays, Known

LEMMA TypeOfStub == ASSUME TypeOK, NEW p \in Process, PutStub(p) PROVE TypeOK'
<1> DEFINE id == process[p].id
           l == process[p].location
           row == [location |-> l, sub |-> Unknown, status |-> "_PENDING_", ends |-> FALSE]
           state == [pc |-> "provider", location |-> l]
<1>1. id \in Id /\ l \in Location
  BY ProcessCases DEF PutStub
<1>2. row \in RecordType /\ row.status # "none"
  BY <1>1 DEF RecordType
<1>3. Put(id, row) /\ Become(p, state)
  BY DEF PutStub, Put
<1>4. state \in ProcessType /\ state.pc = "provider"
  BY <1>1 DEF ProcessType
<1>5. Grows
  BY TypesOfSection, ExcuseGrows DEF PutStub, Excuses
<1> HIDE DEF id, l, row, state
<1>6. Proper(state)
  BY <1>4 DEF Proper
<1>7. record' \in [Id -> RecordType] /\ KnownStays
  BY <1>1, <1>2, <1>3, PutKeeps
<1> QED
  BY <1>3, <1>5, <1>6, <1>7, TypeStep DEF PutStub, TypeOK, StripeTypes

LEMMA Saved ==
    ASSUME TypeOK, NEW p \in Process, SaveCanceled(p)
    PROVE  LET q == process[p]
               row == [location |-> record[q.id].location, sub |-> q.sub, status |-> q.status, ends |-> q.ends]
           IN  /\ q.id \in Id /\ Known(q.id) /\ q.sub \in Sub /\ q.status \in Billed /\ q.ends \in BOOLEAN
               /\ Put(q.id, row) /\ row \in RecordType /\ row.status \in Billed
               /\ record[q.id].location \in Location
<1> DEFINE q == process[p]
           row == [location |-> record[q.id].location, sub |-> q.sub, status |-> q.status, ends |-> q.ends]
<1>1. q.id \in Id /\ Known(q.id) /\ q.sub \in Sub /\ q.status \in Billed /\ q.ends \in BOOLEAN
  BY ProcessCases DEF SaveCanceled, TypeOK, Named
<1>2. record[q.id].location \in Location
  BY <1>1, RecordCases
<1>3. [record[q.id] EXCEPT !.sub = q.sub, !.status = q.status, !.ends = q.ends] = row
  <2> DEFINE r == record[q.id]
             new == [r EXCEPT !.sub = q.sub, !.status = q.status, !.ends = q.ends]
  <2>1. \/ r \in [location : Location, sub : {Unknown}, status : {"_PENDING_"}, ends : {FALSE}]
        \/ r \in [location : Location, sub : Sub, status : Billed, ends : BOOLEAN]
    BY <1>1, RecordCases
  <2> HIDE DEF r, q
  <2>2. new \in [location : {r.location}, sub : {q.sub}, status : {q.status}, ends : {q.ends}]
    BY <2>1
  <2> HIDE DEF new
  <2>3. new = [location |-> r.location, sub |-> q.sub, status |-> q.status, ends |-> q.ends]
    BY <2>2
  <2> QED
    BY <2>3 DEF new, r
<1>4. Put(q.id, row)
  BY <1>3 DEF SaveCanceled, Put
<1>5. row \in [location : Location, sub : Sub, status : Billed, ends : BOOLEAN]
  BY <1>1, <1>2
<1> HIDE DEF row
<1>6. row \in RecordType /\ row.status \in Billed
  BY <1>5 DEF RecordType
<1> QED
  BY <1>1, <1>2, <1>4, <1>6 DEF row

LEMMA TypeOfSave == ASSUME TypeOK, NEW p \in Process, SaveCanceled(p) PROVE TypeOK'
<1> DEFINE q == process[p]
           row == [location |-> record[q.id].location, sub |-> q.sub, status |-> q.status, ends |-> q.ends]
<1>1. q.id \in Id /\ Put(q.id, row) /\ row \in RecordType /\ row.status # "none"
  BY Saved DEF Billed
<1> HIDE DEF row
<1>2. record' \in [Id -> RecordType] /\ KnownStays
  BY <1>1, PutKeeps
<1>3. Grows
  BY TypesOfSection, ExcuseIfGrows DEF SaveCanceled, Excuses
<1>4. Become(p, Idle)
  BY DEF SaveCanceled
<1> QED
  BY <1>2, <1>3, <1>4, ProperIdle, TypeStep DEF SaveCanceled, TypeOK, StripeTypes

LEMMA TypeOfRemoval == ASSUME TypeOK, NEW p \in Process, RemoveLocationRecord(p) \/ CancelRemoved(p) PROVE TypeOK'
<1>0. process[p] \in [pc : {"removeRecord", "removeCancel"}, location : Location, found : SUBSET Id]
      /\ \A id \in process[p].found : Known(id)
  BY ProcessCases DEF RemoveLocationRecord, CancelRemoved, TypeOK, Named
<1>1. KnownStays /\ StripeTypes' /\ record' \in [Id -> RecordType]
  BY DEF RemoveLocationRecord, CancelRemoved, KnownStays, Known, TypeOK, StripeTypes
<1>2. Grows
  BY TypesOfSection, SameExcuse, RemovalGrows DEF CancelRemoved
<1>3. locations' \in SUBSET Location /\ UNCHANGED <<lock, failures>>
  BY DEF RemoveLocationRecord, CancelRemoved, TypeOK
<1>4. \E state : Become(p, state) /\ Proper(state)
  <2>1. CASE Become(p, Idle)
    BY <2>1, ProperIdle
  <2>2. CASE RemoveLocationRecord(p) /\ Become(p, [process[p] EXCEPT !.pc = "removeCancel"])
    <3> DEFINE state == [process[p] EXCEPT !.pc = "removeCancel"]
    <3>1. state \in [pc : {"removeRecord", "removeCancel"}, location : Location, found : SUBSET Id]
          /\ state.found = process[p].found /\ state.pc = "removeCancel"
      BY <1>0
    <3>2. Become(p, state)
      BY <2>2
    <3> HIDE DEF state
    <3>3. Proper(state)
      BY <1>0, <1>1, <3>1 DEF Proper, ProcessType, KnownStays
    <3> QED
      BY <3>2, <3>3
  <2>3. ASSUME NEW id \in process[p].found, record' = record,
               Become(p, [pc |-> "cancel", id |-> id, sub |-> record[id].sub, immediately |-> TRUE])
        PROVE  \E state : Become(p, state) /\ Proper(state)
    <3>1. id \in Id /\ Known(id)
      BY <1>0
    <3> DEFINE state == [pc |-> "cancel", id |-> id, sub |-> record[id].sub, immediately |-> TRUE]
    <3>2. state \in [pc : {"cancel"}, id : Id, sub : Sub \cup {Unknown}, immediately : BOOLEAN]
          /\ state.id = id /\ state.pc = "cancel"
      BY <3>1, RecordCases
    <3>3. Become(p, state)
      BY <2>3
    <3> HIDE DEF state
    <3>4. Proper(state)
      BY <2>3, <3>1, <3>2 DEF Proper, ProcessType, Known
    <3> QED
      BY <3>3, <3>4
  <2> QED
    BY <2>1, <2>2, <2>3 DEF RemoveLocationRecord, CancelRemoved, ReadToCancel
<1> QED
  BY <1>1, <1>2, <1>3, <1>4, TypeStep DEF TypeOK

LEMMA WrittenIsRow == ASSUME NEW e \in EventType PROVE Written(e) \in RecordType /\ Written(e).status \in Billed
<1>1. Written(e) \in [location : Location, sub : Sub, status : Billed, ends : BOOLEAN]
  BY DEF Written, EventType
<1> QED
  BY <1>1 DEF RecordType

(* A webhook goes on if the location of its event exists, and drops the    *)
(* event if it does not.                                                   *)
LEMMA Validated ==
    ASSUME TypeOK, NEW p \in Process, ValidateLocationExists(p)
    PROVE  LET q == process[p]
               checked == [pc |-> "hook", id |-> q.id, event |-> q.event, check |-> "done"]
           IN  /\ q.pc = "hook" /\ q.id \in Id /\ q.event \in EventType /\ q.check = "due"
               /\ UNCHANGED <<record, locations, lock, stripe, failures, excuse>>
               /\ \/ q.event.location \in locations /\ Become(p, checked) /\ UNCHANGED events
                  \/ q.event.location \notin locations /\ Become(p, Idle) /\ Acknowledge(q.event)
<1> DEFINE q == process[p]
           checked == [pc |-> "hook", id |-> q.id, event |-> q.event, check |-> "done"]
<1>1. q.pc = "hook" /\ q.check = "due" /\ UNCHANGED <<record, locations, lock, stripe, failures, excuse>>
  BY DEF ValidateLocationExists
<1>2. q \in [pc : {"hook"}, id : Id, event : EventType, check : Check]
  BY <1>1, ProcessCases
<1>3. [q EXCEPT !.check = "done"] = checked
  BY <1>1, <1>2
<1>4. \/ q.event.location \in locations /\ Become(p, [q EXCEPT !.check = "done"]) /\ UNCHANGED events
      \/ q.event.location \notin locations /\ Become(p, Idle) /\ Acknowledge(q.event)
  BY DEF ValidateLocationExists
<1> HIDE DEF q, checked
<1>5. q.id \in Id /\ q.event \in EventType
  BY <1>2
<1> QED
  BY <1>1, <1>3, <1>4, <1>5 DEF q, checked

LEMMA TypeOfValidate == ASSUME TypeOK, NEW p \in Process, ValidateLocationExists(p) PROVE TypeOK'
<1> DEFINE q == process[p]
           checked == [pc |-> "hook", id |-> q.id, event |-> q.event, check |-> "done"]
<1>1. q.id \in Id /\ q.event \in EventType /\ UNCHANGED <<record, locations, lock, stripe, failures, excuse>>
  BY Validated
<1>2. StripeTypes'
  BY <1>1, AcknowledgeType, Validated
<1>3. Proper(checked)
  BY <1>1 DEF Proper, ProcessType, Check
<1>4. Become(p, checked) \/ Become(p, Idle)
  BY Validated
<1> HIDE DEF checked
<1> QED
  BY <1>1, <1>2, <1>3, <1>4, ProperIdle, TypeOfStripe

(* A webhook writes its event; it acknowledges it or not.                  *)
LEMMA WroteEvent ==
    ASSUME TypeOK, NEW p \in Process, WriteFromWebhook(p)
    PROVE  /\ process[p].id \in Id /\ process[p].event \in EventType
           /\ Put(process[p].id, Written(process[p].event))
           /\ Acknowledge(process[p].event) \/ UNCHANGED events
  BY ProcessCases DEF WriteFromWebhook, Put

LEMMA TypeOfWrite == ASSUME TypeOK, NEW p \in Process, WriteFromWebhook(p) PROVE TypeOK'
<1> DEFINE e == process[p].event
           id == process[p].id
<1>1. id \in Id /\ e \in EventType
  BY WroteEvent
<1>2. StripeTypes'
  BY <1>1, AcknowledgeType, WroteEvent DEF WriteFromWebhook
<1>3. record' \in [Id -> RecordType] /\ KnownStays
  <2>1. Written(e) \in RecordType /\ Written(e).status # "none"
    BY <1>1, WrittenIsRow DEF Billed
  <2>2. Put(id, Written(e))
    BY WroteEvent
  <2> HIDE DEF id, e
  <2> QED
    BY <1>1, <2>1, <2>2, PutKeeps
<1>4. Grows
  BY TypesOfSection, WriteGrows
<1>5. Become(p, Idle)
  BY DEF WriteFromWebhook
<1> QED
  BY <1>2, <1>3, <1>4, <1>5, ProperIdle, TypeStep DEF WriteFromWebhook, TypeOK

LEMMA TypeOfWebhook == ASSUME TypeOK, NEW p \in Process, NEW s \in Sub, Webhook(p, s) PROVE TypeOK'
<1>1. PICK i \in 1..Len(events[s]) : WebhookCreated(p, events[s][i]) \/ WebhookUpdated(p, events[s][i])
  BY DEF Webhook
<1> DEFINE e == events[s][i]
<1>2. e \in EventType
  BY ElementOfSeq DEF TypeOK
<1>3. KnownStays
  BY DEF Webhook, KnownStays, Known
<1>4. Grows
  BY <1>1, TypesOfSection, SameExcuse, ExcuseIfGrows DEF WebhookCreated, WebhookUpdated, Excuses
<1> HIDE DEF e
<1>5. StripeTypes'
  BY <1>1, <1>2, AcknowledgeType DEF Webhook, WebhookCreated, WebhookUpdated, e
<1>6. \/ process' = process
      \/ \E id \in Id, c \in Check : Become(p, [pc |-> "hook", id |-> id, event |-> e, check |-> c])
  BY <1>1 DEF WebhookCreated, WebhookUpdated, Write, At, OfCustomer, Unused, Check, e
<1>7. \A id \in Id, c \in Check : Proper([pc |-> "hook", id |-> id, event |-> e, check |-> c])
  BY <1>2 DEF Proper, ProcessType
<1> QED
  BY <1>3, <1>4, <1>5, <1>6, <1>7, TypeStep DEF Webhook, TypeOK

LEMMA TypeOfOthers ==
    ASSUME TypeOK,
           \/ \E p \in Process : Crash(p)
           \/ \E l \in Location : LockExpires(l)
           \/ \E s \in Sub : StripeChanges(s)
           \/ UNCHANGED vars
    PROVE  TypeOK'
<1>1. KnownStays
  BY DEF KnownStays, Known, Crash, LockExpires, StripeChanges, vars
<1>2. CASE \E s \in Sub : StripeChanges(s)
  <2>1. PICK s \in Sub : StripeChanges(s)
    BY <1>2
  <2>2. StripeTypes'
    <3>1. ASSUME NEW new \in BilledType, NEW type \in {"created", "updated", "deleted"}, Report(s, new, type)
          PROVE  StripeTypes'
      BY <3>1, ReportType
    <3>2. ASSUME NEW status \in Billed, stripe[s].status # "none"
          PROVE  [stripe[s] EXCEPT !.status = status] \in BilledType
      BY <3>2, LiveIsBilled DEF BilledType
    <3>3. \A l \in locations : l \in Location
      BY DEF TypeOK
    <3>4. CASE stripe[s].status \in {"incomplete", "past_due"} /\ Report(s, [stripe[s] EXCEPT !.status = "active"], "updated")
      BY <3>1, <3>2, <3>4 DEF Billed
    <3>5. CASE stripe[s].status = "active" /\ Report(s, [stripe[s] EXCEPT !.status = "past_due"], "updated")
      BY <3>1, <3>2, <3>5 DEF Billed
    <3>6. CASE stripe[s].status = "active" /\ Report(s, [stripe[s] EXCEPT !.status = "canceled"], "deleted")
      BY <3>1, <3>2, <3>6 DEF Billed
    <3>7. CASE \E l \in locations : NewInStripe(s, l, "active")
      BY <3>3, <3>7, NewType DEF Billed
    <3> QED
      BY <2>1, <3>4, <3>5, <3>6, <3>7 DEF StripeChanges
  <2>3. Grows
    BY <2>1, TypesOfSection, SameExcuse DEF StripeChanges
  <2> QED
    BY <1>1, <2>1, <2>2, <2>3, TypeStep DEF StripeChanges, TypeOK
<1>3. CASE \E p \in Process : Crash(p)
  <2>1. Grows
    BY <1>3, TypesOfSection, SameExcuse DEF Crash
  <2>2. \E p \in Process : Become(p, Idle)
    BY <1>3 DEF Crash
  <2> QED
    BY <1>1, <1>3, <2>1, <2>2, ProperIdle, TypeStep DEF Crash, TypeOK, StripeTypes
<1>4. CASE \E l \in Location : LockExpires(l)
  <2>1. Grows
    BY <1>4, TypesOfSection, ExcuseIfGrows DEF LockExpires, Excuses
  <2> QED
    BY <1>1, <1>4, <2>1, TypeStep DEF LockExpires, TypeOK, StripeTypes
<1>5. CASE UNCHANGED vars
  <2>1. Grows
    BY <1>5, TypesOfSection, SameExcuse DEF vars
  <2> QED
    BY <1>1, <1>5, <2>1, TypeStep DEF vars, TypeOK, StripeTypes
<1> QED
  BY <1>2, <1>3, <1>4, <1>5

LEMMA InitType == Init => TypeOK
<1> SUFFICES ASSUME Init PROVE TypeOK
  OBVIOUS
<1>1. events \in [Sub -> Seq(EventType)]
  BY DEF Init
<1> QED
  BY <1>1 DEF Init, TypeOK, Named, RecordType, ProcessType, Excuses, Idle

LEMMA NextType == TypeOK /\ [Next]_vars => TypeOK'
  BY TypeOfBegin, TypeOfWebhook, TypeOfLock, TypeOfStub, TypeOfProvider, TypeOfSave, TypeOfRemoval,
     TypeOfValidate, TypeOfWrite, TypeOfOthers DEF Next, Step

(* Records, Stripe's subscriptions, events and processes have their types, *)
(* and a cancellation under way is about a record that is there.           *)
THEOREM TypeCorrect == Spec => []TypeOK
  BY InitType, NextType, PTL DEF Spec

-----------------------------------------------------------------------------
(* One record per location.  While a process is about to give a location   *)
(* its first record, the location has none, and whoever else is about to   *)
(* writes the same one.                                                    *)
Fine(l) == excuse[l] \cap {"overlap", "clobber"} = {}

Adds(p, l) == Adding(process[p], l)

OneAt(l) ==
    /\ \A i, j \in At(l) : i = j
    /\ \A p \in Process : Adds(p, l) =>
         At(l) = {} /\ \A q \in Process : Adds(q, l) => process[q].id = process[p].id

OneEach == \A l \in Location : Fine(l) => OneAt(l)

LEMMA FineBefore == ASSUME Grows, NEW l \in Location, Fine(l)' PROVE Fine(l)
  BY DEF Grows, Fine

(* No process is about to add that was not, but for one that adds alone.   *)
LEMMA AddingStep ==
    ASSUME NEW l \in Location, OneAt(l), UNCHANGED record, NEW p \in Process,
           \A q \in Process \ {p} : process'[q] = process[q],
           Adds(p, l)' => \/ Adds(p, l) /\ process'[p].id = process[p].id
                          \/ At(l) = {} /\ ~AddingElsewhere(p, l)
    PROVE  OneAt(l)'
<1>1. At(l)' = At(l) /\ \A id : Known(id)' <=> Known(id)
  BY DEF At, Known
<1>2. \A q \in Process \ {p} : Adds(q, l)' <=> Adds(q, l)
  BY <1>1 DEF Adds, Adding
<1>3. ~AddingElsewhere(p, l) => \A q \in Process \ {p} : ~Adds(q, l)
  BY DEF AddingElsewhere, Adds
<1> QED
  BY <1>1, <1>2, <1>3 DEF OneAt

(* A record is written by the process that adds it, or where it was.       *)
LEMMA WritingStep ==
    ASSUME TypeOK, NEW l \in Location, OneAt(l), NEW id \in Id, NEW row \in RecordType, row.status # "none",
           Put(id, row),
           \A q \in Process : process'[q] = process[q] \/ process'[q].pc \notin {"lock", "stub", "hook"},
           row.location = l => id \in At(l) \/ \E p \in Process : Adds(p, l) /\ process[p].id = id
    PROVE  OneAt(l)'
<1>1. /\ record'[id] = row /\ Known(id)' /\ \A i \in Id \ {id} : record'[i] = record[i]
  BY PutKeeps DEF Known
<1>2. At(l)' = (At(l) \ {id}) \cup (IF row.location = l THEN {id} ELSE {})
  BY <1>1 DEF At, Known
<1>3. \A q \in Process : process[q].pc \in {"lock", "stub", "hook"} => process[q].id \in Id
  BY ProcessCases
<1>4. ASSUME NEW q \in Process, Adds(q, l)'
      PROVE  process'[q] = process[q] /\ (Adds(q, l) \/ (process[q].id = id /\ id \in At(l) /\ row.location # l))
  <2>1. process'[q] = process[q] /\ process[q].id \in Id
    BY <1>3, <1>4 DEF Adds, Adding
  <2> DEFINE i == process[q].id
  <2>2. \/ process[q].pc \in {"lock", "stub"} /\ process[q].location = l /\ record'[i].status = "none"
        \/ process[q].pc = "hook" /\ process[q].event.location = l
           /\ (record'[i].status # "none" => record'[i].location # l)
    BY <1>4, <2>1 DEF Adds, Adding, Known
  <2> HIDE DEF i
  <2>3. CASE i # id
    <3>1. record'[i] = record[i]
      BY <1>1, <2>1, <2>3 DEF i
    <3> QED
      BY <2>1, <2>2, <3>1 DEF Adds, Adding, Known, i
  <2>4. CASE i = id
    <3>1. process[q].pc = "hook" /\ process[q].event.location = l /\ row.location # l
      BY <1>1, <2>2, <2>4
    <3>2. id \in At(l) \/ (Known(id) => record[id].location # l)
      BY DEF At
    <3> QED
      BY <2>1, <2>4, <3>1, <3>2 DEF Adds, Adding, i
  <2> QED
    BY <2>3, <2>4
<1>5. CASE row.location = l
  <2>1. CASE id \in At(l)
    BY <1>2, <1>4, <1>5, <2>1 DEF OneAt
  <2>2. CASE \E p \in Process : Adds(p, l) /\ process[p].id = id
    <3>1. At(l) = {} /\ \A q \in Process : Adds(q, l) => process[q].id = id
      BY <2>2 DEF OneAt
    <3>2. \A q \in Process : ~Adds(q, l)'
      <4> SUFFICES ASSUME NEW q \in Process, Adds(q, l)' PROVE FALSE
        OBVIOUS
      <4>1. process'[q] = process[q] /\ process[q].id = id
        BY <1>4, <1>5, <3>1
      <4> QED
        BY <1>1, <1>5, <4>1 DEF Adds, Adding, Known
    <3> QED
      BY <1>2, <1>5, <3>1, <3>2 DEF OneAt
  <2> QED
    BY <1>5, <2>1, <2>2
<1>6. CASE row.location # l
  <2>1. CASE id \in At(l)
    BY <1>2, <1>4, <1>6, <2>1 DEF OneAt
  <2>2. CASE id \notin At(l)
    BY <1>2, <1>4, <1>6, <2>2 DEF OneAt
  <2> QED
    BY <2>1, <2>2
<1> QED
  BY <1>5, <1>6

LEMMA Becomes ==
    ASSUME TypeOK, NEW p \in Process, NEW state, Become(p, state)
    PROVE  process'[p] = state /\ \A q \in Process \ {p} : process'[q] = process[q]
  BY DEF TypeOK, Become

(* A step after which the process is not about to add anything.            *)
LEMMA NeutralStep ==
    ASSUME TypeOK, OneEach, NEW p \in Process, NEW state, Become(p, state), UNCHANGED record, Grows,
           state.pc \notin {"lock", "stub", "hook"}
    PROVE  OneEach'
<1> SUFFICES ASSUME NEW l \in Location, Fine(l)' PROVE OneAt(l)'
  BY DEF OneEach
<1>1. OneAt(l)
  BY FineBefore DEF OneEach
<1>2. process'[p] = state /\ \A q \in Process \ {p} : process'[q] = process[q]
  BY Becomes
<1>3. ~Adds(p, l)'
  BY <1>2 DEF Adds, Adding
<1> QED
  BY <1>1, <1>2, <1>3, AddingStep

LEMMA OneCreates == ASSUME TypeOK, OneEach, NEW p \in Process, NEW k \in Location, CreateSubscription(p, k) PROVE OneEach'
<1>1. Grows /\ UNCHANGED record
  BY TypesOfSection, SameExcuse, ExcuseIfGrows DEF CreateSubscription, Excuses
<1>2. CASE \E id \in At(k) : Become(p, [pc |-> "reactivate", sub |-> record[id].sub])
  BY <1>1, <1>2, NeutralStep
<1>3. CASE \E id \in At(k) : Become(p, [pc |-> "lock", location |-> k, id |-> id, seen |-> record[id].sub])
  <2> SUFFICES ASSUME NEW l \in Location, Fine(l)' PROVE OneAt(l)'
    BY DEF OneEach
  <2>1. PICK id \in At(k) : Become(p, [pc |-> "lock", location |-> k, id |-> id, seen |-> record[id].sub])
    BY <1>3
  <2> DEFINE state == [pc |-> "lock", location |-> k, id |-> id, seen |-> record[id].sub]
  <2>2. process'[p] = state /\ \A q \in Process \ {p} : process'[q] = process[q]
    BY <2>1, Becomes
  <2>3. ~Adds(p, l)'
    BY <1>1, <2>2 DEF Adds, Adding, At, Known
  <2> HIDE DEF state
  <2> QED
    BY <1>1, <2>2, <2>3, AddingStep, FineBefore DEF OneEach
<1>4. CASE /\ At(k) = {}
           /\ \E id \in Unused : Become(p, [pc |-> "lock", location |-> k, id |-> id, seen |-> Unknown])
           /\ ExcuseIf(AddingElsewhere(p, k), k, "overlap")
  <2> SUFFICES ASSUME NEW l \in Location, Fine(l)' PROVE OneAt(l)'
    BY DEF OneEach
  <2>1. PICK id \in Unused : Become(p, [pc |-> "lock", location |-> k, id |-> id, seen |-> Unknown])
    BY <1>4
  <2>2. process'[p] = [pc |-> "lock", location |-> k, id |-> id, seen |-> Unknown]
        /\ \A q \in Process \ {p} : process'[q] = process[q]
    BY <2>1, Becomes
  <2>3. Adds(p, l)' => l = k
    BY <2>2 DEF Adds, Adding
  <2>4. l = k => ~AddingElsewhere(p, l)
    BY <1>4 DEF ExcuseIf, Excuse, Fine
  <2> QED
    BY <1>1, <1>4, <2>2, <2>3, <2>4, AddingStep, FineBefore DEF OneEach
<1> QED
  BY <1>2, <1>3, <1>4 DEF CreateSubscription

LEMMA OneRequests == ASSUME TypeOK, OneEach, NEW p \in Process, Request(p) PROVE OneEach'
<1>1. ASSUME NEW l \in Location, RemoveLocation(p, l) PROVE OneEach'
  <2>1. \E found : Become(p, [pc |-> "removeRecord", location |-> l, found |-> found])
    BY <1>1 DEF RemoveLocation
  <2>2. UNCHANGED record /\ Grows
    BY <1>1, TypesOfSection, SameExcuse DEF RemoveLocation
  <2> QED
    BY <2>1, <2>2, NeutralStep
<1>2. ASSUME NEW id \in Id, NEW immediately \in BOOLEAN, CancelSubscription(p, id, immediately) PROVE OneEach'
  <2>1. \/ Become(p, Idle)
        \/ Become(p, [pc |-> "cancel", id |-> id, sub |-> record[id].sub, immediately |-> immediately])
    BY <1>2 DEF CancelSubscription, ReadToCancel
  <2>2. UNCHANGED record /\ Grows
    BY <1>2, TypesOfSection, SameExcuse DEF CancelSubscription
  <2> QED
    BY <2>1, <2>2, NeutralStep DEF Idle
<1> QED
  BY <1>1, <1>2, OneCreates DEF Request

LEMMA OneLocks == ASSUME TypeOK, OneEach, NEW p \in Process, AcquireLock(p) PROVE OneEach'
<1>1. Grows /\ UNCHANGED record
  BY TypesOfSection, SameExcuse DEF AcquireLock
<1>2. CASE Become(p, Idle)
  BY <1>1, <1>2, NeutralStep DEF Idle
<1>3. CASE Become(p, [process[p] EXCEPT !.pc = "stub"])
  <2> SUFFICES ASSUME NEW l \in Location, Fine(l)' PROVE OneAt(l)'
    BY DEF OneEach
  <2> DEFINE state == [process[p] EXCEPT !.pc = "stub"]
  <2>1. process[p].pc = "lock" /\ state.pc = "stub" /\ state.location = process[p].location /\ state.id = process[p].id
    BY ProcessCases DEF AcquireLock
  <2>2. process'[p] = state /\ \A q \in Process \ {p} : process'[q] = process[q]
    BY <1>3, Becomes
  <2> HIDE DEF state
  <2>3. Adds(p, l)' => Adds(p, l) /\ process'[p].id = process[p].id
    BY <1>1, <2>1, <2>2 DEF Adds, Adding, Known
  <2> QED
    BY <1>1, <2>2, <2>3, AddingStep, FineBefore DEF OneEach
<1> QED
  BY <1>2, <1>3 DEF AcquireLock

LEMMA OneStubs == ASSUME TypeOK, OneEach, NEW p \in Process, PutStub(p) PROVE OneEach'
<1> SUFFICES ASSUME NEW l \in Location, Fine(l)' PROVE OneAt(l)'
  BY DEF OneEach
<1> DEFINE id == process[p].id
           k == process[p].location
           row == [location |-> k, sub |-> Unknown, status |-> "_PENDING_", ends |-> FALSE]
<1>1. id \in Id /\ k \in Location /\ process[p].pc = "stub"
  BY ProcessCases DEF PutStub
<1>2. row \in RecordType /\ row.status # "none" /\ row.location = k
  BY <1>1 DEF RecordType
<1>3. Put(id, row) /\ Become(p, [pc |-> "provider", location |-> k])
  BY DEF PutStub, Put
<1>4. Grows
  BY TypesOfSection, ExcuseGrows DEF PutStub, Excuses
<1>5. k = l => id \in At(l) \/ Adds(p, l)
  <2> SUFFICES ASSUME k = l, Known(id), record[id].location # l PROVE FALSE
    BY <1>1 DEF At, Adds, Adding
  <2>1. "clobber" \in excuse'[l]
    BY <1>1 DEF PutStub, Excuse
  <2> QED
    BY <2>1 DEF Fine
<1>6. \A q \in Process : process'[q] = process[q] \/ process'[q].pc \notin {"lock", "stub", "hook"}
  BY <1>3, Becomes
<1> HIDE DEF id, row
<1>7. row.location = l => id \in At(l) \/ \E q \in Process : Adds(q, l) /\ process[q].id = id
  BY <1>2, <1>5 DEF id
<1> QED
  BY <1>1, <1>2, <1>3, <1>4, <1>6, <1>7, WritingStep, FineBefore DEF OneEach

LEMMA OneSaves == ASSUME TypeOK, OneEach, NEW p \in Process, SaveCanceled(p) PROVE OneEach'
<1> SUFFICES ASSUME NEW l \in Location, Fine(l)' PROVE OneAt(l)'
  BY DEF OneEach
<1> DEFINE id == process[p].id
           row == [location |-> record[id].location, sub |-> process[p].sub,
                   status |-> process[p].status, ends |-> process[p].ends]
<1>1. id \in Id /\ Known(id) /\ Put(id, row) /\ row \in RecordType /\ row.status # "none"
  BY Saved DEF Billed
<1>2. Grows
  BY TypesOfSection, ExcuseIfGrows DEF SaveCanceled, Excuses
<1>3. \A q \in Process : process'[q] = process[q] \/ process'[q].pc \notin {"lock", "stub", "hook"}
  BY Becomes DEF SaveCanceled, Idle
<1>4. row.location = l => id \in At(l)
  BY <1>1 DEF At
<1> HIDE DEF id, row
<1> QED
  BY <1>1, <1>2, <1>3, <1>4, WritingStep, FineBefore DEF OneEach

LEMMA OneWrites == ASSUME TypeOK, OneEach, NEW p \in Process, WriteFromWebhook(p) PROVE OneEach'
<1>1. Grows
  BY TypesOfSection, WriteGrows
<1>2. Become(p, Idle) /\ process[p].pc = "hook"
  BY DEF WriteFromWebhook
<1> DEFINE id == process[p].id
           row == Written(process[p].event)
<1> SUFFICES ASSUME NEW l \in Location, Fine(l)' PROVE OneAt(l)'
  BY DEF OneEach
<1>3. /\ id \in Id /\ row \in RecordType /\ row.status # "none" /\ row.location = process[p].event.location
      /\ Put(id, row)
  BY WroteEvent, WrittenIsRow DEF Billed, Written
<1>4. \A q \in Process : process'[q] = process[q] \/ process'[q].pc \notin {"lock", "stub", "hook"}
  BY <1>2, Becomes DEF Idle
<1>5. row.location = l => id \in At(l) \/ Adds(p, l)
  BY <1>2, <1>3 DEF At, Adds, Adding
<1> HIDE DEF id, row
<1>6. row.location = l => id \in At(l) \/ \E q \in Process : Adds(q, l) /\ process[q].id = id
  BY <1>5 DEF id
<1> QED
  BY <1>1, <1>3, <1>4, <1>6, WritingStep, FineBefore DEF OneEach

(* A webhook that goes on is about to add what it was.                     *)
LEMMA OneValidates == ASSUME TypeOK, OneEach, NEW p \in Process, ValidateLocationExists(p) PROVE OneEach'
<1> DEFINE q == process[p]
           checked == [pc |-> "hook", id |-> q.id, event |-> q.event, check |-> "done"]
<1>1. q.pc = "hook" /\ Grows /\ UNCHANGED record /\ (Become(p, checked) \/ Become(p, Idle))
  BY TypesOfSection, SameExcuse, Validated
<1>2. CASE Become(p, Idle)
  BY <1>1, <1>2, NeutralStep DEF Idle
<1>3. CASE Become(p, checked)
  <2> SUFFICES ASSUME NEW l \in Location, Fine(l)' PROVE OneAt(l)'
    BY DEF OneEach
  <2>1. checked.pc = "hook" /\ checked.id = q.id /\ checked.event = q.event
    OBVIOUS
  <2>2. process'[p] = checked /\ \A r \in Process \ {p} : process'[r] = process[r]
    BY <1>3, Becomes
  <2> HIDE DEF checked
  <2>3. Adds(p, l)' => Adds(p, l) /\ process'[p].id = process[p].id
    BY <1>1, <2>1, <2>2 DEF Adds, Adding, Known
  <2> QED
    BY <1>1, <2>2, <2>3, AddingStep, FineBefore DEF OneEach
<1> QED
  BY <1>1, <1>2, <1>3

LEMMA OneHooks == ASSUME TypeOK, OneEach, NEW p \in Process, NEW s \in Sub, Webhook(p, s) PROVE OneEach'
<1>1. PICK i \in 1..Len(events[s]) : WebhookCreated(p, events[s][i]) \/ WebhookUpdated(p, events[s][i])
  BY DEF Webhook
<1> DEFINE e == events[s][i]
<1> HIDE DEF e
<1>2. Grows /\ UNCHANGED record
  BY <1>1, TypesOfSection, SameExcuse, ExcuseIfGrows DEF Webhook, WebhookCreated, WebhookUpdated, Excuses
<1> SUFFICES ASSUME NEW l \in Location, Fine(l)' PROVE OneAt(l)'
  BY DEF OneEach
<1>3. OneAt(l)
  BY <1>2, FineBefore DEF OneEach
<1>4. CASE UNCHANGED process
  BY <1>2, <1>3, <1>4, AddingStep DEF Adds, Adding, Known
<1>5. ASSUME NEW id, NEW c, Become(p, [pc |-> "hook", id |-> id, event |-> e, check |-> c]),
             id \in At(e.location) \/ (At(e.location) = {} /\ ~(e.location = l /\ AddingElsewhere(p, l)))
      PROVE  OneAt(l)'
  <2>1. process'[p] = [pc |-> "hook", id |-> id, event |-> e, check |-> c]
        /\ \A q \in Process \ {p} : process'[q] = process[q]
    BY <1>5, Becomes
  <2>2. Adds(p, l)' => e.location = l /\ (Known(id) => record[id].location # l)
    BY <1>2, <2>1 DEF Adds, Adding, Known
  <2>3. Adds(p, l)' => At(l) = {} /\ ~AddingElsewhere(p, l)
    BY <1>5, <2>2 DEF At
  <2> QED
    BY <1>2, <1>3, <2>1, <2>3, AddingStep
<1>6. \/ UNCHANGED process
      \/ \E id, c : /\ Become(p, [pc |-> "hook", id |-> id, event |-> e, check |-> c])
                    /\ \/ id \in At(e.location)
                       \/ At(e.location) = {} /\ ExcuseIf(AddingElsewhere(p, e.location), e.location, "overlap")
  BY <1>1 DEF WebhookCreated, WebhookUpdated, Write, e
<1>7. ExcuseIf(AddingElsewhere(p, e.location), e.location, "overlap") => ~(e.location = l /\ AddingElsewhere(p, l))
  BY DEF ExcuseIf, Excuse, Fine
<1>8. CASE \E id, c : /\ Become(p, [pc |-> "hook", id |-> id, event |-> e, check |-> c])
                      /\ \/ id \in At(e.location)
                         \/ At(e.location) = {} /\ ExcuseIf(AddingElsewhere(p, e.location), e.location, "overlap")
  <2>1. PICK id, c : /\ Become(p, [pc |-> "hook", id |-> id, event |-> e, check |-> c])
                     /\ \/ id \in At(e.location)
                        \/ At(e.location) = {} /\ ExcuseIf(AddingElsewhere(p, e.location), e.location, "overlap")
    BY <1>8
  <2>2. id \in At(e.location) \/ (At(e.location) = {} /\ ~(e.location = l /\ AddingElsewhere(p, l)))
    BY <1>7, <2>1
  <2> QED
    BY <1>5, <2>1, <2>2
<1> QED
  BY <1>4, <1>6, <1>8

LEMMA OneOthers ==
    ASSUME TypeOK, OneEach,
           \/ \E p \in Process : \/ CreateInStripe(p) \/ ReleaseLock(p) \/ Reactivate(p) \/ CancelInStripe(p)
                                 \/ RemoveLocationRecord(p) \/ CancelRemoved(p) \/ Crash(p)
           \/ \E l \in Location : LockExpires(l)
           \/ \E s \in Sub : StripeChanges(s)
           \/ UNCHANGED vars
    PROVE  OneEach'
<1>1. UNCHANGED record
  BY DEF CreateInStripe, ReleaseLock, Reactivate, CancelInStripe, RemoveLocationRecord, CancelRemoved, Crash,
         LockExpires, StripeChanges, vars
<1>2. Grows
  BY TypesOfSection, SameExcuse, ExcuseIfGrows, RemovalGrows
  DEF CreateInStripe, ReleaseLock, Reactivate, CancelInStripe, CancelRemoved, Crash,
      LockExpires, StripeChanges, vars, Excuses
<1>3. CASE UNCHANGED process
  <2> SUFFICES ASSUME NEW l \in Location, Fine(l)' PROVE OneAt(l)'
    BY DEF OneEach
  <2>1. At(l)' = At(l) /\ \A p \in Process : Adds(p, l)' <=> Adds(p, l)
    BY <1>1, <1>3 DEF At, Known, Adds, Adding
  <2> QED
    BY <1>2, <1>3, <2>1, FineBefore DEF OneEach, OneAt
<1>4. ASSUME NEW p \in Process, \/ CreateInStripe(p) \/ ReleaseLock(p) \/ Reactivate(p) \/ CancelInStripe(p)
                                \/ RemoveLocationRecord(p) \/ CancelRemoved(p) \/ Crash(p)
      PROVE  OneEach'
  <2>1. \E state : Become(p, state) /\ state.pc \notin {"lock", "stub", "hook"}
    <3>1. [process[p] EXCEPT !.pc = "release"].pc = "release" \/ ~CreateInStripe(p)
      BY ProcessCases DEF CreateInStripe
    <3>2. [process[p] EXCEPT !.pc = "removeCancel"].pc = "removeCancel" \/ ~RemoveLocationRecord(p)
      BY ProcessCases DEF RemoveLocationRecord
    <3>3. Idle.pc = "idle"
      BY DEF Idle
    <3>4. CASE CreateInStripe(p)
      BY <3>1, <3>4, Zenon DEF CreateInStripe
    <3>5. CASE RemoveLocationRecord(p)
      <4>1. Become(p, Idle) \/ Become(p, [process[p] EXCEPT !.pc = "removeCancel"])
        BY <3>5 DEF RemoveLocationRecord
      <4> QED
        BY <3>2, <3>3, <3>5, <4>1
    <3>6. CASE Become(p, Idle)
      BY <3>3, <3>6
    <3>7. CASE CancelInStripe(p)
      <4>1. \/ Become(p, Idle)
            \/ \E id, sub, status, ends :
                  Become(p, [pc |-> "saveCancel", id |-> id, sub |-> sub, status |-> status, ends |-> ends])
        BY <3>7 DEF CancelInStripe
      <4>2. ASSUME NEW id, NEW sub, NEW status, NEW ends,
                   Become(p, [pc |-> "saveCancel", id |-> id, sub |-> sub, status |-> status, ends |-> ends])
            PROVE  \E state : Become(p, state) /\ state.pc \notin {"lock", "stub", "hook"}
        BY <4>2
      <4> QED
        BY <3>6, <4>1, <4>2, Zenon
    <3>8. CASE CancelRemoved(p)
      <4>1. PICK id \in process[p].found : ReadToCancel(p, id, TRUE)
        BY <3>8 DEF CancelRemoved
      <4>2. \/ Become(p, Idle)
            \/ Become(p, [pc |-> "cancel", id |-> id, sub |-> record[id].sub, immediately |-> TRUE])
        BY <4>1 DEF ReadToCancel
      <4> QED
        BY <3>6, <4>2
    <3> QED
      BY <1>4, <3>4, <3>5, <3>6, <3>7, <3>8 DEF ReleaseLock, Reactivate, Crash
  <2> QED
    BY <1>1, <1>2, <2>1, NeutralStep
<1> QED
  BY <1>3, <1>4 DEF LockExpires, StripeChanges, vars

LEMMA InitOne == Init => OneEach
  BY DEF Init, OneEach, OneAt, At, Known, Nothing, Adds, Adding, Idle

LEMMA NextOne == TypeOK /\ OneEach /\ [Next]_vars => OneEach'
  BY OneRequests, OneHooks, OneLocks, OneStubs, OneSaves, OneValidates, OneWrites, OneOthers
  DEF Next, Step

THEOREM OneRecordInvariant == Spec => []OneEach
  BY InitType, NextType, InitOne, NextOne, PTL DEF Spec

(* A location has at most one record, for any number of locations,         *)
(* subscriptions, requests and webhooks side by side, events in any order  *)
(* and more than once, and failures, unless two processes looked for its   *)
(* record before either added one, or a stub was put over a record that    *)
(* had changed since it was read.                                          *)
THEOREM OneRecordTheorem == Spec => []OneRecordPerLocation
<1>1. OneEach => OneRecordPerLocation
  <2> SUFFICES ASSUME OneEach, NEW l \in Location, Fine(l) PROVE Cardinality(At(l)) <= 1
    BY DEF OneRecordPerLocation, Fine
  <2>1. At(l) = {} \/ \E i : At(l) = {i}
    BY DEF OneEach, OneAt
  <2> QED
    BY <2>1, FS_EmptySet, FS_Singleton
<1> QED
  BY <1>1, OneRecordInvariant, PTL

-----------------------------------------------------------------------------
(* What changes in Stripe.  A subscription keeps its location, and one     *)
(* that is canceled stays as it is.                                        *)
Keeps ==
    \A s \in Sub : stripe[s].status # "none" =>
        /\ stripe'[s].status # "none" /\ stripe'[s].location = stripe[s].location
        /\ stripe[s].status = "canceled" => stripe'[s] = stripe[s]

(* A new subscription, or a change of one that is not canceled.            *)
ReportOf(s, new, type) ==
    /\ new \in BilledType /\ type \in {"created", "updated", "deleted"} /\ Report(s, new, type)
    /\ \/ stripe[s].status = "none" /\ type = "created"
       \/ Live(s) /\ new.location = stripe[s].location

Reported(s) == \E new, type : ReportOf(s, new, type)

(* A webhook acknowledges the event that it has written, or that is about  *)
(* a location that is gone, or that it drops at once.                      *)
Answered(p) ==
    /\ \/ WriteFromWebhook(p)
       \/ ValidateLocationExists(p) /\ process[p].event.location \notin locations
    /\ Acknowledge(process[p].event)

Dropped(p, s, i) ==
    /\ Webhook(p, s) /\ i \in 1..Len(events[s]) /\ (Ordered => i = 1)
    /\ WebhookUpdated(p, events[s][i]) /\ Acknowledge(events[s][i]) /\ UNCHANGED process

LEMMA ReportOfNew ==
    ASSUME TypeOK, NEW s \in Sub, NEW l \in Location, NEW status \in Billed, NewInStripe(s, l, status)
    PROVE  Reported(s)
<1>1. [location |-> l, status |-> status, ends |-> FALSE] \in BilledType
  BY DEF BilledType
<1>2. ReportOf(s, [location |-> l, status |-> status, ends |-> FALSE], "created")
  BY <1>1 DEF NewInStripe, ReportOf
<1> QED
  BY <1>2 DEF Reported

LEMMA ReportOfChange ==
    ASSUME TypeOK, NEW s \in Sub, Live(s), NEW status \in Billed, NEW ends \in BOOLEAN, NEW new,
           new = [stripe[s] EXCEPT !.status = status] \/ new = [stripe[s] EXCEPT !.ends = ends],
           NEW type \in {"created", "updated", "deleted"}, Report(s, new, type)
    PROVE  Reported(s)
<1>1. stripe[s] \in BilledType
  BY LiveIsBilled DEF Live
<1>2. new \in BilledType /\ new.location = stripe[s].location
  BY <1>1 DEF BilledType
<1>3. ReportOf(s, new, type)
  BY <1>2 DEF ReportOf
<1> QED
  BY <1>3 DEF Reported

LEMMA StripeMovesOfStep ==
    ASSUME TypeOK, NEW p \in Process, CreateInStripe(p) \/ Reactivate(p) \/ CancelInStripe(p)
    PROVE  UNCHANGED <<stripe, events>> \/ \E s \in Sub : Reported(s)
<1>1. CASE CreateInStripe(p)
  <2>1. process[p].location \in Location
    BY <1>1, ProcessCases DEF CreateInStripe
  <2> QED
    BY <1>1, <2>1, ReportOfNew DEF CreateInStripe, Billed
<1>2. CASE Reactivate(p)
  <2>1. process[p].sub \in Sub
    BY <1>2, ProcessCases DEF Reactivate
  <2>2. "active" \in Billed
    BY DEF Billed
  <2> QED
    BY <1>2, <2>1, <2>2, ReportOfChange DEF Reactivate
<1>3. CASE CancelInStripe(p)
  <2> DEFINE s == process[p].sub
             new == IF process[p].immediately THEN [stripe[s] EXCEPT !.status = "canceled"]
                                              ELSE [stripe[s] EXCEPT !.ends = TRUE]
             type == IF process[p].immediately THEN "deleted" ELSE "updated"
  <2>1. \/ s \in Sub /\ Live(s) /\ Report(s, new, type)
        \/ UNCHANGED <<stripe, events>>
    BY <1>3, Zenon DEF CancelInStripe
  <2>2. "canceled" \in Billed /\ type \in {"created", "updated", "deleted"}
    BY DEF Billed
  <2>3. new = [stripe[s] EXCEPT !.status = "canceled"] \/ new = [stripe[s] EXCEPT !.ends = TRUE]
    OBVIOUS
  <2> HIDE DEF s, new, type
  <2> QED
    BY <2>1, <2>2, <2>3, ReportOfChange
<1> QED
  BY <1>1, <1>2, <1>3

LEMMA StripeMovesAlone == ASSUME TypeOK, NEW s \in Sub, StripeChanges(s) PROVE Reported(s)
<1> USE DEF Billed
<1>1. \A l \in locations : l \in Location
  BY DEF TypeOK
<1>2. CASE \E l \in locations : NewInStripe(s, l, "active")
  BY <1>1, <1>2, ReportOfNew
<1>3. CASE stripe[s].status \in {"incomplete", "past_due"} /\ Report(s, [stripe[s] EXCEPT !.status = "active"], "updated")
  BY <1>3, ReportOfChange DEF Live
<1>4. CASE stripe[s].status = "active" /\ Report(s, [stripe[s] EXCEPT !.status = "past_due"], "updated")
  BY <1>4, ReportOfChange DEF Live
<1>5. CASE stripe[s].status = "active" /\ Report(s, [stripe[s] EXCEPT !.status = "canceled"], "deleted")
  BY <1>5, ReportOfChange DEF Live
<1> QED
  BY <1>2, <1>3, <1>4, <1>5 DEF StripeChanges

(* Every step leaves Stripe alone, has an event acknowledged, or reports.  *)
LEMMA StripeMoves ==
    ASSUME TypeOK, [Next]_vars
    PROVE  \/ UNCHANGED <<stripe, events>>
           \/ UNCHANGED stripe /\ \E p \in Process : Answered(p)
           \/ UNCHANGED stripe /\ \E p \in Process, s \in Sub : \E i \in 1..Len(events[s]) : Dropped(p, s, i)
           \/ \E s \in Sub : Reported(s)
<1>1. ASSUME NEW p \in Process, NEW s \in Sub, Webhook(p, s)
      PROVE  UNCHANGED stripe /\ (UNCHANGED events \/ \E i \in 1..Len(events[s]) : Dropped(p, s, i))
  <2>1. PICK i \in 1..Len(events[s]) :
           (Ordered => i = 1) /\ (WebhookCreated(p, events[s][i]) \/ WebhookUpdated(p, events[s][i]))
    BY <1>1 DEF Webhook
  <2>2. WebhookCreated(p, events[s][i]) => UNCHANGED events
    BY DEF WebhookCreated
  <2>3. WebhookUpdated(p, events[s][i]) =>
          UNCHANGED events \/ (Acknowledge(events[s][i]) /\ UNCHANGED process)
    BY DEF WebhookUpdated
  <2>4. UNCHANGED stripe
    BY <1>1 DEF Webhook
  <2> QED
    BY <1>1, <2>1, <2>2, <2>3, <2>4, Zenon DEF Dropped
<1>2. ASSUME NEW p \in Process, WriteFromWebhook(p)
      PROVE  UNCHANGED stripe /\ (UNCHANGED events \/ Answered(p))
  BY <1>2, WroteEvent DEF WriteFromWebhook, Answered
<1>5. ASSUME NEW p \in Process, ValidateLocationExists(p)
      PROVE  UNCHANGED stripe /\ (UNCHANGED events \/ Answered(p))
  BY <1>5, Validated DEF Answered
<1>3. ASSUME NEW p \in Process, \/ Request(p) \/ AcquireLock(p) \/ PutStub(p) \/ ReleaseLock(p) \/ SaveCanceled(p)
                                \/ RemoveLocationRecord(p) \/ CancelRemoved(p) \/ Crash(p)
      PROVE  UNCHANGED <<stripe, events>>
  BY <1>3 DEF Request, CreateSubscription, RemoveLocation, CancelSubscription, AcquireLock, PutStub, ReleaseLock,
              SaveCanceled, RemoveLocationRecord, CancelRemoved, Crash
<1>4. (\E l \in Location : LockExpires(l)) \/ UNCHANGED vars => UNCHANGED <<stripe, events>>
  BY DEF LockExpires, vars
<1> QED
  BY <1>1, <1>2, <1>3, <1>4, <1>5, StripeMovesOfStep, StripeMovesAlone DEF Next, Step

LEMMA AnsweredEvent == ASSUME TypeOK, NEW p \in Process, Answered(p) PROVE process[p].event \in EventType
  BY WroteEvent, Validated DEF Answered

(* What a report leaves, and adds.                                         *)
LEMMA Reports ==
    ASSUME TypeOK, NEW s \in Sub, Reported(s)
    PROVE  /\ \A t \in Sub \ {s} : stripe'[t] = stripe[t] /\ events'[t] = events[t]
           /\ \/ UNCHANGED <<stripe, events>>
              \/ \E e \in EventType :
                    /\ events'[s] = Append(events[s], e)
                    /\ e.sub = s /\ stripe'[s] \in BilledType
                    /\ e.location = stripe'[s].location /\ e.status = stripe'[s].status /\ e.ends = stripe'[s].ends
                    /\ \/ stripe[s].status = "none" /\ e.type = "created"
                       \/ Live(s) /\ stripe'[s].location = stripe[s].location
<1>1. PICK new, type : ReportOf(s, new, type)
  BY DEF Reported
<1> DEFINE e == [type |-> type, location |-> new.location, sub |-> s, status |-> new.status, ends |-> new.ends]
<1>2. e \in EventType
  BY <1>1 DEF EventType, BilledType, ReportOf
<1>3. e.sub = s /\ e.location = new.location /\ e.status = new.status /\ e.ends = new.ends /\ e.type = type
  OBVIOUS
<1>4. stripe' = [stripe EXCEPT ![s] = new]
      /\ events' = IF new = stripe[s] THEN events ELSE [events EXCEPT ![s] = Append(events[s], e)]
  BY <1>1 DEF ReportOf, Report
<1> HIDE DEF e
<1>5. stripe'[s] = new /\ \A t \in Sub \ {s} : stripe'[t] = stripe[t] /\ events'[t] = events[t]
  BY <1>4 DEF TypeOK
<1>6. CASE new = stripe[s]
  BY <1>4, <1>5, <1>6 DEF TypeOK
<1>7. CASE new # stripe[s]
  <2>1. events'[s] = Append(events[s], e)
    BY <1>4, <1>7 DEF TypeOK
  <2>2. /\ new \in BilledType
        /\ \/ stripe[s].status = "none" /\ type = "created"
           \/ Live(s) /\ new.location = stripe[s].location
    BY <1>1 DEF ReportOf
  <2> QED
    BY <1>2, <1>3, <1>5, <2>1, <2>2
<1> QED
  BY <1>5, <1>6, <1>7

LEMMA StripeKeeps == ASSUME TypeOK, [Next]_vars PROVE Keeps
<1>1. CASE UNCHANGED stripe
  BY <1>1 DEF Keeps
<1>2. ASSUME NEW s \in Sub, Reported(s) PROVE Keeps
  <2>1. \/ UNCHANGED stripe
        \/ stripe'[s] \in BilledType /\ (stripe[s].status = "none" \/ (Live(s) /\ stripe'[s].location = stripe[s].location))
    BY <1>2, Reports
  <2>2. \A t \in Sub \ {s} : stripe'[t] = stripe[t]
    BY <1>2, Reports
  <2>3. stripe'[s] \in BilledType => stripe'[s].status # "none"
    BY DEF BilledType, Billed
  <2> QED
    BY <1>1, <2>1, <2>2, <2>3 DEF Keeps, Live
<1> QED
  BY <1>1, <1>2, StripeMoves

-----------------------------------------------------------------------------
(* What the gateway remembers of a subscription is, or was, true of it: it *)
(* is about the same location, and what it takes for canceled is.          *)
Past(bills, s, status) ==
    /\ bills[s].status # "none"
    /\ status = "canceled" => bills[s].status = "canceled"

Told(bills, e) == Past(bills, e.sub, e.status) /\ e.location = bills[e.sub].location

(* A stub is only put over a record of a subscription that has ended.      *)
Knows(bills, q) ==
    /\ q.pc = "hook" => Told(bills, q.event)
    /\ q.pc = "saveCancel" => Past(bills, q.sub, q.status)
    /\ q.pc \in {"lock", "stub"} /\ q.seen # Unknown => bills[q.seen].status = "canceled"

EventsTrue == \A s \in Sub : \A i \in 1..Len(events[s]) : events[s][i].sub = s /\ Told(stripe, events[s][i])
RecordsTrue == \A id \in Id : Known(id) /\ record[id].sub \in Sub => Past(stripe, record[id].sub, record[id].status)
ProcessesTrue == \A p \in Process : Knows(stripe, process[p])

Facts == EventsTrue /\ RecordsTrue /\ ProcessesTrue

LEMMA PastStays == ASSUME Keeps, NEW s \in Sub, NEW status, Past(stripe, s, status) PROVE Past(stripe', s, status)
  BY DEF Keeps, Past

LEMMA ToldStays == ASSUME Keeps, NEW e \in EventType, Told(stripe, e) PROVE Told(stripe', e)
<1>1. e.sub \in Sub
  BY DEF EventType
<1> QED
  BY <1>1 DEF Keeps, Past, Told

LEMMA KnowsStays == ASSUME TypeOK, Keeps, NEW p \in Process, Knows(stripe, process[p]) PROVE Knows(stripe', process[p])
<1>1. process[p].pc = "hook" => process[p].event \in EventType
  BY ProcessCases
<1>2. process[p].pc = "saveCancel" => process[p].sub \in Sub
  BY ProcessCases
<1>3. process[p].pc \in {"lock", "stub"} /\ process[p].seen # Unknown => process[p].seen \in Sub
  BY ProcessCases
<1>4. process[p].pc \in {"lock", "stub"} /\ process[p].seen # Unknown => stripe'[process[p].seen].status = "canceled"
  BY <1>3 DEF Knows, Keeps
<1> QED
  BY <1>1, <1>2, <1>4, PastStays, ToldStays DEF Knows

LEMMA KnowsStep ==
    ASSUME TypeOK, Keeps, ProcessesTrue,
           \/ UNCHANGED process
           \/ \E p \in Process : \E state : Become(p, state) /\ Knows(stripe', state)
    PROVE  ProcessesTrue'
<1>1. CASE UNCHANGED process
  BY <1>1, KnowsStays DEF ProcessesTrue
<1>2. CASE \E p \in Process : \E state : Become(p, state) /\ Knows(stripe', state)
  <2> PICK p \in Process : \E state : Become(p, state) /\ Knows(stripe', state)
    BY <1>2
  <2>1. PICK state : Become(p, state) /\ Knows(stripe', state)
    OBVIOUS
  <2>2. process'[p] = state /\ \A q \in Process \ {p} : process'[q] = process[q]
    BY <2>1, Becomes
  <2> QED
    BY <2>1, <2>2, KnowsStays DEF ProcessesTrue
<1> QED
  BY <1>1, <1>2

LEMMA ElementsOfRemoveFirst ==
    ASSUME TypeOK, NEW s \in Sub, NEW e, e.sub = s, Acknowledge(e)
    PROVE  /\ \A t \in Sub \ {s} : events'[t] = events[t]
           /\ events'[s] = RemoveFirst(events[s], e)
           /\ \A i \in 1..Len(events'[s]) : \E j \in 1..Len(events[s]) : events'[s][i] = events[s][j]
           /\ \A j \in 1..Len(events[s]) : events[s][j] # e =>
                \E i \in 1..Len(events'[s]) : events'[s][i] = events[s][j]
           /\ Len(events[s]) # 0 /\ events[s][1] = e => events'[s] = Tail(events[s])
<1> DEFINE q == events[s]
           r == RemoveFirst(q, e)
<1>1. events' = [events EXCEPT ![s] = r] /\ q \in Seq(EventType)
  BY DEF Acknowledge, TypeOK
<1>2. events'[s] = r /\ \A t \in Sub \ {s} : events'[t] = events[t]
  BY <1>1 DEF TypeOK
<1> HIDE DEF q, r
<1>3. /\ \A i \in 1..Len(r) : \E j \in 1..Len(q) : r[i] = q[j]
      /\ \A j \in 1..Len(q) : q[j] # e => \E i \in 1..Len(r) : r[i] = q[j]
      /\ Len(q) # 0 /\ q[1] = e => r = Tail(q)
  BY <1>1, RemoveFirstProperties DEF r
<1> QED
  BY <1>2, <1>3 DEF q, r

LEMMA EventsStayTrue == ASSUME TypeOK, [Next]_vars, Facts PROVE EventsTrue'
<1> SUFFICES ASSUME NEW s \in Sub, NEW i \in 1..Len(events'[s])
             PROVE  events'[s][i].sub = s /\ Told(stripe', events'[s][i])
  BY DEF EventsTrue
<1>1. Keeps
  BY StripeKeeps
<1>2. ASSUME \E j \in 1..Len(events[s]) : events'[s][i] = events[s][j]
      PROVE  events'[s][i].sub = s /\ Told(stripe', events'[s][i])
  <2>1. PICK j \in 1..Len(events[s]) : events'[s][i] = events[s][j]
    BY <1>2
  <2>2. events[s][j] \in EventType
    BY ElementOfSeq DEF TypeOK
  <2> QED
    BY <1>1, <2>1, <2>2, ToldStays DEF Facts, EventsTrue
<1>3. CASE events'[s] = events[s]
  BY <1>2, <1>3
<1>4. ASSUME NEW e \in EventType, Acknowledge(e) PROVE events'[s][i].sub = s /\ Told(stripe', events'[s][i])
  <2>1. CASE e.sub = s
    BY <1>2, <1>4, <2>1, ElementsOfRemoveFirst
  <2>2. CASE e.sub # s
    BY <1>3, <1>4, <2>2, ElementsOfRemoveFirst DEF EventType
  <2> QED
    BY <2>1, <2>2
<1>5. ASSUME NEW t \in Sub, Reported(t) PROVE events'[s][i].sub = s /\ Told(stripe', events'[s][i])
  <2>1. CASE t # s
    BY <1>3, <1>5, <2>1, Reports
  <2>2. CASE t = s
    <3>1. CASE UNCHANGED events
      BY <1>3, <3>1
    <3>2. ASSUME NEW e \in EventType, events'[s] = Append(events[s], e), e.sub = s, stripe'[s] \in BilledType,
                 e.location = stripe'[s].location, e.status = stripe'[s].status
          PROVE  events'[s][i].sub = s /\ Told(stripe', events'[s][i])
      <4>1. Told(stripe', e)
        BY <3>2 DEF Told, Past, BilledType, Billed
      <4>2. events[s] \in Seq(EventType)
        BY DEF TypeOK
      <4>3. CASE i = Len(events[s]) + 1
        BY <3>2, <4>1, <4>2, <4>3
      <4>4. CASE i # Len(events[s]) + 1
        <5>1. i \in 1..Len(events[s]) /\ events'[s][i] = events[s][i]
          BY <3>2, <4>2, <4>4
        <5> QED
          BY <1>2, <5>1
      <4> QED
        BY <4>3, <4>4
    <3> QED
      BY <1>5, <2>2, <3>1, <3>2, Reports
  <2> QED
    BY <2>1, <2>2
<1>6. ASSUME NEW p \in Process, Answered(p) PROVE events'[s][i].sub = s /\ Told(stripe', events'[s][i])
  BY <1>4, <1>6, AnsweredEvent DEF Answered
<1>7. ASSUME NEW p \in Process, NEW t \in Sub, NEW j \in 1..Len(events[t]), Dropped(p, t, j)
      PROVE  events[t][j] \in EventType /\ Acknowledge(events[t][j])
  BY <1>7, ElementOfSeq DEF TypeOK, Dropped
<1>8. CASE \E p \in Process, t \in Sub : \E j \in 1..Len(events[t]) : Dropped(p, t, j)
  BY <1>4, <1>7, <1>8
<1> QED
  BY <1>3, <1>5, <1>6, <1>8, StripeMoves

(* Records are only written by three steps.                                *)
LEMMA RecordMoves ==
    ASSUME TypeOK, [Next]_vars
    PROVE  UNCHANGED record \/ \E p \in Process : PutStub(p) \/ SaveCanceled(p) \/ WriteFromWebhook(p)
<1>1. ASSUME NEW p \in Process, \/ Request(p) \/ AcquireLock(p) \/ CreateInStripe(p) \/ ReleaseLock(p) \/ Reactivate(p)
                                \/ CancelInStripe(p) \/ RemoveLocationRecord(p) \/ CancelRemoved(p)
                                \/ ValidateLocationExists(p) \/ Crash(p)
      PROVE  UNCHANGED record
  BY <1>1 DEF Request, CreateSubscription, RemoveLocation, CancelSubscription, AcquireLock, CreateInStripe,
              ReleaseLock, Reactivate, CancelInStripe, RemoveLocationRecord, CancelRemoved,
              ValidateLocationExists, Crash
<1>2. (\E p \in Process, s \in Sub : Webhook(p, s)) \/ (\E l \in Location : LockExpires(l))
      \/ (\E s \in Sub : StripeChanges(s)) \/ UNCHANGED vars => UNCHANGED record
  BY DEF Webhook, LockExpires, StripeChanges, vars
<1> QED
  BY <1>1, <1>2 DEF Next, Step

LEMMA StubPut ==
    ASSUME TypeOK, NEW p \in Process, PutStub(p)
    PROVE  LET q == process[p]
               row == [location |-> q.location, sub |-> Unknown, status |-> "_PENDING_", ends |-> FALSE]
           IN  /\ q.id \in Id /\ q.location \in Location /\ q.seen \in Sub \cup {Unknown}
               /\ row \in RecordType /\ row.status # "none" /\ Put(q.id, row)
<1> DEFINE q == process[p]
           row == [location |-> q.location, sub |-> Unknown, status |-> "_PENDING_", ends |-> FALSE]
<1>1. q.id \in Id /\ q.location \in Location /\ q.seen \in Sub \cup {Unknown}
  BY ProcessCases DEF PutStub
<1>2. row \in RecordType /\ row.status # "none"
  BY <1>1 DEF RecordType
<1>3. Put(q.id, row)
  BY DEF PutStub, Put
<1> QED
  BY <1>1, <1>2, <1>3

LEMMA RecordsStayTrue == ASSUME TypeOK, [Next]_vars, Facts PROVE RecordsTrue'
<1> SUFFICES ASSUME NEW id \in Id, Known(id)', record'[id].sub \in Sub
             PROVE  Past(stripe', record'[id].sub, record'[id].status)
  BY DEF RecordsTrue
<1>1. Keeps
  BY StripeKeeps
<1>2. CASE record'[id] = record[id]
  BY <1>1, <1>2, PastStays DEF Facts, RecordsTrue, Known
<1>3. ASSUME NEW j \in Id, NEW row \in RecordType, row.status # "none", Put(j, row), record'[id] # record[id]
      PROVE  record'[id] = row
  BY <1>3, PutKeeps
<1>4. ASSUME NEW p \in Process, PutStub(p) PROVE Past(stripe', record'[id].sub, record'[id].status)
  <2> DEFINE row == [location |-> process[p].location, sub |-> Unknown, status |-> "_PENDING_", ends |-> FALSE]
  <2>1. process[p].id \in Id /\ row \in RecordType /\ row.status # "none" /\ Put(process[p].id, row)
        /\ row.sub = Unknown
    BY <1>4, StubPut
  <2> HIDE DEF row
  <2>2. record'[id] # record[id] => record'[id] = row
    BY <1>3, <2>1
  <2> QED
    BY <1>2, <2>1, <2>2, SubscriptionAssumption
<1>5. ASSUME NEW p \in Process, SaveCanceled(p) PROVE Past(stripe', record'[id].sub, record'[id].status)
  <2>1. process[p].sub \in Sub /\ Past(stripe, process[p].sub, process[p].status)
    BY <1>5, Saved DEF Facts, ProcessesTrue, Knows, SaveCanceled
  <2>2. Past(stripe', process[p].sub, process[p].status)
    BY <1>1, <2>1, PastStays
  <2> DEFINE q == process[p]
             row == [location |-> record[q.id].location, sub |-> q.sub, status |-> q.status, ends |-> q.ends]
  <2>3. q.id \in Id /\ row \in RecordType /\ row.status # "none" /\ Put(q.id, row)
        /\ row.sub = q.sub /\ row.status = q.status
    BY <1>5, Saved DEF Billed
  <2> HIDE DEF row
  <2>4. record'[id] # record[id] => record'[id] = row
    BY <1>3, <2>3
  <2> QED
    BY <1>2, <2>2, <2>3, <2>4, SMTT(30)
<1>6. ASSUME NEW p \in Process, WriteFromWebhook(p) PROVE Past(stripe', record'[id].sub, record'[id].status)
  <2> DEFINE e == process[p].event
  <2>1. process[p].id \in Id /\ e \in EventType /\ Put(process[p].id, Written(e))
    BY <1>6, WroteEvent
  <2>2. Told(stripe, e)
    BY <1>6 DEF Facts, ProcessesTrue, Knows, WriteFromWebhook
  <2>3. Told(stripe', e)
    BY <1>1, <2>1, <2>2, ToldStays
  <2>4. Written(e) \in RecordType /\ Written(e).status # "none"
    BY <2>1, WrittenIsRow DEF Billed
  <2>5. record'[id] # record[id] => record'[id] = Written(e)
    BY <1>3, <2>1, <2>4
  <2> QED
    BY <1>2, <2>3, <2>5 DEF Told, Written
<1> QED
  BY <1>2, <1>4, <1>5, <1>6, RecordMoves

(* The other steps leave the process with nothing it knows of Stripe.      *)
LEMMA OtherMoves ==
    ASSUME TypeOK, NEW p \in Process,
           \/ PutStub(p) \/ CreateInStripe(p) \/ ReleaseLock(p) \/ Reactivate(p) \/ SaveCanceled(p)
           \/ RemoveLocationRecord(p) \/ CancelRemoved(p) \/ WriteFromWebhook(p) \/ Crash(p)
    PROVE  \E state : Become(p, state) /\ state.pc \notin {"lock", "stub", "hook", "saveCancel"}
<1>1. CASE Become(p, Idle)
  BY <1>1 DEF Idle
<1>2. CASE PutStub(p)
  <2>1. Become(p, [pc |-> "provider", location |-> process[p].location])
    BY <1>2 DEF PutStub
  <2> QED
    BY <2>1
<1>3. CASE CreateInStripe(p)
  <2>1. [process[p] EXCEPT !.pc = "release"].pc = "release"
    BY <1>3, ProcessCases DEF CreateInStripe
  <2>2. Become(p, [process[p] EXCEPT !.pc = "release"])
    BY <1>3 DEF CreateInStripe
  <2> QED
    BY <2>1, <2>2
<1>4. CASE RemoveLocationRecord(p)
  <2>1. [process[p] EXCEPT !.pc = "removeCancel"].pc = "removeCancel"
    BY <1>4, ProcessCases DEF RemoveLocationRecord
  <2>2. Become(p, Idle) \/ Become(p, [process[p] EXCEPT !.pc = "removeCancel"])
    BY <1>4 DEF RemoveLocationRecord
  <2> QED
    BY <1>1, <2>1, <2>2
<1>5. CASE CancelRemoved(p)
  <2>1. PICK id \in process[p].found : ReadToCancel(p, id, TRUE)
    BY <1>5 DEF CancelRemoved
  <2>2. \/ Become(p, Idle)
        \/ Become(p, [pc |-> "cancel", id |-> id, sub |-> record[id].sub, immediately |-> TRUE])
    BY <2>1 DEF ReadToCancel
  <2> QED
    BY <1>1, <2>2
<1> QED
  BY <1>1, <1>2, <1>3, <1>4, <1>5 DEF ReleaseLock, Reactivate, SaveCanceled, WriteFromWebhook, Crash

LEMMA CreationMoves ==
    ASSUME TypeOK, Facts, NEW p \in Process, NEW l \in Location, CreateSubscription(p, l)
    PROVE  \E state : Become(p, state) /\ Knows(stripe, state)
<1>1. ASSUME NEW id \in At(l), Become(p, [pc |-> "reactivate", sub |-> record[id].sub])
      PROVE  \E state : Become(p, state) /\ Knows(stripe, state)
  BY <1>1 DEF Knows
<1>2. ASSUME NEW id \in At(l), ~Reactivable(record[id]), ~Active(record[id]),
             Become(p, [pc |-> "lock", location |-> l, id |-> id, seen |-> record[id].sub])
      PROVE  \E state : Become(p, state) /\ Knows(stripe, state)
  <2>1. record[id].sub # Unknown => record[id].sub \in Sub /\ record[id].status = "canceled"
    BY <1>2, RecordCases DEF At, Reactivable, Delinquent, Active, Billed
  <2>2. record[id].sub # Unknown => stripe[record[id].sub].status = "canceled"
    BY <2>1 DEF Facts, RecordsTrue, Past, At
  <2>3. Knows(stripe, [pc |-> "lock", location |-> l, id |-> id, seen |-> record[id].sub])
    BY <2>2 DEF Knows
  <2> QED
    BY <1>2, <2>3
<1>3. ASSUME NEW id \in Unused, Become(p, [pc |-> "lock", location |-> l, id |-> id, seen |-> Unknown])
      PROVE  \E state : Become(p, state) /\ Knows(stripe, state)
  BY <1>3 DEF Knows
<1> QED
  BY <1>1, <1>2, <1>3 DEF CreateSubscription

LEMMA RequestMoves ==
    ASSUME TypeOK, Facts, NEW p \in Process, Request(p)
    PROVE  \E state : Become(p, state) /\ Knows(stripe, state)
<1>1. ASSUME NEW l \in Location, RemoveLocation(p, l) PROVE \E state : Become(p, state) /\ Knows(stripe, state)
  <2>1. \E found : Become(p, [pc |-> "removeRecord", location |-> l, found |-> found])
    BY <1>1 DEF RemoveLocation
  <2> QED
    BY <2>1 DEF Knows
<1>2. ASSUME NEW id \in Id, NEW immediately \in BOOLEAN, CancelSubscription(p, id, immediately)
      PROVE  \E state : Become(p, state) /\ Knows(stripe, state)
  <2>1. \/ Become(p, Idle)
        \/ Become(p, [pc |-> "cancel", id |-> id, sub |-> record[id].sub, immediately |-> immediately])
    BY <1>2 DEF CancelSubscription, ReadToCancel
  <2> QED
    BY <2>1 DEF Idle, Knows
<1> QED
  BY <1>1, <1>2, CreationMoves DEF Request

LEMMA LockMoves ==
    ASSUME TypeOK, Facts, NEW p \in Process, AcquireLock(p)
    PROVE  \E state : Become(p, state) /\ Knows(stripe, state)
<1>1. CASE Become(p, Idle)
  BY <1>1 DEF Idle, Knows
<1>2. CASE Become(p, [process[p] EXCEPT !.pc = "stub"])
  <2> DEFINE state == [process[p] EXCEPT !.pc = "stub"]
  <2>1. process[p].pc = "lock" /\ state.pc = "stub" /\ state.seen = process[p].seen
    BY ProcessCases DEF AcquireLock
  <2>2. Knows(stripe, process[p])
    BY DEF Facts, ProcessesTrue
  <2> HIDE DEF state
  <2>3. Knows(stripe, state)
    BY <2>1, <2>2 DEF Knows
  <2> QED
    BY <1>2, <2>3 DEF state
<1> QED
  BY <1>1, <1>2 DEF AcquireLock

LEMMA CancelMoves ==
    ASSUME TypeOK, NEW p \in Process, CancelInStripe(p)
    PROVE  \E state : Become(p, state) /\ Knows(stripe', state)
<1> DEFINE q == process[p]
           s == q.sub
           new == IF q.immediately THEN [stripe[s] EXCEPT !.status = "canceled"]
                                   ELSE [stripe[s] EXCEPT !.ends = TRUE]
           state == [pc |-> "saveCancel", id |-> q.id, sub |-> s, status |-> new.status, ends |-> new.ends]
<1>1. CASE Become(p, Idle)
  BY <1>1 DEF Idle, Knows
<1>2. CASE s \in Sub /\ Live(s) /\ Become(p, state)
  <2>1. new \in BilledType
    BY <1>2, LiveIsBilled DEF Live, BilledType, Billed
  <2>2. stripe' = [stripe EXCEPT ![s] = new]
    BY <1>2, Zenon DEF CancelInStripe, Report
  <2>3. state.pc = "saveCancel" /\ state.sub = s /\ state.status = new.status
    OBVIOUS
  <2> HIDE DEF s, new, state
  <2>4. stripe'[s] = new
    BY <1>2, <2>2 DEF TypeOK
  <2>5. Knows(stripe', state)
    BY <2>1, <2>3, <2>4 DEF Knows, Past, BilledType, Billed
  <2> QED
    BY <1>2, <2>5
<1> QED
  BY <1>1, <1>2, Zenon DEF CancelInStripe

LEMMA WebhookMoves ==
    ASSUME TypeOK, Facts, NEW p \in Process, NEW s \in Sub, Webhook(p, s)
    PROVE  UNCHANGED process \/ \E state : Become(p, state) /\ Knows(stripe, state)
<1>1. PICK i \in 1..Len(events[s]) : WebhookCreated(p, events[s][i]) \/ WebhookUpdated(p, events[s][i])
  BY DEF Webhook
<1>2. Told(stripe, events[s][i])
  BY DEF Facts, EventsTrue
<1>3. UNCHANGED process \/ \E id, c : Become(p, [pc |-> "hook", id |-> id, event |-> events[s][i], check |-> c])
  BY <1>1 DEF WebhookCreated, WebhookUpdated, Write
<1>4. ASSUME NEW id, NEW c PROVE Knows(stripe, [pc |-> "hook", id |-> id, event |-> events[s][i], check |-> c])
  BY <1>2 DEF Knows
<1> QED
  BY <1>3, <1>4, Zenon

LEMMA ValidateMoves ==
    ASSUME TypeOK, Facts, NEW p \in Process, ValidateLocationExists(p)
    PROVE  UNCHANGED stripe /\ \E state : Become(p, state) /\ Knows(stripe, state)
<1> DEFINE checked == [pc |-> "hook", id |-> process[p].id, event |-> process[p].event, check |-> "done"]
<1>1. process[p].pc = "hook" /\ UNCHANGED stripe /\ (Become(p, checked) \/ Become(p, Idle))
  BY Validated
<1>2. Knows(stripe, checked)
  BY <1>1 DEF Facts, ProcessesTrue, Knows
<1>3. Knows(stripe, Idle)
  BY DEF Knows, Idle
<1> HIDE DEF checked
<1> QED
  BY <1>1, <1>2, <1>3

LEMMA ProcessesStayTrue == ASSUME TypeOK, [Next]_vars, Facts PROVE ProcessesTrue'
<1>1. Keeps
  BY StripeKeeps
<1>2. ASSUME NEW p \in Process, UNCHANGED stripe, \E state : Become(p, state) /\ Knows(stripe, state)
      PROVE  ProcessesTrue'
  BY <1>1, <1>2, KnowsStep DEF Facts
<1>3. ASSUME NEW p \in Process, Request(p) \/ AcquireLock(p) PROVE ProcessesTrue'
  <2>1. UNCHANGED stripe
    BY <1>3 DEF Request, CreateSubscription, RemoveLocation, CancelSubscription, AcquireLock
  <2> QED
    BY <1>2, <1>3, <2>1, RequestMoves, LockMoves
<1>4. ASSUME NEW p \in Process, CancelInStripe(p) PROVE ProcessesTrue'
  BY <1>1, <1>4, CancelMoves, KnowsStep DEF Facts
<1>5. ASSUME NEW p \in Process, NEW s \in Sub, Webhook(p, s) PROVE ProcessesTrue'
  <2>1. UNCHANGED stripe
    BY <1>5 DEF Webhook
  <2> QED
    BY <1>1, <1>2, <1>5, <2>1, WebhookMoves, KnowsStep DEF Facts
<1>6. ASSUME NEW p \in Process, \E state : Become(p, state) /\ state.pc \notin {"lock", "stub", "hook", "saveCancel"}
      PROVE  ProcessesTrue'
  <2>1. \E state : Become(p, state) /\ Knows(stripe', state)
    BY <1>6 DEF Knows
  <2> QED
    BY <1>1, <2>1, KnowsStep DEF Facts
<1>7. CASE (\E l \in Location : LockExpires(l)) \/ (\E s \in Sub : StripeChanges(s)) \/ UNCHANGED vars
  <2>1. UNCHANGED process
    BY <1>7 DEF LockExpires, StripeChanges, vars
  <2> QED
    BY <1>1, <2>1, KnowsStep DEF Facts
<1>8. ASSUME NEW p \in Process, ValidateLocationExists(p) PROVE ProcessesTrue'
  BY <1>2, <1>8, ValidateMoves
<1> QED
  BY <1>3, <1>4, <1>5, <1>6, <1>7, <1>8, OtherMoves DEF Next, Step

LEMMA InitFacts == Init => Facts
  BY DEF Init, Facts, EventsTrue, RecordsTrue, ProcessesTrue, Knows, Known, Nothing, Idle

LEMMA NextFacts == TypeOK /\ Facts /\ [Next]_vars => Facts'
  BY EventsStayTrue, RecordsStayTrue, ProcessesStayTrue DEF Facts

(* Events that wait or are handled, records, and what a cancellation saves *)
(* are about subscriptions there are in Stripe and their locations, and    *)
(* say canceled only of those that are; a stub replaces no other.          *)
THEOREM FactsInvariant == Spec => []Facts
  BY InitType, NextType, InitFacts, NextFacts, PTL DEF Spec

-----------------------------------------------------------------------------
(* What is paid for is recorded.                                           *)
LEMMA NextGrows == ASSUME TypeOK, [Next]_vars PROVE Grows
<1> USE TypesOfSection, SameExcuse, ExcuseGrows, ExcuseIfGrows, RemovalGrows, WriteGrows DEF Excuses
<1>1. ASSUME NEW p \in Process, Request(p) PROVE Grows
  BY <1>1 DEF Request, CreateSubscription, RemoveLocation, CancelSubscription
<1>2. ASSUME NEW p \in Process, NEW s \in Sub, Webhook(p, s) PROVE Grows
  <2>1. PICK i \in 1..Len(events[s]) : WebhookCreated(p, events[s][i]) \/ WebhookUpdated(p, events[s][i])
    BY <1>2 DEF Webhook
  <2> QED
    BY <2>1 DEF WebhookCreated, WebhookUpdated
<1>3. ASSUME NEW p \in Process, Step(p) PROVE Grows
  BY <1>3 DEF Step, AcquireLock, PutStub, CreateInStripe, ReleaseLock, Reactivate, CancelInStripe, SaveCanceled,
              CancelRemoved, ValidateLocationExists
<1>4. ASSUME NEW l \in Location, LockExpires(l) PROVE Grows
  BY <1>4 DEF LockExpires
<1>5. (\E p \in Process : Crash(p)) \/ (\E s \in Sub : StripeChanges(s)) \/ UNCHANGED vars => UNCHANGED excuse
  BY DEF Crash, StripeChanges, vars
<1> QED
  BY <1>1, <1>2, <1>3, <1>4, <1>5 DEF Next

LEMMA LocationsShrink == ASSUME [Next]_vars PROVE locations' \subseteq locations
<1>1. ASSUME NEW p \in Process, RemoveLocationRecord(p) PROVE locations' \subseteq locations
  BY <1>1 DEF RemoveLocationRecord
<1>2. (\E p \in Process : Request(p) \/ Crash(p)) => UNCHANGED locations
  BY DEF Request, CreateSubscription, RemoveLocation, CancelSubscription, Crash
<1>3. ASSUME NEW p \in Process,
             \/ AcquireLock(p) \/ PutStub(p) \/ CreateInStripe(p) \/ ReleaseLock(p) \/ Reactivate(p)
             \/ CancelInStripe(p) \/ SaveCanceled(p) \/ CancelRemoved(p)
             \/ ValidateLocationExists(p) \/ WriteFromWebhook(p)
      PROVE  UNCHANGED locations
  BY <1>3 DEF AcquireLock, PutStub, CreateInStripe, ReleaseLock, Reactivate, CancelInStripe, SaveCanceled,
              CancelRemoved, ValidateLocationExists, WriteFromWebhook
<1>4. (\E p \in Process, s \in Sub : Webhook(p, s)) \/ (\E l \in Location : LockExpires(l))
      \/ (\E s \in Sub : StripeChanges(s)) \/ UNCHANGED vars => UNCHANGED locations
  BY DEF Webhook, LockExpires, StripeChanges, vars
<1> QED
  BY <1>1, <1>2, <1>3, <1>4 DEF Next, Step

(* What PaidIsRecorded asks of a subscription in Stripe.                   *)
Due(s) ==
    /\ Live(s)
    /\ stripe[s].location \in locations
    /\ excuse[stripe[s].location] = {}
    /\ \A t \in Sub \ {s} : stripe[t].status # "none" => stripe[t].location # stripe[s].location

Recorded(s) == \E id \in At(stripe[s].location) : record[id].sub = s
Announced(s) == \E i \in 1..Len(events[s]) : events[s][i].type = "created"

(* Until a webhook has written it, Stripe still has its first event.       *)
PaidOrAnnounced == \A s \in Sub : Due(s) => Recorded(s) \/ Announced(s)

LEMMA DueBefore ==
    ASSUME TypeOK, [Next]_vars, NEW s \in Sub, Due(s)'
    PROVE  stripe[s].status = "none" \/ (Due(s) /\ stripe'[s].location = stripe[s].location)
<1> SUFFICES ASSUME stripe[s].status # "none" PROVE Due(s) /\ stripe'[s].location = stripe[s].location
  OBVIOUS
<1> USE StripeKeeps, NextGrows, LocationsShrink
<1>1. stripe'[s].location = stripe[s].location /\ Live(s)
  BY DEF Keeps, Due, Live
<1>2. stripe[s].location \in Location
  BY LiveIsBilled DEF BilledType
<1>3. excuse[stripe[s].location] = {}
  BY <1>1, <1>2 DEF Due, Grows
<1>4. \A t \in Sub \ {s} : stripe[t].status # "none" => stripe[t].location # stripe[s].location
  BY <1>1 DEF Due, Keeps
<1>5. stripe[s].location \in locations
  BY <1>1 DEF Due
<1> QED
  BY <1>1, <1>3, <1>4, <1>5 DEF Due

LEMMA AnnouncedFirst ==
    ASSUME TypeOK, [Next]_vars, NEW s \in Sub, stripe[s].status = "none", stripe'[s].status # "none"
    PROVE  Announced(s)'
<1>1. PICK t \in Sub : Reported(t)
  BY StripeMoves
<1>2. t = s
  BY <1>1, Reports
<1>3. PICK e \in EventType : events'[s] = Append(events[s], e) /\ e.type = "created"
  BY <1>1, <1>2, Reports DEF Live
<1>4. events[s] \in Seq(EventType)
  BY DEF TypeOK
<1>5. Len(events[s]) + 1 \in 1..Len(events'[s]) /\ events'[s][Len(events[s]) + 1] = e
  BY <1>3, <1>4
<1> QED
  BY <1>3, <1>5 DEF Announced

(* The first event goes only when the record is written.                   *)
LEMMA AnnouncedOrRecorded ==
    ASSUME TypeOK, Facts, [Next]_vars, NEW s \in Sub, Due(s), Announced(s)
    PROVE  Recorded(s)' \/ Announced(s)'
<1>1. PICK i \in 1..Len(events[s]) : events[s][i].type = "created"
  BY DEF Announced
<1> DEFINE e == events[s][i]
<1>2. e.sub = s /\ Told(stripe, e) /\ e \in EventType /\ events[s] \in Seq(EventType)
  BY ElementOfSeq DEF Facts, EventsTrue, TypeOK
<1>3. ASSUME events'[s] = events[s] PROVE Announced(s)'
  BY <1>1, <1>3 DEF Announced
<1>4. ASSUME NEW t \in Sub, Reported(t) PROVE Announced(s)'
  <2>1. events'[s] = events[s] \/ \E f \in EventType : events'[s] = Append(events[s], f)
    BY <1>4, Reports
  <2>2. ASSUME NEW f \in EventType, events'[s] = Append(events[s], f) PROVE Announced(s)'
    <3>1. i \in 1..Len(events'[s]) /\ events'[s][i] = events[s][i]
      BY <1>2, <2>2
    <3> QED
      BY <1>1, <3>1 DEF Announced
  <2> QED
    BY <1>3, <2>1, <2>2
<1>5. ASSUME NEW f \in EventType, Acknowledge(f), f # e PROVE Announced(s)'
  <2>1. CASE f.sub = s
    <3>1. \E j \in 1..Len(events'[s]) : events'[s][j] = e
      BY <1>5, <2>1, ElementsOfRemoveFirst
    <3> QED
      BY <1>1, <3>1 DEF Announced
  <2>2. CASE f.sub # s
    <3>1. f.sub \in Sub
      BY DEF EventType
    <3> QED
      BY <1>3, <1>5, <2>2, <3>1, ElementsOfRemoveFirst
  <2> QED
    BY <2>1, <2>2
<1>6. ASSUME NEW p \in Process, NEW t \in Sub, NEW j \in 1..Len(events[t]), Dropped(p, t, j) PROVE Announced(s)'
  <2>1. events[t][j] \in EventType /\ events[t][j].type # "created" /\ Acknowledge(events[t][j])
    BY <1>6, ElementOfSeq DEF TypeOK, Dropped, WebhookUpdated
  <2> QED
    BY <1>1, <1>5, <2>1
<1>7. ASSUME NEW p \in Process, Answered(p), UNCHANGED stripe
      PROVE  Recorded(s)' \/ Announced(s)'
  <2>1. CASE process[p].event # e
    BY <1>5, <1>7, <2>1, AnsweredEvent DEF Answered
  <2>2. CASE process[p].event = e
    <3> HIDE DEF e
    <3>1. e.location = stripe[s].location /\ e.location \in locations
      BY <1>2 DEF Told, Due
    <3>2. Put(process[p].id, Written(e)) /\ process[p].id \in Id
      BY <1>7, <2>2, <3>1, WroteEvent DEF Answered
    <3>3. Written(e) \in RecordType /\ Written(e).status # "none"
      BY <1>2, WrittenIsRow DEF Billed
    <3>4. record'[process[p].id] = Written(e)
      BY <3>2, <3>3, PutKeeps
    <3>5. Written(e).location = stripe'[s].location /\ Written(e).sub = s
      BY <1>2, <1>7, <3>1 DEF Written
    <3> QED
      BY <3>2, <3>3, <3>4, <3>5 DEF Recorded, At, Known
  <2> QED
    BY <2>1, <2>2
<1>8. CASE \E p \in Process, t \in Sub : \E j \in 1..Len(events[t]) : Dropped(p, t, j)
  BY <1>6, <1>8
<1> QED
  BY <1>3, <1>4, <1>7, <1>8, StripeMoves

(* Nothing else overwrites the record without leaving an excuse.           *)
LEMMA RecordedStays ==
    ASSUME TypeOK, Facts, [Next]_vars, NEW s \in Sub, Due(s), Due(s)', Recorded(s),
           stripe'[s].location = stripe[s].location
    PROVE  Recorded(s)'
<1> DEFINE l == stripe[s].location
<1>0. l \in Location /\ excuse'[l] = {}
  BY LiveIsBilled DEF Due, Live, BilledType
<1>1. PICK id \in At(l) : record[id].sub = s
  BY DEF Recorded
<1> HIDE DEF l
<1>2. id \in Id /\ Known(id) /\ record[id].location = l
  BY <1>1 DEF At
<1>3. ASSUME NEW row, record'[id] = row, row.status # "none", row.location = l, row.sub = s PROVE Recorded(s)'
  BY <1>2, <1>3 DEF Recorded, At, Known, l
<1>4. CASE record'[id] = record[id]
  BY <1>1, <1>2, <1>3, <1>4 DEF Known
<1>5. ASSUME NEW p \in Process, PutStub(p), record'[id] # record[id] PROVE FALSE
  <2> DEFINE q == process[p]
             row == [location |-> q.location, sub |-> Unknown, status |-> "_PENDING_", ends |-> FALSE]
  <2>1. q.id \in Id /\ q.seen \in Sub \cup {Unknown} /\ row \in RecordType /\ row.status # "none" /\ Put(q.id, row)
    BY <1>5, StubPut
  <2> HIDE DEF row
  <2>2. q.id = id
    BY <1>2, <1>5, <2>1, PutKeeps
  <2>3. CASE <<record[id].sub, record[id].location>> # <<q.seen, q.location>>
    <3>1. Excuse({q.location, l}, "clobber")
      BY <1>2, <1>5, <2>2, <2>3 DEF PutStub
    <3> QED
      BY <1>0, <3>1 DEF Excuse
  <2>4. CASE record[id].sub = q.seen
    <3>1. Knows(stripe, q) /\ q.pc = "stub"
      BY <1>5 DEF Facts, ProcessesTrue, PutStub
    <3>2. stripe[s].status = "canceled"
      BY <1>1, <2>4, <3>1, SubscriptionAssumption DEF Knows
    <3> QED
      BY <3>2 DEF Due, Live
  <2> QED
    BY <2>3, <2>4
<1>6. ASSUME NEW p \in Process, SaveCanceled(p), record'[id] # record[id] PROVE Recorded(s)'
  <2> DEFINE q == process[p]
             row == [location |-> record[q.id].location, sub |-> q.sub, status |-> q.status, ends |-> q.ends]
  <2>1. q.id \in Id /\ row \in RecordType /\ row.status # "none" /\ Put(q.id, row)
        /\ row.sub = q.sub /\ row.location = record[q.id].location
    BY <1>6, Saved DEF Billed
  <2> HIDE DEF row
  <2>2. q.id = id /\ record'[id] = row
    BY <1>2, <1>6, <2>1, PutKeeps
  <2>3. q.sub = s
    <3> SUFFICES ASSUME q.sub # s PROVE FALSE
      OBVIOUS
    <3>1. Excuse({l}, "late")
      BY <1>1, <1>2, <1>6, <2>2 DEF SaveCanceled, ExcuseIf
    <3> QED
      BY <1>0, <3>1 DEF Excuse
  <2> QED
    BY <1>2, <1>3, <2>1, <2>2, <2>3
<1>7. ASSUME NEW p \in Process, WriteFromWebhook(p), record'[id] # record[id] PROVE Recorded(s)'
  <2> DEFINE e == process[p].event
  <2>1. process[p].id \in Id /\ e \in EventType /\ Put(process[p].id, Written(e))
    BY <1>7, WroteEvent
  <2>2. Written(e) \in RecordType /\ Written(e).status # "none"
    BY <2>1, WrittenIsRow DEF Billed
  <2>3. process[p].id = id /\ record'[id] = Written(e)
    BY <1>2, <1>7, <2>1, <2>2, PutKeeps
  <2>4. e.location = l
    <3> SUFFICES ASSUME e.location # l PROVE FALSE
      OBVIOUS
    <3>1. "moved" \in excuse'[l]
      BY <1>0, <1>2, <1>7, <2>3 DEF WriteFromWebhook
    <3> QED
      BY <1>0, <3>1
  <2>5. Told(stripe, e) /\ e.sub \in Sub
    BY <1>7, <2>1 DEF Facts, ProcessesTrue, Knows, WriteFromWebhook, EventType
  <2>6. e.sub = s
    BY <2>4, <2>5 DEF Told, Past, Due, l
  <2> QED
    BY <1>3, <2>2, <2>3, <2>4, <2>6 DEF Written
<1> QED
  BY <1>4, <1>5, <1>6, <1>7, RecordMoves

LEMMA NextPaid == TypeOK /\ Facts /\ PaidOrAnnounced /\ [Next]_vars => PaidOrAnnounced'
<1> SUFFICES ASSUME TypeOK, Facts, PaidOrAnnounced, [Next]_vars, NEW s \in Sub, Due(s)'
             PROVE  Recorded(s)' \/ Announced(s)'
  BY DEF PaidOrAnnounced
<1>1. CASE stripe[s].status = "none"
  BY <1>1, AnnouncedFirst DEF Due, Live
<1>2. CASE stripe[s].status # "none"
  <2>1. Due(s) /\ stripe'[s].location = stripe[s].location
    BY <1>2, DueBefore
  <2> QED
    BY <2>1, AnnouncedOrRecorded, RecordedStays DEF PaidOrAnnounced
<1> QED
  BY <1>1, <1>2

LEMMA InitPaid == Init => PaidOrAnnounced
  BY DEF Init, PaidOrAnnounced, Due, Live, Nothing

THEOREM PaidInvariant == Spec => []PaidOrAnnounced
  BY InitType, NextType, InitFacts, NextFacts, InitPaid, NextPaid, PTL DEF Spec

(* What Stripe bills for a location is recorded once its events have been  *)
(* handled, in any order and with failures anywhere, for any number of     *)
(* locations, requests and webhooks, with the exceptions PaidIsRecorded    *)
(* names.                                                                  *)
THEOREM PaidTheorem == Spec => []PaidIsRecorded
<1>1. PaidOrAnnounced => PaidIsRecorded
  <2> SUFFICES ASSUME PaidOrAnnounced, Settled, NEW s \in Sub, Due(s)
               PROVE  \E id \in At(stripe[s].location) : record[id].sub = s
    BY DEF PaidIsRecorded, Due
  <2>1. ~Announced(s)
    BY DEF Settled, Announced
  <2> QED
    BY <2>1 DEF PaidOrAnnounced, Recorded
<1> QED
  BY <1>1, PaidInvariant, PTL

-----------------------------------------------------------------------------
(* Events in order: a webhook under way has the first event that waits,    *)
(* and no other has it; the last one is what Stripe has now.               *)
Hooked(p) == process[p].pc = "hook"

Heads ==
    \A p \in Process : Hooked(p) =>
        LET q == events[process[p].event.sub] IN Len(q) # 0 /\ q[1] = process[p].event
HandledOnce ==
    \A p, q \in Process : Hooked(p) /\ Hooked(q) /\ process[p].event.sub = process[q].event.sub => p = q
Lasts ==
    \A s \in Sub : Len(events[s]) # 0 => Written(events[s][Len(events[s])]) = Snapshot(s)

(* What RecordMirrorsStripe asks, while events wait.                       *)
Clean(l) == l \in locations /\ excuse[l] \cap {"overlap", "clobber", "late"} = {}
Mirrored ==
    \A id \in Id, s \in Sub, l \in Location :
        id \in At(l) /\ record[id].sub = s /\ Clean(l) =>
            l = stripe[s].location /\ (record[id] = Snapshot(s) \/ Len(events[s]) # 0)

InOrder == Heads /\ HandledOnce /\ Lasts

LEMMA UnhookedMoves ==
    ASSUME TypeOK, NEW p \in Process, Request(p) \/ AcquireLock(p) \/ CancelInStripe(p)
    PROVE  \E state : Become(p, state) /\ state.pc # "hook"
<1>1. CASE Become(p, Idle)
  BY <1>1 DEF Idle
<1>2. ASSUME NEW l \in Location, CreateSubscription(p, l) PROVE \E state : Become(p, state) /\ state.pc # "hook"
  <2>1. \/ \E sub : Become(p, [pc |-> "reactivate", sub |-> sub])
        \/ \E id, seen : Become(p, [pc |-> "lock", location |-> l, id |-> id, seen |-> seen])
    BY <1>2 DEF CreateSubscription
  <2>2. ASSUME NEW sub, Become(p, [pc |-> "reactivate", sub |-> sub])
        PROVE  \E state : Become(p, state) /\ state.pc # "hook"
    BY <2>2
  <2>3. ASSUME NEW id, NEW seen, Become(p, [pc |-> "lock", location |-> l, id |-> id, seen |-> seen])
        PROVE  \E state : Become(p, state) /\ state.pc # "hook"
    BY <2>3
  <2> QED
    BY <2>1, <2>2, <2>3, Zenon
<1>3. ASSUME NEW l \in Location, RemoveLocation(p, l) PROVE \E state : Become(p, state) /\ state.pc # "hook"
  <2>1. PICK found : Become(p, [pc |-> "removeRecord", location |-> l, found |-> found])
    BY <1>3 DEF RemoveLocation
  <2> QED
    BY <2>1
<1>4. ASSUME NEW id \in Id, NEW immediately \in BOOLEAN, CancelSubscription(p, id, immediately)
      PROVE  \E state : Become(p, state) /\ state.pc # "hook"
  <2>1. \/ Become(p, Idle)
        \/ Become(p, [pc |-> "cancel", id |-> id, sub |-> record[id].sub, immediately |-> immediately])
    BY <1>4 DEF CancelSubscription, ReadToCancel
  <2> QED
    BY <1>1, <2>1
<1>5. CASE AcquireLock(p)
  <2>1. [process[p] EXCEPT !.pc = "stub"].pc = "stub"
    BY <1>5, ProcessCases DEF AcquireLock
  <2>2. Become(p, Idle) \/ Become(p, [process[p] EXCEPT !.pc = "stub"])
    BY <1>5 DEF AcquireLock
  <2> QED
    BY <1>1, <2>1, <2>2
<1>6. CASE CancelInStripe(p)
  <2>1. \/ Become(p, Idle)
        \/ \E id, sub, status, ends :
              Become(p, [pc |-> "saveCancel", id |-> id, sub |-> sub, status |-> status, ends |-> ends])
    BY <1>6 DEF CancelInStripe
  <2>2. ASSUME NEW id, NEW sub, NEW status, NEW ends,
               Become(p, [pc |-> "saveCancel", id |-> id, sub |-> sub, status |-> status, ends |-> ends])
        PROVE  \E state : Become(p, state) /\ state.pc # "hook"
    BY <2>2
  <2> QED
    BY <1>1, <2>1, <2>2, Zenon
<1> QED
  BY <1>2, <1>3, <1>4, <1>5, <1>6 DEF Request

(* A webhook begins with an event of Stripe's; in every other step it goes *)
(* on with that event, or ends.                                            *)
HookStays(q) == Hooked(q) /\ process'[q].event = process[q].event

Begins(p, s, i) ==
    /\ Webhook(p, s) /\ i \in 1..Len(events[s]) /\ UNCHANGED <<stripe, events>>
    /\ Ordered => i = 1 /\ ~Handling(s)
    /\ Hooked(p)' /\ process'[p].event = events[s][i]
    /\ \A q \in Process \ {p} : process'[q] = process[q]

LEMMA WebhookBegins ==
    ASSUME TypeOK, NEW p \in Process, NEW s \in Sub, Webhook(p, s)
    PROVE  UNCHANGED process \/ \E i \in 1..Len(events[s]) : Begins(p, s, i)
<1>1. PICK i \in 1..Len(events[s]) :
         (Ordered => i = 1) /\ (WebhookCreated(p, events[s][i]) \/ WebhookUpdated(p, events[s][i]))
  BY DEF Webhook
<1>2. \/ UNCHANGED process
      \/ \E id, c : Become(p, [pc |-> "hook", id |-> id, event |-> events[s][i], check |-> c]) /\ UNCHANGED events
  BY <1>1 DEF WebhookCreated, WebhookUpdated, Write
<1>3. ASSUME NEW id, NEW c, Become(p, [pc |-> "hook", id |-> id, event |-> events[s][i], check |-> c]),
             UNCHANGED events
      PROVE  Begins(p, s, i)
  <2>1. process'[p] = [pc |-> "hook", id |-> id, event |-> events[s][i], check |-> c]
        /\ \A q \in Process \ {p} : process'[q] = process[q]
    BY <1>3, Becomes
  <2>2. UNCHANGED stripe /\ (Ordered => ~Handling(s))
    BY DEF Webhook
  <2> QED
    BY <1>1, <1>3, <2>1, <2>2 DEF Begins, Hooked
<1> QED
  BY <1>2, <1>3

LEMMA HookMoves ==
    ASSUME TypeOK, [Next]_vars
    PROVE  \/ \A q \in Process : Hooked(q)' => HookStays(q)
           \/ \E p \in Process, s \in Sub : \E i \in 1..Len(events[s]) : Begins(p, s, i)
<1>1. ASSUME NEW p \in Process, NEW state, Become(p, state), state.pc # "hook"
      PROVE  \A q \in Process : Hooked(q)' => HookStays(q)
  BY <1>1, Becomes DEF Hooked, HookStays
<1>2. CASE UNCHANGED process
  BY <1>2 DEF Hooked, HookStays
<1>3. (\E l \in Location : LockExpires(l)) \/ (\E s \in Sub : StripeChanges(s)) \/ UNCHANGED vars => UNCHANGED process
  BY DEF LockExpires, StripeChanges, vars
<1>4. ASSUME NEW p \in Process, Request(p) \/ Step(p) \/ Crash(p), ~ValidateLocationExists(p)
      PROVE  \E state : Become(p, state) /\ state.pc # "hook"
  BY <1>4, UnhookedMoves, OtherMoves DEF Step
<1>5. ASSUME NEW p \in Process, ValidateLocationExists(p) PROVE \A q \in Process : Hooked(q)' => HookStays(q)
  <2> DEFINE checked == [pc |-> "hook", id |-> process[p].id, event |-> process[p].event, check |-> "done"]
  <2>1. Hooked(p) /\ (Become(p, checked) \/ Become(p, Idle)) /\ checked.event = process[p].event
    BY <1>5, Validated DEF Hooked
  <2> HIDE DEF checked
  <2>2. (process'[p] = checked \/ process'[p] = Idle) /\ \A q \in Process \ {p} : process'[q] = process[q]
    BY <2>1, Becomes
  <2>3. Hooked(p)' => HookStays(p)
    BY <2>1, <2>2 DEF Hooked, HookStays, Idle
  <2> QED
    BY <2>2, <2>3 DEF Hooked, HookStays
<1> QED
  BY <1>1, <1>2, <1>3, <1>4, <1>5, WebhookBegins DEF Next

(* An acknowledged event was the first, and nobody else has it.            *)
LEMMA AcknowledgeMoves ==
    ASSUME TypeOK, Facts, InOrder, Ordered, [Next]_vars,
           \/ \E p \in Process : Answered(p)
           \/ \E p \in Process, s \in Sub : \E i \in 1..Len(events[s]) : Dropped(p, s, i)
    PROVE  \E s \in Sub :
              /\ Len(events[s]) # 0 /\ events'[s] = Tail(events[s])
              /\ \A t \in Sub \ {s} : events'[t] = events[t]
              /\ \A q \in Process : Hooked(q)' => process'[q] = process[q] /\ process[q].event.sub # s
<1>1. ASSUME NEW p \in Process, Answered(p)
      PROVE  LET s == process[p].event.sub
             IN  /\ s \in Sub /\ Len(events[s]) # 0 /\ events'[s] = Tail(events[s])
                 /\ \A t \in Sub \ {s} : events'[t] = events[t]
                 /\ \A q \in Process : Hooked(q)' => process'[q] = process[q] /\ process[q].event.sub # s
  <2> DEFINE e == process[p].event
  <2>1. e \in EventType /\ e.sub \in Sub /\ Hooked(p)
    BY <1>1, AnsweredEvent DEF EventType, Answered, WriteFromWebhook, ValidateLocationExists, Hooked
  <2>2. Len(events[e.sub]) # 0 /\ events[e.sub][1] = e
    BY <2>1 DEF InOrder, Heads
  <2>3. process'[p] = Idle /\ \A q \in Process \ {p} : process'[q] = process[q]
    <3>1. Become(p, Idle)
      BY <1>1, Validated DEF Answered, WriteFromWebhook
    <3> QED
      BY <3>1, Becomes
  <2>4. \A q \in Process : Hooked(q)' => process'[q] = process[q] /\ process[q].event.sub # e.sub
    BY <2>1, <2>3 DEF Hooked, Idle, InOrder, HandledOnce
  <2> HIDE DEF e
  <2>5. events'[e.sub] = Tail(events[e.sub]) /\ \A t \in Sub \ {e.sub} : events'[t] = events[t]
    BY <1>1, <2>1, <2>2, ElementsOfRemoveFirst DEF Answered, e
  <2> QED
    BY <2>1, <2>2, <2>4, <2>5 DEF e
<1>2. ASSUME NEW p \in Process, NEW s \in Sub, NEW i \in 1..Len(events[s]), Dropped(p, s, i)
      PROVE  /\ Len(events[s]) # 0 /\ events'[s] = Tail(events[s])
             /\ \A t \in Sub \ {s} : events'[t] = events[t]
             /\ \A q \in Process : Hooked(q)' => process'[q] = process[q] /\ process[q].event.sub # s
  <2>1. i = 1 /\ ~Handling(s) /\ UNCHANGED process /\ Acknowledge(events[s][i])
    BY <1>2 DEF Dropped, Webhook
  <2>2. events[s][i].sub = s /\ Len(events[s]) # 0
    BY DEF Facts, EventsTrue, TypeOK
  <2>3. events'[s] = Tail(events[s]) /\ \A t \in Sub \ {s} : events'[t] = events[t]
    BY <2>1, <2>2, ElementsOfRemoveFirst
  <2>4. \A q \in Process : Hooked(q)' => process'[q] = process[q] /\ process[q].event.sub # s
    BY <2>1 DEF Handling, Hooked
  <2> QED
    BY <2>2, <2>3, <2>4
<1> QED
  BY <1>1, <1>2

LEMMA OrderKept == ASSUME TypeOK, Facts, InOrder, Ordered, [Next]_vars PROVE Heads' /\ HandledOnce'
<1> USE DEF InOrder
<1>0. \A q \in Process : Hooked(q) => process[q].event.sub \in Sub
  BY ProcessCases DEF Hooked, EventType
<1>1. CASE \E p \in Process, s \in Sub : \E i \in 1..Len(events[s]) : Begins(p, s, i)
  <2> PICK p \in Process, s \in Sub : \E i \in 1..Len(events[s]) : Begins(p, s, i)
    BY <1>1
  <2>1. PICK i \in 1..Len(events[s]) : Begins(p, s, i)
    OBVIOUS
  <2>2. i = 1 /\ Len(events[s]) # 0 /\ events[s][1].sub = s
    BY <2>1 DEF Begins, Facts, EventsTrue, TypeOK
  <2>3. Hooked(p)' /\ process'[p].event = events[s][1] /\ UNCHANGED events
    BY <2>1, <2>2 DEF Begins
  <2>4. \A q \in Process \ {p} : Hooked(q)' => process'[q] = process[q] /\ process[q].event.sub # s
    BY <2>1 DEF Begins, Handling, Hooked
  <2> QED
    BY <2>2, <2>3, <2>4 DEF Heads, HandledOnce, Hooked
<1>2. CASE \A q \in Process : Hooked(q)' => HookStays(q)
  <2>1. HandledOnce'
    BY <1>2 DEF HandledOnce, HookStays
  <2>2. Heads'
    <3> SUFFICES ASSUME NEW q \in Process, Hooked(q)'
                 PROVE  LET t == process'[q].event.sub IN Len(events'[t]) # 0 /\ events'[t][1] = process'[q].event
      BY DEF Heads
    <3> DEFINE t == process[q].event.sub
    <3>1. process'[q].event = process[q].event /\ Hooked(q)
      BY <1>2 DEF HookStays
    <3>2. t \in Sub /\ Len(events[t]) # 0 /\ events[t][1] = process[q].event
      BY <1>0, <3>1 DEF Heads
    <3>3. ASSUME Len(events'[t]) # 0, events'[t][1] = events[t][1]
          PROVE  LET u == process'[q].event.sub IN Len(events'[u]) # 0 /\ events'[u][1] = process'[q].event
      BY <3>1, <3>2, <3>3
    <3> HIDE DEF t
    <3>4. CASE events'[t] = events[t]
      BY <3>2, <3>3, <3>4
    <3>5. CASE \/ \E p \in Process : Answered(p)
               \/ \E p \in Process, s \in Sub : \E i \in 1..Len(events[s]) : Dropped(p, s, i)
      BY <3>2, <3>4, <3>5, AcknowledgeMoves DEF t
    <3>6. ASSUME NEW s \in Sub, Reported(s)
          PROVE  LET u == process'[q].event.sub IN Len(events'[u]) # 0 /\ events'[u][1] = process'[q].event
      <4>1. events'[t] = events[t] \/ \E e \in EventType : events'[t] = Append(events[t], e)
        BY <3>2, <3>6, Reports
      <4>2. events[t] \in Seq(EventType)
        BY <3>2 DEF TypeOK
      <4>3. ASSUME NEW e \in EventType, events'[t] = Append(events[t], e)
            PROVE  Len(events'[t]) # 0 /\ events'[t][1] = events[t][1]
        BY <3>2, <4>2, <4>3, AppendProperties
      <4> QED
        BY <3>2, <3>3, <4>1, <4>3
    <3> QED
      BY <3>4, <3>5, <3>6, StripeMoves
  <2> QED
    BY <2>1, <2>2
<1> QED
  BY <1>1, <1>2, HookMoves

LEMMA LastKept == ASSUME TypeOK, Facts, InOrder, Ordered, [Next]_vars PROVE Lasts'
<1> USE DEF InOrder
<1> SUFFICES ASSUME NEW s \in Sub, Len(events'[s]) # 0
             PROVE  Written(events'[s][Len(events'[s])]) = Snapshot(s)'
  BY DEF Lasts
<1>0. events[s] \in Seq(EventType)
  BY DEF TypeOK
<1>1. CASE events'[s] = events[s] /\ stripe'[s] = stripe[s]
  BY <1>1 DEF Lasts, Snapshot
<1>2. CASE UNCHANGED stripe /\ (\/ \E p \in Process : Answered(p)
                                \/ \E p \in Process, t \in Sub : \E i \in 1..Len(events[t]) : Dropped(p, t, i))
  <2>1. CASE events'[s] = Tail(events[s]) /\ Len(events[s]) # 0
    <3>1. events'[s][Len(events'[s])] = events[s][Len(events[s])]
      BY <1>0, <2>1, LastOfTail
    <3>2. Written(events[s][Len(events[s])]) = Snapshot(s)
      BY <2>1 DEF Lasts
    <3> QED
      BY <1>2, <3>1, <3>2 DEF Snapshot
  <2> QED
    BY <1>1, <1>2, <2>1, AcknowledgeMoves
<1>3. ASSUME NEW t \in Sub, Reported(t) PROVE Written(events'[s][Len(events'[s])]) = Snapshot(s)'
  <2>1. CASE t # s \/ UNCHANGED <<stripe, events>>
    BY <1>1, <1>3, <2>1, Reports
  <2>2. ASSUME NEW e \in EventType, events'[s] = Append(events[s], e), e.sub = s, e.location = stripe'[s].location,
               e.status = stripe'[s].status, e.ends = stripe'[s].ends
        PROVE  Written(events'[s][Len(events'[s])]) = Snapshot(s)'
    <3>1. events'[s][Len(events'[s])] = e
      BY <1>0, <2>2
    <3> QED
      BY <2>2, <3>1 DEF Written, Snapshot
  <2> QED
    BY <1>3, <2>1, <2>2, Reports
<1> QED
  BY <1>1, <1>2, <1>3, StripeMoves

LEMMA NextOrder == ASSUME TypeOK, Facts, Ordered => InOrder, [Next]_vars PROVE Ordered => InOrder'
  BY OrderKept, LastKept DEF InOrder

(* A webhook that writes the last event that waits, writes what is so.     *)
LEMMA WritesTheLast ==
    ASSUME TypeOK, Facts, InOrder, NEW p \in Process, WriteFromWebhook(p)
    PROVE  LET e == process[p].event
           IN  /\ e \in EventType /\ e.sub \in Sub /\ Told(stripe, e) /\ UNCHANGED stripe
               /\ Len(events'[e.sub]) # 0 \/ Written(e) = Snapshot(e.sub)
<1> DEFINE e == process[p].event
           q == events[e.sub]
<1>1. e \in EventType /\ e.sub \in Sub /\ Hooked(p) /\ UNCHANGED stripe
  BY WroteEvent DEF EventType, WriteFromWebhook, Hooked
<1>2. Told(stripe, e)
  BY <1>1 DEF Facts, ProcessesTrue, Knows, Hooked
<1>3. Len(q) # 0 /\ q[1] = e /\ q \in Seq(EventType)
  BY <1>1 DEF InOrder, Heads, TypeOK
<1>4. Written(q[Len(q)]) = Snapshot(e.sub)
  BY <1>1, <1>3 DEF InOrder, Lasts
<1> HIDE DEF e
<1>5. CASE events'[e.sub] = q
  BY <1>1, <1>2, <1>3, <1>5 DEF e
<1>6. CASE events'[e.sub] = Tail(q)
  <2> HIDE DEF q
  <2>1. Len(Tail(q)) = Len(q) - 1 /\ Len(q) \in Nat
    BY <1>3, HeadTailProperties
  <2>2. Len(q) = 1 \/ Len(Tail(q)) # 0
    BY <2>1
  <2>3. Len(events'[e.sub]) # 0 \/ Written(e) = Snapshot(e.sub)
    BY <1>3, <1>4, <1>6, <2>2
  <2> QED
    BY <1>1, <1>2, <2>3 DEF e
<1>7. UNCHANGED events \/ (Acknowledge(e) /\ events'[e.sub] = Tail(q))
  BY <1>1, <1>3, WroteEvent, ElementsOfRemoveFirst DEF e
<1> QED
  BY <1>5, <1>6, <1>7

LEMMA CleanBefore ==
    ASSUME TypeOK, [Next]_vars, NEW l, Clean(l)'
    PROVE  Clean(l) /\ l \in Location /\ Fine(l)' /\ Fine(l) /\ "late" \notin excuse'[l]
<1>1. l \in locations /\ l \in Location
  BY LocationsShrink DEF Clean, TypeOK
<1> QED
  BY <1>1, NextGrows DEF Clean, Fine, Grows

(* A record that is not written: the events of its subscription that are   *)
(* dropped leave one, or are not about its location.                       *)
LEMMA MirroredUnwritten ==
    ASSUME TypeOK, Facts, OneEach, OneEach', InOrder, Mirrored, Ordered, [Next]_vars,
           NEW l \in Location, NEW id \in At(l), record'[id] = record[id], NEW s \in Sub, record[id].sub = s,
           Clean(l)'
    PROVE  l = stripe'[s].location /\ (record[id] = Snapshot(s)' \/ Len(events'[s]) # 0)
<1>0. Clean(l) /\ l \in Location /\ Fine(l)' /\ Fine(l)
  BY CleanBefore
<1>1. l = stripe[s].location /\ (record[id] = Snapshot(s) \/ Len(events[s]) # 0)
      /\ id \in Id /\ Known(id) /\ record[id].location = l
  BY <1>0 DEF Mirrored, At
<1>2. l = stripe'[s].location
  BY <1>1, StripeKeeps DEF Keeps, Facts, RecordsTrue, Past
<1> SUFFICES record[id] = Snapshot(s)' \/ Len(events'[s]) # 0
  BY <1>2
<1>4. CASE stripe'[s] = stripe[s] /\ events'[s] = events[s]
  BY <1>1, <1>4 DEF Snapshot
<1>5. ASSUME NEW t \in Sub, Reported(t) PROVE record[id] = Snapshot(s)' \/ Len(events'[s]) # 0
  <2>1. CASE t # s \/ UNCHANGED <<stripe, events>>
    BY <1>4, <1>5, <2>1, Reports
  <2>2. ASSUME NEW e \in EventType, events'[s] = Append(events[s], e) PROVE Len(events'[s]) # 0
    <3>1. events[s] \in Seq(EventType)
      BY DEF TypeOK
    <3> QED
      BY <2>2, <3>1
  <2> QED
    BY <1>5, <2>1, <2>2, Reports
<1>6. ASSUME NEW p \in Process, WriteFromWebhook(p), Acknowledge(process[p].event)
      PROVE  record[id] = Snapshot(s)' \/ Len(events'[s]) # 0
  <2> DEFINE e == process[p].event
  <2>1. e \in EventType /\ e.sub \in Sub /\ Told(stripe, e) /\ UNCHANGED stripe
        /\ (Len(events'[e.sub]) # 0 \/ Written(e) = Snapshot(e.sub))
    BY <1>6, WritesTheLast
  <2> HIDE DEF e
  <2>2. CASE e.sub # s
    BY <1>4, <1>6, <2>1, <2>2, ElementsOfRemoveFirst DEF e
  <2>3. CASE e.sub = s /\ Written(e) = Snapshot(s)
    <3>1. e.location = l /\ l \in locations
      BY <1>0, <1>1, <2>1, <2>3 DEF Told, Clean
    <3>2. process[p].id \in Id /\ Put(process[p].id, Written(e))
      BY <1>6, <3>1, WroteEvent DEF e
    <3>3. Written(e) \in RecordType /\ Written(e).status # "none" /\ Written(e).location = l
      BY <2>1, <3>1, WrittenIsRow DEF Billed, Written
    <3>4. record'[process[p].id] = Written(e)
      BY <3>2, <3>3, PutKeeps
    <3>5. process[p].id \in At(l)' /\ id \in At(l)'
      BY <1>1, <3>2, <3>3, <3>4 DEF At, Known
    <3>6. process[p].id = id
      BY <1>0, <3>5 DEF OneEach, OneAt
    <3> QED
      BY <1>6, <2>1, <2>3, <3>4, <3>6 DEF Snapshot
  <2> QED
    BY <2>1, <2>2, <2>3
<1>7. ASSUME NEW p \in Process, NEW t \in Sub, NEW i \in 1..Len(events[t]), Dropped(p, t, i)
      PROVE  stripe'[s] = stripe[s] /\ events'[s] = events[s]
  <2> DEFINE e == events[t][i]
  <2>1. e \in EventType /\ e.sub = t /\ Told(stripe, e)
    BY ElementOfSeq DEF TypeOK, Facts, EventsTrue
  <2>2. Webhook(p, t) /\ WebhookUpdated(p, e) /\ Acknowledge(e) /\ UNCHANGED process
    BY <1>7 DEF Dropped
  <2> HIDE DEF e
  <2>3. UNCHANGED stripe /\ process[p].pc = "idle"
    BY <2>2 DEF Webhook
  <2>4. CASE t # s
    BY <2>1, <2>2, <2>3, <2>4, ElementsOfRemoveFirst
  <2>5. CASE t = s
    <3>1. e.location = l
      BY <1>1, <2>1, <2>5 DEF Told
    <3>2. ASSUME NEW j, Write(p, j, e) PROVE FALSE
      <4>1. PICK c : Become(p, [pc |-> "hook", id |-> j, event |-> e, check |-> c])
        BY <3>2 DEF Write
      <4>2. process'[p] = [pc |-> "hook", id |-> j, event |-> e, check |-> c]
        BY <4>1, Becomes
      <4> QED
        BY <2>2, <2>3, <4>2
    <3>3. \E j \in At(l) : IsDuplicate(record[j], e)
      BY <1>1, <2>2, <3>1, <3>2 DEF WebhookUpdated
    <3>4. IsDuplicate(record[id], e)
      BY <1>0, <1>1, <3>3 DEF OneEach, OneAt
    <3> QED
      BY <2>1, <2>5, <3>4 DEF IsDuplicate
  <2> QED
    BY <2>4, <2>5
<1>8. CASE \E p \in Process, t \in Sub : \E i \in 1..Len(events[t]) : Dropped(p, t, i)
  BY <1>4, <1>7, <1>8
<1>9. ASSUME NEW p \in Process, ValidateLocationExists(p), process[p].event.location \notin locations,
             Acknowledge(process[p].event), UNCHANGED stripe
      PROVE  stripe'[s] = stripe[s] /\ events'[s] = events[s]
  <2> DEFINE e == process[p].event
  <2>1. e \in EventType /\ e.sub \in Sub /\ Told(stripe, e)
    BY <1>9, Validated DEF EventType, Facts, ProcessesTrue, Knows
  <2>2. e.sub # s
    BY <1>0, <1>1, <1>9, <2>1 DEF Told, Clean
  <2> HIDE DEF e
  <2> QED
    BY <1>9, <2>1, <2>2, ElementsOfRemoveFirst DEF e
<1> QED
  BY <1>4, <1>5, <1>6, <1>8, <1>9, StripeMoves DEF Answered

LEMMA MirroredWritten ==
    ASSUME TypeOK, Facts, OneEach, InOrder, Mirrored, Ordered, [Next]_vars,
           NEW id \in Id, record'[id] # record[id], NEW l \in Location, record'[id].location = l,
           NEW s \in Sub, record'[id].sub = s, Clean(l)'
    PROVE  l = stripe'[s].location /\ (record'[id] = Snapshot(s)' \/ Len(events'[s]) # 0)
<1> DEFINE Goal == l = stripe'[s].location /\ (record'[id] = Snapshot(s)' \/ Len(events'[s]) # 0)
<1>1. ASSUME NEW j \in Id, NEW row \in RecordType, row.status # "none", Put(j, row)
      PROVE  j = id /\ record'[id] = row
  BY <1>1, PutKeeps
<1>2. ASSUME NEW p \in Process, PutStub(p) PROVE FALSE
  <2> DEFINE row == [location |-> process[p].location, sub |-> Unknown, status |-> "_PENDING_", ends |-> FALSE]
  <2>1. process[p].id \in Id /\ row \in RecordType /\ row.status # "none" /\ Put(process[p].id, row) /\ row.sub = Unknown
    BY <1>2, StubPut
  <2> HIDE DEF row
  <2>2. record'[id] = row
    BY <1>1, <2>1
  <2> QED
    BY <2>1, <2>2, SubscriptionAssumption
<1>3. ASSUME NEW p \in Process, SaveCanceled(p) PROVE Goal
  <2> DEFINE q == process[p]
             row == [location |-> record[q.id].location, sub |-> q.sub, status |-> q.status, ends |-> q.ends]
  <2>1. q.id \in Id /\ Known(q.id) /\ row \in RecordType /\ row.status # "none" /\ Put(q.id, row)
        /\ row.sub = q.sub /\ row.location = record[q.id].location
    BY <1>3, Saved DEF Billed
  <2> HIDE DEF row
  <2>2. q.id = id /\ record'[id] = row
    BY <1>1, <2>1
  <2>3. q.sub = s /\ id \in At(l) /\ record[id].location = l /\ UNCHANGED stripe
    BY <1>3, <2>1, <2>2 DEF At, SaveCanceled
  <2>4. Clean(l) /\ "late" \notin excuse'[l]
    BY CleanBefore
  <2>5. /\ record[id].sub = s
        /\ q.status = stripe[s].status /\ q.ends = stripe[s].ends
    <3> SUFFICES ASSUME \/ record[id].sub # q.sub
                        \/ <<q.status, q.ends>> # <<stripe[q.sub].status, stripe[q.sub].ends>>
                 PROVE  FALSE
      BY <2>3
    <3>1. Excuse({l}, "late")
      BY <1>3, <2>2, <2>3 DEF SaveCanceled, ExcuseIf
    <3> QED
      BY <2>4, <3>1 DEF Excuse
  <2>6. l = stripe[s].location
    BY <2>3, <2>4, <2>5 DEF Mirrored
  <2>7. row = Snapshot(s)
    BY <2>2, <2>3, <2>5, <2>6 DEF row, Snapshot
  <2>8. Snapshot(s)' = Snapshot(s)
    BY <2>3 DEF Snapshot
  <2> QED
    BY <2>2, <2>3, <2>6, <2>7, <2>8
<1>4. ASSUME NEW p \in Process, WriteFromWebhook(p) PROVE Goal
  <2> DEFINE e == process[p].event
  <2>1. e \in EventType /\ e.sub \in Sub /\ Told(stripe, e) /\ UNCHANGED stripe
        /\ (Len(events'[e.sub]) # 0 \/ Written(e) = Snapshot(e.sub))
    BY <1>4, WritesTheLast
  <2>2. process[p].id \in Id /\ Put(process[p].id, Written(e))
    BY <1>4, WroteEvent
  <2> HIDE DEF e
  <2>3. Written(e) \in RecordType /\ Written(e).status # "none"
        /\ Written(e).location = e.location /\ Written(e).sub = e.sub
    BY <2>1, WrittenIsRow DEF Billed, Written
  <2>4. record'[id] = Written(e)
    BY <1>1, <2>2, <2>3
  <2>5. e.sub = s /\ e.location = l /\ Snapshot(s)' = Snapshot(s)
    BY <2>1, <2>3, <2>4 DEF Snapshot
  <2> QED
    BY <2>1, <2>4, <2>5 DEF Told
<1> QED
  BY <1>2, <1>3, <1>4, RecordMoves

LEMMA NextMirrored ==
    ASSUME TypeOK, Facts, OneEach, OneEach', Ordered => InOrder /\ Mirrored, [Next]_vars
    PROVE  Ordered => Mirrored'
<1> SUFFICES ASSUME Ordered, NEW id \in Id, NEW s \in Sub, NEW l \in Location,
                    id \in At(l)', record'[id].sub = s, Clean(l)'
             PROVE  l = stripe'[s].location /\ (record'[id] = Snapshot(s)' \/ Len(events'[s]) # 0)
  BY DEF Mirrored
<1>1. record'[id].location = l
  BY DEF At
<1>2. CASE record'[id] = record[id]
  <2>1. id \in At(l)
    BY <1>2 DEF At, Known
  <2> QED
    BY <1>2, <2>1, MirroredUnwritten
<1>3. CASE record'[id] # record[id]
  BY <1>1, <1>3, MirroredWritten
<1> QED
  BY <1>2, <1>3

LEMMA InitMirror == Init => InOrder /\ Mirrored
  BY DEF Init, InOrder, Heads, HandledOnce, Lasts, Hooked, Mirrored, At, Known, Nothing, Idle

LEMMA NextMirror ==
    TypeOK /\ Facts /\ OneEach /\ OneEach' /\ (Ordered => InOrder /\ Mirrored) /\ [Next]_vars
        => (Ordered => InOrder /\ Mirrored)'
  BY NextOrder, NextMirrored

THEOREM MirrorInvariant == Spec => [](Ordered => InOrder /\ Mirrored)
<1>1. Init => (Ordered => InOrder /\ Mirrored)
  BY InitMirror
<1> QED
  BY <1>1, InitType, NextType, InitFacts, NextFacts, InitOne, NextOne, NextMirror, PTL DEF Spec

(* If Stripe sends the events of a subscription in order, perhaps more     *)
(* than once, a record ends with the status and the cancellation that its  *)
(* subscription has in Stripe, with the exceptions RecordMirrorsStripe     *)
(* names, for any number of locations, webhooks and requests.              *)
THEOREM MirrorTheorem == Spec => [](Ordered => RecordMirrorsStripe)
<1>1. TypeOK /\ (Ordered => InOrder /\ Mirrored) => (Ordered => RecordMirrorsStripe)
  <2> SUFFICES ASSUME TypeOK, Mirrored, Settled,
                      NEW id \in Id, Known(id), record[id].sub \in Sub, Clean(record[id].location)
               PROVE  record[id] = Snapshot(record[id].sub)
    BY DEF RecordMirrorsStripe, Clean
  <2>1. events[record[id].sub] = <<>> /\ id \in At(record[id].location) /\ record[id].location \in Location
    BY DEF Settled, At, Clean, TypeOK
  <2> QED
    BY <2>1 DEF Mirrored
<1> QED
  BY <1>1, TypeCorrect, MirrorInvariant, PTL

-----------------------------------------------------------------------------
(* Removing a location.  A record of a location that is gone is of a       *)
(* subscription that has ended, or that a removal is about to end.         *)
Single ==
    \A p \in Process : process[p].pc \in {"removeRecord", "removeCancel"} =>
        \A i, j \in process[p].found : i = j

Ending(p, id, s) ==
    \/ process[p].pc = "removeCancel" /\ id \in process[p].found
    \/ process[p].pc = "cancel" /\ process[p].sub = s /\ process[p].immediately

Gone(l) == l \notin locations /\ excuse[l] \cap {"overlap", "late", "gone"} = {}

(* A webhook that has checked its location is about a record that is there *)
(* and a location that is, too, or whose removal met it.                   *)
Checked ==
    \A p \in Process : Hooked(p) /\ process[p].check # "none" =>
        LET l == process[p].event.location
        IN  /\ Known(process[p].id)
            /\ process[p].check = "done" /\ l \notin locations => "crossed" \in excuse[l]

EndsWithLocation ==
    failures = 0 => \A id \in Id, s \in Sub, l \in Location :
        id \in At(l) /\ record[id].sub = s /\ Gone(l) => ~Live(s) \/ \E p \in Process : Ending(p, id, s)

(* A process goes on by a step of its own.                                 *)
LEMMA OwnStep ==
    ASSUME TypeOK, [Next]_vars, NEW p \in Process, process'[p] # process[p]
    PROVE  Request(p) \/ (\E s \in Sub : Webhook(p, s)) \/ Step(p) \/ Crash(p)
<1>1. ASSUME NEW q \in Process, Request(q) \/ Step(q) \/ Crash(q) PROVE q = p
  <2>1. \E state : Become(q, state)
    BY <1>1, UnhookedMoves, OtherMoves, Validated DEF Step
  <2> QED
    BY <2>1, Becomes
<1>2. ASSUME NEW q \in Process, NEW s \in Sub, Webhook(q, s) PROVE q = p
  BY <1>2, WebhookBegins DEF Begins
<1>3. (\E l \in Location : LockExpires(l)) \/ (\E s \in Sub : StripeChanges(s)) \/ UNCHANGED vars => UNCHANGED process
  BY DEF LockExpires, StripeChanges, vars
<1> QED
  BY <1>1, <1>2, <1>3 DEF Next

LEMMA NextSingle == ASSUME TypeOK, Single, [Next]_vars PROVE Single'
<1> SUFFICES ASSUME NEW p \in Process, process'[p].pc \in {"removeRecord", "removeCancel"}
             PROVE  \A i, j \in process'[p].found : i = j
  BY DEF Single
<1>1. CASE process'[p] = process[p]
  BY <1>1 DEF Single
<1>2. ASSUME NEW l \in Location, RemoveLocation(p, l) PROVE \A i, j \in process'[p].found : i = j
  <2>1. \/ Become(p, [pc |-> "removeRecord", location |-> l, found |-> {}])
        \/ \E id \in At(l) : Become(p, [pc |-> "removeRecord", location |-> l, found |-> {id}])
    BY <1>2 DEF RemoveLocation
  <2>2. ASSUME NEW found, Become(p, [pc |-> "removeRecord", location |-> l, found |-> found])
        PROVE  process'[p].found = found
    BY <2>2, Becomes
  <2> QED
    BY <2>1, <2>2
<1>3. CASE RemoveLocationRecord(p)
  <2>1. process[p].pc = "removeRecord"
        /\ (Become(p, Idle) \/ Become(p, [process[p] EXCEPT !.pc = "removeCancel"]))
    BY <1>3 DEF RemoveLocationRecord
  <2>2. process'[p] = Idle \/ process'[p] = [process[p] EXCEPT !.pc = "removeCancel"]
    BY <2>1, Becomes
  <2>3. process'[p].found = process[p].found
    BY <2>1, <2>2, ProcessCases DEF Idle
  <2> QED
    BY <2>1, <2>3 DEF Single
<1>4. ASSUME NEW state, Become(p, state), state.pc \notin {"removeRecord", "removeCancel"} PROVE FALSE
  BY <1>4, Becomes
<1>5. Idle.pc = "idle"
  BY DEF Idle
<1>6. ASSUME NEW l \in Location, CreateSubscription(p, l) PROVE FALSE
  <2>1. ASSUME NEW sub, Become(p, [pc |-> "reactivate", sub |-> sub]) PROVE FALSE
    BY <1>4, <2>1
  <2>2. ASSUME NEW id, NEW seen, Become(p, [pc |-> "lock", location |-> l, id |-> id, seen |-> seen]) PROVE FALSE
    BY <1>4, <2>2
  <2> QED
    BY <1>6, <2>1, <2>2 DEF CreateSubscription
<1>7. ASSUME NEW id, NEW immediately, ReadToCancel(p, id, immediately) PROVE FALSE
  <2>1. \/ Become(p, Idle)
        \/ Become(p, [pc |-> "cancel", id |-> id, sub |-> record[id].sub, immediately |-> immediately])
    BY <1>7 DEF ReadToCancel
  <2> QED
    BY <1>4, <1>5, <2>1
<1>8. ~AcquireLock(p) /\ ~CreateInStripe(p)
  <2>1. ASSUME NEW pc, Become(p, [process[p] EXCEPT !.pc = pc]),
               process[p].pc \in {"lock", "provider"}, pc \notin {"removeRecord", "removeCancel"}
        PROVE  FALSE
    <3>1. [process[p] EXCEPT !.pc = pc].pc = pc
      BY <2>1, ProcessCases
    <3> QED
      BY <1>4, <2>1, <3>1
  <2> QED
    BY <1>4, <1>5, <2>1 DEF AcquireLock, CreateInStripe
<1>9. ~PutStub(p) /\ ~ReleaseLock(p) /\ ~Reactivate(p) /\ ~SaveCanceled(p) /\ ~WriteFromWebhook(p) /\ ~Crash(p)
  BY <1>4, <1>5 DEF PutStub, ReleaseLock, Reactivate, SaveCanceled, WriteFromWebhook, Crash
<1>12. ~ValidateLocationExists(p)
  <2>1. ASSUME NEW id, NEW e, NEW c, Become(p, [pc |-> "hook", id |-> id, event |-> e, check |-> c]) PROVE FALSE
    BY <1>4, <2>1
  <2> QED
    BY <1>4, <1>5, <2>1, Validated
<1>10. ~CancelInStripe(p)
  <2>1. ASSUME NEW id, NEW sub, NEW status, NEW ends,
               Become(p, [pc |-> "saveCancel", id |-> id, sub |-> sub, status |-> status, ends |-> ends])
        PROVE  FALSE
    BY <1>4, <2>1
  <2> QED
    BY <1>4, <1>5, <2>1 DEF CancelInStripe
<1>11. ASSUME NEW s \in Sub, Webhook(p, s) PROVE process'[p] = process[p]
  BY <1>11, WebhookBegins DEF Begins, Hooked
<1> QED
  BY <1>1, <1>2, <1>3, <1>6, <1>7, <1>8, <1>9, <1>10, <1>11, <1>12, OwnStep
  DEF Request, CancelSubscription, CancelRemoved, Step

LEMMA NothingFails ==
    ASSUME TypeOK, [Next]_vars, failures' = 0
    PROVE  failures = 0 /\ \A p \in Process : ~Crash(p)
<1>1. failures \in Nat
  BY DEF TypeOK
<1>2. ASSUME NEW p \in Process, Crash(p) PROVE FALSE
  BY <1>1, <1>2 DEF Crash
<1>3. ASSUME NEW l \in Location, LockExpires(l) PROVE FALSE
  BY <1>1, <1>3 DEF LockExpires
<1>4. ASSUME NEW p \in Process, Request(p) \/ (\E s \in Sub : Webhook(p, s)) PROVE UNCHANGED failures
  BY <1>4 DEF Request, CreateSubscription, RemoveLocation, CancelSubscription, Webhook
<1>5. ASSUME NEW p \in Process, Step(p) PROVE UNCHANGED failures
  BY <1>5 DEF Step, AcquireLock, PutStub, CreateInStripe, ReleaseLock, Reactivate, CancelInStripe, SaveCanceled,
              RemoveLocationRecord, CancelRemoved, ValidateLocationExists, WriteFromWebhook
<1>6. (\E s \in Sub : StripeChanges(s)) \/ UNCHANGED vars => UNCHANGED failures
  BY DEF StripeChanges, vars
<1> QED
  BY <1>2, <1>3, <1>4, <1>5, <1>6 DEF Next

(* No webhook brings a record to a location that is gone, and none names   *)
(* another subscription there, without leaving an excuse.                  *)
LEMMA GoneRecord ==
    ASSUME TypeOK, Facts, Checked, [Next]_vars, NEW id \in Id, NEW s \in Sub, NEW l \in Location,
           id \in At(l)', record'[id].sub = s, Gone(l)'
    PROVE  id \in At(l) /\ record[id].sub = s
<1>0. Known(id)' /\ record'[id].location = l
  BY DEF At
<1>1. CASE record'[id] = record[id]
  BY <1>0, <1>1 DEF At, Known
<1>2. ASSUME NEW j \in Id, NEW row \in RecordType, row.status # "none", Put(j, row), record'[id] # record[id]
      PROVE  j = id /\ record'[id] = row
  BY <1>2, PutKeeps
<1>3. ASSUME NEW p \in Process, PutStub(p), record'[id] # record[id] PROVE FALSE
  <2> DEFINE row == [location |-> process[p].location, sub |-> Unknown, status |-> "_PENDING_", ends |-> FALSE]
  <2>1. process[p].id \in Id /\ row \in RecordType /\ row.status # "none" /\ Put(process[p].id, row) /\ row.sub = Unknown
    BY <1>3, StubPut
  <2> HIDE DEF row
  <2>2. record'[id] = row
    BY <1>2, <1>3, <2>1
  <2> QED
    BY <2>1, <2>2, SubscriptionAssumption
<1>4. ASSUME NEW p \in Process, SaveCanceled(p), record'[id] # record[id] PROVE id \in At(l) /\ record[id].sub = s
  <2> DEFINE q == process[p]
             row == [location |-> record[q.id].location, sub |-> q.sub, status |-> q.status, ends |-> q.ends]
  <2>1. q.id \in Id /\ Known(q.id) /\ row \in RecordType /\ row.status # "none" /\ Put(q.id, row)
        /\ row.sub = q.sub /\ row.location = record[q.id].location
    BY <1>4, Saved DEF Billed
  <2> HIDE DEF row
  <2>2. q.id = id /\ record'[id] = row
    BY <1>2, <1>4, <2>1
  <2>3. q.sub = s /\ record[id].location = l /\ Known(id)
    BY <1>0, <2>1, <2>2
  <2>4. record[id].sub = s
    <3> SUFFICES ASSUME record[id].sub # q.sub PROVE FALSE
      BY <2>3
    <3>1. Excuse({l}, "late")
      BY <1>4, <2>2, <2>3 DEF SaveCanceled, ExcuseIf
    <3> QED
      BY <3>1 DEF Excuse, Gone
  <2> QED
    BY <2>3, <2>4 DEF At
<1>5. ASSUME NEW p \in Process, WriteFromWebhook(p), record'[id] # record[id] PROVE id \in At(l) /\ record[id].sub = s
  <2> DEFINE e == process[p].event
  <2>1. process[p].id \in Id /\ e \in EventType /\ Put(process[p].id, Written(e))
    BY <1>5, WroteEvent
  <2>2. Written(e) \in RecordType /\ Written(e).status # "none"
        /\ Written(e).location = e.location /\ Written(e).sub = e.sub
    BY <2>1, WrittenIsRow DEF Billed, Written
  <2>3. process[p].id = id /\ record'[id] = Written(e)
    BY <1>2, <1>5, <2>1, <2>2
  <2>4. e.location = l /\ l \notin locations /\ e.sub = s
    BY <1>0, <1>5, <2>2, <2>3 DEF WriteFromWebhook, Gone
  <2>5. process[p].check \in Check /\ process[p].check # "due" /\ Hooked(p)
    BY <1>5, ProcessCases DEF WriteFromWebhook, Hooked
  <2>6. "gone" \notin excuse'[l]
    BY DEF Gone
  <2>7. process[p].check # "none" /\ ("crossed" \in excuse[l] => <<record[id].location, record[id].sub>> = <<l, s>>)
    BY <1>5, <2>3, <2>4, <2>6 DEF WriteFromWebhook
  <2>8. Known(id) /\ "crossed" \in excuse[l]
    BY <2>3, <2>4, <2>5, <2>7 DEF Checked, Check
  <2> QED
    BY <2>7, <2>8 DEF At
<1> QED
  BY <1>1, <1>3, <1>4, <1>5, RecordMoves

LEMMA RecordsStay == ASSUME TypeOK, [Next]_vars PROVE KnownStays
<1>1. CASE UNCHANGED record
  BY <1>1 DEF KnownStays, Known
<1>2. ASSUME NEW p \in Process, PutStub(p) PROVE KnownStays
  BY <1>2, StubPut, PutKeeps
<1>3. ASSUME NEW p \in Process, SaveCanceled(p) PROVE KnownStays
  BY <1>3, Saved, PutKeeps DEF Billed
<1>4. ASSUME NEW p \in Process, WriteFromWebhook(p) PROVE KnownStays
  BY <1>4, WroteEvent, WrittenIsRow, PutKeeps DEF Billed
<1> QED
  BY <1>1, <1>2, <1>3, <1>4, RecordMoves

(* Only a removal takes a location away.                                   *)
LEMMA RemovedBy ==
    ASSUME [Next]_vars, NEW l, l \in locations, l \notin locations'
    PROVE  \E p \in Process : RemoveLocationRecord(p) /\ process[p].location = l
<1>1. ASSUME NEW p \in Process, Request(p) \/ Crash(p) PROVE UNCHANGED locations
  BY <1>1 DEF Request, CreateSubscription, RemoveLocation, CancelSubscription, Crash
<1>2. ASSUME NEW p \in Process,
             \/ AcquireLock(p) \/ PutStub(p) \/ CreateInStripe(p) \/ ReleaseLock(p) \/ Reactivate(p)
             \/ CancelInStripe(p) \/ SaveCanceled(p) \/ CancelRemoved(p)
             \/ ValidateLocationExists(p) \/ WriteFromWebhook(p)
      PROVE  UNCHANGED locations
  BY <1>2 DEF AcquireLock, PutStub, CreateInStripe, ReleaseLock, Reactivate, CancelInStripe, SaveCanceled,
              CancelRemoved, ValidateLocationExists, WriteFromWebhook
<1>3. (\E p \in Process, s \in Sub : Webhook(p, s)) \/ (\E k \in Location : LockExpires(k))
      \/ (\E s \in Sub : StripeChanges(s)) \/ UNCHANGED vars => UNCHANGED locations
  BY DEF Webhook, LockExpires, StripeChanges, vars
<1>4. ASSUME NEW p \in Process, RemoveLocationRecord(p) PROVE process[p].location = l
  BY <1>4 DEF RemoveLocationRecord
<1> QED
  BY <1>1, <1>2, <1>3, <1>4 DEF Next, Step

LEMMA NextChecked == ASSUME TypeOK, Checked, [Next]_vars PROVE Checked'
<1> SUFFICES ASSUME NEW p \in Process, Hooked(p)', process'[p].check # "none"
             PROVE  LET l == process'[p].event.location
                    IN  /\ record'[process'[p].id].status # "none"
                        /\ process'[p].check = "done" /\ l \notin locations' => "crossed" \in excuse'[l]
  BY DEF Checked, Known, Hooked
<1>1. CASE process'[p] = process[p]
  <2> DEFINE l == process[p].event.location
  <2>1. process[p].id \in Id /\ l \in Location /\ Hooked(p)
    BY <1>1, ProcessCases DEF Hooked, EventType
  <2>2. record'[process[p].id].status # "none"
    BY <1>1, <2>1, RecordsStay DEF Checked, KnownStays, Known
  <2>3. ASSUME process[p].check = "done", l \notin locations' PROVE "crossed" \in excuse'[l]
    <3>1. CASE l \notin locations
      BY <2>1, <2>3, <3>1, NextGrows DEF Checked, Grows
    <3>2. CASE l \in locations
      <4>1. PICK q \in Process : RemoveLocationRecord(q) /\ process[q].location = l
        BY <2>3, <3>2, RemovedBy
      <4>2. Crossing(l)
        BY <2>1, <2>3 DEF Crossing, Hooked
      <4> QED
        BY <2>1, <4>1, <4>2 DEF RemoveLocationRecord
    <3> QED
      BY <3>1, <3>2
  <2> QED
    BY <1>1, <2>2, <2>3
<1>2. CASE ValidateLocationExists(p)
  <2> DEFINE q == process[p]
             checked == [pc |-> "hook", id |-> q.id, event |-> q.event, check |-> "done"]
  <2>1. /\ Hooked(p) /\ q.check = "due" /\ UNCHANGED <<record, locations>>
        /\ (q.event.location \in locations /\ Become(p, checked)) \/ Become(p, Idle)
    BY <1>2, Validated DEF Hooked
  <2>2. q.event.location \in locations /\ process'[p] = checked
    BY <2>1, Becomes DEF Hooked, Idle
  <2>3. record'[q.id].status # "none"
    BY <2>1 DEF Checked, Known
  <2> QED
    BY <2>1, <2>2, <2>3
<1>3. ASSUME NEW s \in Sub, Webhook(p, s), process'[p] # process[p]
      PROVE  record'[process'[p].id].status # "none" /\ process'[p].check # "done"
  <2>1. PICK i \in 1..Len(events[s]) : WebhookCreated(p, events[s][i]) \/ WebhookUpdated(p, events[s][i])
    BY <1>3 DEF Webhook
  <2>2. PICK id : Write(p, id, events[s][i])
    BY <1>3, <2>1 DEF WebhookCreated, WebhookUpdated
  <2>3. process'[p] = [pc |-> "hook", id |-> id, event |-> events[s][i],
                       check |-> IF Known(id) THEN "due" ELSE "none"]
    BY <2>2, Becomes DEF Write
  <2>4. Known(id) /\ UNCHANGED record
    BY <1>3, <2>3 DEF Webhook
  <2> QED
    BY <2>3, <2>4 DEF Known
<1>4. ASSUME NEW state, Become(p, state), state.pc # "hook" PROVE FALSE
  BY <1>4, Becomes DEF Hooked
<1> QED
  BY <1>1, <1>2, <1>3, <1>4, OwnStep, UnhookedMoves, OtherMoves DEF Step

(* Whoever removes the location goes on to cancel what its record names.   *)
LEMMA RemovalGoesOn ==
    ASSUME TypeOK, [Next]_vars, NEW id \in Id, NEW l \in Location, id \in At(l), l \in locations, Gone(l)'
    PROVE  \E p \in Process : process'[p].pc = "removeCancel" /\ id \in process'[p].found
<1>1. PICK p \in Process : RemoveLocationRecord(p)
  BY RemovedBy DEF Gone
<1> DEFINE q == process[p]
           state == [q EXCEPT !.pc = "removeCancel"]
<1>2. q.location = l
  BY <1>1 DEF RemoveLocationRecord, Gone
<1>3. At(l) = q.found
  <2> SUFFICES ASSUME At(l) # q.found PROVE FALSE
    OBVIOUS
  <2>1. "overlap" \in excuse'[l]
    BY <1>1, <1>2 DEF RemoveLocationRecord
  <2> QED
    BY <2>1 DEF Gone
<1>4. Become(p, state)
  BY <1>1, <1>2, <1>3 DEF RemoveLocationRecord
<1>5. state.pc = "removeCancel" /\ state.found = q.found
  BY <1>1, ProcessCases DEF RemoveLocationRecord
<1>6. process'[p] = state
  BY <1>4, Becomes
<1> QED
  BY <1>3, <1>5, <1>6

(* The cancellation under way goes on, until the subscription has ended.   *)
LEMMA EndingGoesOn ==
    ASSUME TypeOK, Facts, Single, [Next]_vars, failures' = 0, NEW id \in Id, Known(id), NEW s \in Sub,
           record[id].sub = s, NEW p \in Process, Ending(p, id, s)
    PROVE  ~Live(s)' \/ Ending(p, id, s)'
<1>1. CASE process'[p] = process[p]
  BY <1>1 DEF Ending
<1>2. CASE CancelRemoved(p)
  <2>1. id \in process[p].found /\ ReadToCancel(p, id, TRUE) /\ UNCHANGED stripe
    BY <1>2 DEF CancelRemoved, Ending, Single
  <2>2. CASE record[id].status = "canceled"
    BY <2>1, <2>2 DEF Facts, RecordsTrue, Past, Live
  <2>3. CASE record[id].status # "canceled"
    <3>1. Become(p, [pc |-> "cancel", id |-> id, sub |-> s, immediately |-> TRUE])
      BY <2>1, <2>3 DEF ReadToCancel
    <3>2. process'[p] = [pc |-> "cancel", id |-> id, sub |-> s, immediately |-> TRUE]
      BY <3>1, Becomes
    <3> QED
      BY <3>2 DEF Ending
  <2> QED
    BY <2>2, <2>3
<1>3. CASE CancelInStripe(p)
  <2>1. process[p].sub = s /\ process[p].immediately
    BY <1>3 DEF CancelInStripe, Ending
  <2>2. CASE Live(s)
    <3>1. Report(s, [stripe[s] EXCEPT !.status = "canceled"], "deleted")
      BY <1>3, <2>1, <2>2 DEF CancelInStripe
    <3>2. stripe'[s] = [stripe[s] EXCEPT !.status = "canceled"] /\ stripe[s] \in BilledType
      BY <2>2, <3>1, LiveIsBilled DEF Report, TypeOK, Live
    <3> QED
      BY <3>2 DEF Live, BilledType
  <2>3. CASE ~Live(s)
    BY <1>3, <2>1, <2>3 DEF CancelInStripe, Live
  <2> QED
    BY <2>2, <2>3
<1>4. ~Crash(p)
  BY NothingFails
<1>5. process[p].pc \in {"removeCancel", "cancel"}
  BY DEF Ending
<1> QED
  BY <1>1, <1>2, <1>3, <1>4, <1>5, OwnStep
  DEF Request, CreateSubscription, RemoveLocation, CancelSubscription, Webhook, Step, AcquireLock, PutStub,
      CreateInStripe, ReleaseLock, Reactivate, SaveCanceled, RemoveLocationRecord, ValidateLocationExists,
      WriteFromWebhook

LEMMA NextEnds == TypeOK /\ Facts /\ Checked /\ Single /\ EndsWithLocation /\ [Next]_vars => EndsWithLocation'
<1> SUFFICES ASSUME TypeOK, Facts, Checked, Single, EndsWithLocation, [Next]_vars, failures' = 0,
                    NEW id \in Id, NEW s \in Sub, NEW l \in Location, id \in At(l)', record'[id].sub = s, Gone(l)'
             PROVE  ~Live(s)' \/ \E p \in Process : Ending(p, id, s)'
  BY DEF EndsWithLocation
<1>1. id \in At(l) /\ record[id].sub = s /\ Known(id)
  BY GoneRecord DEF At
<1>2. CASE l \in locations
  BY <1>1, <1>2, RemovalGoesOn DEF Ending
<1>3. CASE l \notin locations
  <2>1. Gone(l)
    BY <1>3, NextGrows DEF Gone, Grows
  <2>2. ~Live(s) \/ \E p \in Process : Ending(p, id, s)
    BY <1>1, <2>1, NothingFails DEF EndsWithLocation
  <2>3. CASE ~Live(s)
    <3>1. stripe[s].status = "canceled"
      BY <1>1, <2>3 DEF Facts, RecordsTrue, Past, Live
    <3> QED
      BY <3>1, StripeKeeps DEF Keeps, Live
  <2> QED
    BY <1>1, <2>2, <2>3, EndingGoesOn
<1> QED
  BY <1>2, <1>3

LEMMA InitEnds == Init => Checked /\ Single /\ EndsWithLocation
  BY DEF Init, Checked, Hooked, Single, EndsWithLocation, Gone, Idle, At, Known, Nothing

THEOREM EndsInvariant == Spec => []EndsWithLocation
  BY InitType, NextType, InitFacts, NextFacts, InitEnds, NextChecked, NextSingle, NextEnds, PTL DEF Spec

(* Removing a location ends the subscription of its record, whatever       *)
(* webhooks and other requests do meanwhile, if no process stops half-way  *)
(* and with the exceptions RemovedIsCanceled names.                        *)
THEOREM RemovedTheorem == Spec => []RemovedIsCanceled
<1>1. TypeOK /\ EndsWithLocation => RemovedIsCanceled
  <2> SUFFICES ASSUME TypeOK, EndsWithLocation, Quiet, failures = 0,
                      NEW id \in Id, Known(id), record[id].sub \in Sub, Gone(record[id].location)
               PROVE  ~Live(record[id].sub)
    BY DEF RemovedIsCanceled, Gone
  <2>1. id \in At(record[id].location) /\ record[id].location \in Location
    BY RecordCases DEF At
  <2>2. \A p \in Process : ~Ending(p, id, record[id].sub)
    BY DEF Quiet, Ending
  <2> QED
    BY <2>1, <2>2 DEF EndsWithLocation
<1> QED
  BY <1>1, TypeCorrect, EndsInvariant, PTL
=============================================================================
