--------------------------- MODULE AuthCacheProofs ---------------------------
(***************************************************************************)
(* For any number of tokens, methods and requests, any length of the hour  *)
(* and any interleaving: a hit of the cache stands for a yes of the auth   *)
(* service within the last hour; the indexes of two hours find every live  *)
(* entry; and a token that logged out stays out of the cache.  The first   *)
(* needs IInv alone, the others the indexes as well, in DropInv.           *)
(***************************************************************************)
EXTENDS AuthCache, TLAPS

EntryType == [token : Token, expires : Nat, clean : BOOLEAN]

Asking == [pc : {"ask"}, token : Token, method : Method, clean : BOOLEAN]

WriteType ==
    [pc : {"write"}, token : Token, method : Method, clean : BOOLEAN, hour : {HourOf(t) : t \in Nat},
     todo : SUBSET {"sadd", "setex", "expire"}]

RequestType == {Idle} \cup Asking \cup WriteType

TypesOK ==
    /\ now \in Nat \ {0}
    /\ entry \in [Method -> {NoEntry} \cup EntryType]
    /\ request \in [Request -> RequestType]
    /\ lastOk \in [Token \X Method -> Nat]

-----------------------------------------------------------------------------
(* The inductive invariant.                                                *)

(* A write that was never disturbed goes on in the tick of its answer.     *)
WritesAtOnce ==
    \A r \in Request : Writing(r) /\ request[r].clean =>
        lastOk[<<request[r].token, request[r].method>>] = now

(* An entry that was never disturbed expires no later than its answer.     *)
ExpiresInTime ==
    \A m \in Method : entry[m] # NoEntry /\ entry[m].clean =>
        /\ now < entry[m].expires /\ entry[m].expires <= now + Hour
        /\ 0 < lastOk[<<entry[m].token, m>>]
        /\ entry[m].expires <= lastOk[<<entry[m].token, m>>] + Hour

IInv == TypesOK /\ WritesAtOnce /\ ExpiresInTime

LEMMA EntryFields ==
    ASSUME TypesOK, NEW m \in Method, entry[m] # NoEntry
    PROVE  entry[m] \in EntryType
  BY DEF TypesOK

LEMMA Writer ==
    ASSUME TypesOK, NEW r \in Request, Writing(r)
    PROVE  request[r] \in WriteType
  BY DEF TypesOK, RequestType, Idle, Asking, WriteType, Writing

LEMMA NoEntryIsNone == ASSUME NEW e \in EntryType PROVE e # NoEntry
  BY DEF EntryType, NoEntry

LEMMA IdleType == Idle \in RequestType
  BY DEF RequestType

-----------------------------------------------------------------------------
(* Marking a request or an entry as disturbed.                             *)

LEMMA DisturbedType ==
    ASSUME TypesOK, NEW R \in SUBSET Request, \A r \in R : request[r].pc # "idle"
    PROVE  /\ Disturbed(R) \in [Request -> RequestType]
           /\ \A r \in Request : LET q == Disturbed(R)[r]
                                 IN  q.pc = request[r].pc /\ (q.pc = "write" =>
                                        /\ q.token = request[r].token /\ q.method = request[r].method
                                        /\ q.clean => request[r].clean /\ r \notin R)
<1> SUFFICES ASSUME NEW r \in Request
             PROVE  /\ Disturbed(R)[r] \in RequestType
                    /\ LET q == Disturbed(R)[r]
                       IN  q.pc = request[r].pc /\ (q.pc = "write" =>
                              /\ q.token = request[r].token /\ q.method = request[r].method
                              /\ q.clean => request[r].clean /\ r \notin R)
  BY DEF Disturbed
<1>1. request[r] \in RequestType
  BY DEF TypesOK
<1>2. CASE r \in R
  <2>1. Disturbed(R)[r] = [request[r] EXCEPT !.clean = FALSE]
    BY <1>2 DEF Disturbed
  <2>2. request[r] \in Asking \cup WriteType
    BY <1>1, <1>2 DEF RequestType, Idle
  <2> QED
    BY <2>1, <2>2 DEF RequestType, Asking, WriteType
<1>3. CASE r \notin R
  BY <1>1, <1>3 DEF Disturbed
<1> QED
  BY <1>2, <1>3

LEMMA DisturbedEntryType ==
    ASSUME TypesOK, NEW R \in SUBSET Request, NEW m \in Method
    PROVE  LET e == DisturbedEntry(R, m)
           IN  /\ e \in {NoEntry} \cup EntryType
               /\ e # NoEntry /\ e.clean => e = entry[m]
<1>1. CASE entry[m] # NoEntry
  BY <1>1, EntryFields, NoEntryIsNone DEF DisturbedEntry, EntryType
<1>2. CASE entry[m] = NoEntry
  BY <1>2 DEF DisturbedEntry
<1> QED
  BY <1>1, <1>2

(* Steps in which no request begins to write, no entry is made, and no     *)
(* answer is given nor forgotten: all entries that are clean were so.      *)
LEMMA CalmStep ==
    ASSUME IInv, TypesOK', now' = now, lastOk' = lastOk,
           \A r \in Request : Writing(r)' /\ request'[r].clean =>
              /\ Writing(r) /\ request[r].clean
              /\ request'[r].token = request[r].token /\ request'[r].method = request[r].method,
           \A m \in Method : entry'[m] # NoEntry /\ entry'[m].clean => entry'[m] = entry[m]
    PROVE  IInv'
  BY DEF IInv, WritesAtOnce, ExpiresInTime

LEMMA Updated ==
    ASSUME TypesOK, NEW r \in Request, NEW state \in RequestType, Become(r, state)
    PROVE  /\ request' \in [Request -> RequestType]
           /\ request'[r] = state
           /\ \A q \in Request \ {r} : request'[q] = request[q]
  BY DEF TypesOK, Become

-----------------------------------------------------------------------------
(* Every action.                                                           *)

LEMMA RequestStep ==
    ASSUME IInv, NEW r \in Request, NEW state \in RequestType, Become(r, state),
           UNCHANGED <<now, entry, lastOk>>,
           state.pc = "write" => /\ Writing(r) /\ state.token = request[r].token
                                 /\ state.method = request[r].method /\ state.clean = request[r].clean
    PROVE  IInv'
<1>1. /\ request' \in [Request -> RequestType]
      /\ request'[r] = state
      /\ \A q \in Request \ {r} : request'[q] = request[q]
  BY Updated DEF IInv
<1>2. TypesOK'
  BY <1>1 DEF IInv, TypesOK
<1>3. \A q \in Request : Writing(q)' /\ request'[q].clean =>
         /\ Writing(q) /\ request[q].clean
         /\ request'[q].token = request[q].token /\ request'[q].method = request[q].method
  BY <1>1 DEF Writing
<1> QED
  BY <1>2, <1>3, CalmStep

(* The next state of a request that wrote.                                 *)
LEMMA WroteState ==
    ASSUME IInv, NEW r \in Request, NEW done, NEW next \in SUBSET {"expire"}, Wrote(r, done, next)
    PROVE  \E state \in RequestType :
             /\ Become(r, state)
             /\ state.pc = "write" => /\ Writing(r) /\ state.token = request[r].token
                                      /\ state.method = request[r].method /\ state.clean = request[r].clean
<1> DEFINE todo == (request[r].todo \ {done}) \cup next
           state == IF todo = {} THEN Idle ELSE [request[r] EXCEPT !.todo = todo]
<1>1. Writing(r) /\ Become(r, state)
  BY DEF Wrote
<1>2. request[r] \in WriteType
  BY <1>1, Writer DEF IInv
<1>3. state \in RequestType /\ state.pc = "write" =>
         /\ state.token = request[r].token /\ state.method = request[r].method
         /\ state.clean = request[r].clean
  BY <1>2 DEF WriteType, RequestType, Idle
<1>4. state \in RequestType
  BY <1>2 DEF WriteType, RequestType
<1> HIDE DEF state
<1> QED
  BY <1>1, <1>3, <1>4

LEMMA AllowedStep == ASSUME IInv, NEW r \in Request, Allowed(r) PROVE IInv'
<1> USE DEF IInv
<1> DEFINE state == [pc |-> "write", token |-> request[r].token, method |-> request[r].method,
                     clean |-> request[r].clean, hour |-> HourOf(now), todo |-> {"sadd", "setex"}]
           x == <<request[r].token, request[r].method>>
<1>1. request[r] \in Asking
  BY DEF Allowed, TypesOK, RequestType, Idle, WriteType
<1>2. x \in Token \X Method /\ state \in RequestType /\ Become(r, state)
  <2>1. HourOf(now) \in {HourOf(t) : t \in Nat}
    BY DEF TypesOK
  <2> QED
    BY <1>1, <2>1 DEF Asking, RequestType, WriteType, Allowed
<1>3. /\ request' \in [Request -> RequestType]
      /\ request'[r] = state
      /\ \A q \in Request \ {r} : request'[q] = request[q]
  BY <1>2, Updated
<1>4. now' = now /\ entry' = entry /\ lastOk' = [lastOk EXCEPT ![x] = now]
  BY DEF Allowed
<1>5. state.token = request[r].token /\ state.method = request[r].method
  OBVIOUS
<1> HIDE DEF state
<1>6. lastOk'[x] = now /\ \A y \in Token \X Method : y # x => lastOk'[y] = lastOk[y]
  BY <1>2, <1>4 DEF TypesOK
<1>7. TypesOK'
  BY <1>2, <1>3, <1>4 DEF TypesOK
<1>8. WritesAtOnce'
  <2> SUFFICES ASSUME NEW q \in Request, Writing(q)', request'[q].clean
               PROVE  lastOk'[<<request'[q].token, request'[q].method>>] = now
    BY <1>4 DEF WritesAtOnce
  <2>1. CASE q = r
    BY <1>3, <1>5, <1>6, <2>1
  <2>2. CASE q # r
    <3>1. Writing(q) /\ request'[q] = request[q] /\ request[q].clean
      BY <1>3, <2>2 DEF Writing
    <3>2. <<request[q].token, request[q].method>> \in Token \X Method
      BY <3>1, Writer DEF WriteType
    <3> QED
      BY <1>6, <3>1, <3>2 DEF WritesAtOnce
  <2> QED
    BY <2>1, <2>2
<1>9. ExpiresInTime'
  <2> SUFFICES ASSUME NEW m \in Method, entry[m] # NoEntry, entry[m].clean
               PROVE  /\ now < entry[m].expires /\ entry[m].expires <= now + Hour
                      /\ 0 < lastOk'[<<entry[m].token, m>>]
                      /\ entry[m].expires <= lastOk'[<<entry[m].token, m>>] + Hour
    BY <1>4 DEF ExpiresInTime
  <2>1. <<entry[m].token, m>> \in Token \X Method
    BY EntryFields DEF EntryType
  <2>2. now > 0
    BY DEF TypesOK
  <2> HIDE DEF x
  <2> QED
    BY <1>6, <2>1, <2>2 DEF ExpiresInTime
<1> QED
  BY <1>7, <1>8, <1>9

LEMMA SetExStep == ASSUME IInv, NEW r \in Request, SetEx(r) PROVE IInv'
<1> USE DEF IInv
<1> DEFINE new == [token |-> request[r].token, expires |-> now + Hour, clean |-> request[r].clean]
           m == request[r].method
<1>1. PICK state \in RequestType :
        /\ Become(r, state)
        /\ state.pc = "write" => /\ Writing(r) /\ state.token = request[r].token
                                 /\ state.method = request[r].method /\ state.clean = request[r].clean
  BY WroteState DEF SetEx
<1>2. Writing(r) /\ request[r] \in WriteType
  BY Writer DEF SetEx, Wrote
<1>3. m \in Method /\ new \in EntryType
  BY <1>2, AuthCacheAssumption DEF WriteType, EntryType, TypesOK
<1>4. now' = now /\ lastOk' = lastOk /\ entry' = [entry EXCEPT ![m] = new]
  BY DEF SetEx
<1>5. /\ request' \in [Request -> RequestType]
      /\ request'[r] = state
      /\ \A q \in Request \ {r} : request'[q] = request[q]
  BY <1>1, Updated
<1>6. TypesOK'
  BY <1>3, <1>4, <1>5 DEF TypesOK
<1>7. WritesAtOnce'
  BY <1>1, <1>4, <1>5 DEF WritesAtOnce, Writing
<1>8. new.token = request[r].token /\ new.expires = now + Hour /\ new.clean = request[r].clean
  OBVIOUS
<1>9. entry'[m] = new /\ \A n \in Method : n # m => entry'[n] = entry[n]
  BY <1>3, <1>4 DEF TypesOK
<1>10. new.clean => lastOk[<<new.token, m>>] = now
  BY <1>2 DEF WritesAtOnce
<1> HIDE DEF new, m
<1>11. ExpiresInTime'
  <2>1. now > 0 /\ now \in Nat /\ Hour \in Nat \ {0}
    BY AuthCacheAssumption DEF TypesOK
  <2> SUFFICES ASSUME NEW n \in Method, entry'[n] # NoEntry, entry'[n].clean
               PROVE  /\ now < entry'[n].expires /\ entry'[n].expires <= now + Hour
                      /\ 0 < lastOk[<<entry'[n].token, n>>]
                      /\ entry'[n].expires <= lastOk[<<entry'[n].token, n>>] + Hour
    BY <1>4 DEF ExpiresInTime
  <2>2. CASE n = m
    BY <1>8, <1>9, <1>10, <2>1, <2>2
  <2>3. CASE n # m
    BY <1>9, <2>3 DEF ExpiresInTime
  <2> QED
    BY <2>2, <2>3
<1> QED
  BY <1>6, <1>7, <1>11

LEMMA StartLogoutStep == ASSUME IInv, NEW d \in Logout, NEW t \in Token, StartLogout(d, t) PROVE IInv'
<1> USE DEF IInv
<1> DEFINE busy == {r \in Request : request[r].pc # "idle"}
<1>1. /\ request' = Disturbed(busy) /\ entry' = [m \in Method |-> DisturbedEntry(busy, m)]
      /\ now' = now /\ lastOk' = lastOk
  BY DEF StartLogout
<1>2. busy \in SUBSET Request /\ \A r \in busy : request[r].pc # "idle"
  OBVIOUS
<1> HIDE DEF busy
<1>3. TypesOK'
  BY <1>1, <1>2, DisturbedType, DisturbedEntryType DEF TypesOK
<1>4. \A r \in Request : Writing(r)' /\ request'[r].clean =>
         /\ Writing(r) /\ request[r].clean
         /\ request'[r].token = request[r].token /\ request'[r].method = request[r].method
  BY <1>1, <1>2, DisturbedType DEF Writing
<1>5. \A m \in Method : entry'[m] # NoEntry /\ entry'[m].clean => entry'[m] = entry[m]
  BY <1>1, <1>2, DisturbedEntryType
<1> QED
  BY <1>1, <1>3, <1>4, <1>5, CalmStep

LEMMA DeleteStep == ASSUME IInv, NEW d \in Logout, Delete(d) PROVE IInv'
<1> USE DEF IInv
<1>1. /\ UNCHANGED <<now, request, lastOk>>
      /\ entry' = [m \in Method |-> IF m \in logout[d].keys THEN NoEntry ELSE entry[m]]
  BY DEF Delete
<1>2. TypesOK'
  BY <1>1 DEF TypesOK
<1>3. \A m \in Method : entry'[m] # NoEntry /\ entry'[m].clean => entry'[m] = entry[m]
  BY <1>1
<1> QED
  BY <1>1, <1>2, <1>3, CalmStep DEF Writing

LEMMA StopRequestStep == ASSUME IInv, NEW r \in Request, StopRequest(r) PROVE IInv'
<1> USE DEF IInv
<1>1. /\ Become(r, Idle) /\ entry' = [m \in Method |-> DisturbedEntry({r}, m)]
      /\ now' = now /\ lastOk' = lastOk
  BY DEF StopRequest
<1>2. /\ request' \in [Request -> RequestType]
      /\ request'[r] = Idle
      /\ \A q \in Request \ {r} : request'[q] = request[q]
  BY <1>1, IdleType, Updated
<1>3. TypesOK'
  BY <1>1, <1>2, DisturbedEntryType DEF TypesOK
<1>4. \A q \in Request : Writing(q)' /\ request'[q].clean =>
         /\ Writing(q) /\ request[q].clean
         /\ request'[q].token = request[q].token /\ request'[q].method = request[q].method
  BY <1>2 DEF Writing, Idle
<1>5. \A m \in Method : entry'[m] # NoEntry /\ entry'[m].clean => entry'[m] = entry[m]
  BY <1>1, DisturbedEntryType
<1> QED
  BY <1>1, <1>3, <1>4, <1>5, CalmStep

(* The clock marks every write that is under way; an answer is forgotten   *)
(* in the tick in which an entry of its time expires.                      *)
LEMMA TickStep == ASSUME IInv, Tick PROVE IInv'
<1> USE DEF IInv
<1> DEFINE slow == {r \in Request : Writing(r)}
<1>1. /\ now' = now + 1
      /\ request' = Disturbed(slow)
      /\ entry' = [m \in Method |->
            IF entry[m] # NoEntry /\ entry[m].expires = now' THEN NoEntry ELSE DisturbedEntry(slow, m)]
      /\ lastOk' = [x \in Token \X Method |-> IF lastOk[x] + Hour = now' THEN 0 ELSE lastOk[x]]
  BY DEF Tick
<1>2. slow \in SUBSET Request /\ \A r \in slow : request[r].pc # "idle"
  BY DEF Writing
<1>3. \A r \in Request : Writing(r) => r \in slow
  OBVIOUS
<1> HIDE DEF slow
<1>4. now \in Nat \ {0} /\ Hour \in Nat \ {0}
  BY AuthCacheAssumption DEF TypesOK
<1>5. TypesOK'
  <2>1. now' \in Nat \ {0}
    BY <1>1, <1>4
  <2>2. entry' \in [Method -> {NoEntry} \cup EntryType]
    BY <1>1, <1>2, DisturbedEntryType
  <2>3. request' \in [Request -> RequestType]
    BY <1>1, <1>2, DisturbedType
  <2>4. lastOk' \in [Token \X Method -> Nat]
    BY <1>1 DEF TypesOK
  <2> QED
    BY <2>1, <2>2, <2>3, <2>4 DEF TypesOK
<1>6. WritesAtOnce'
  <2>1. \A r \in Request : Writing(r)' => ~request'[r].clean
    BY <1>1, <1>2, <1>3, DisturbedType DEF Writing
  <2> QED
    BY <2>1 DEF WritesAtOnce
<1>7. ExpiresInTime'
  <2> SUFFICES ASSUME NEW m \in Method, entry'[m] # NoEntry, entry'[m].clean
               PROVE  /\ now' < entry'[m].expires /\ entry'[m].expires <= now' + Hour
                      /\ 0 < lastOk'[<<entry'[m].token, m>>]
                      /\ entry'[m].expires <= lastOk'[<<entry'[m].token, m>>] + Hour
    BY DEF ExpiresInTime
  <2>1. entry'[m] = entry[m] /\ ~(entry[m] # NoEntry /\ entry[m].expires = now + 1)
    BY <1>1, <1>2, DisturbedEntryType
  <2>2. entry[m] \in EntryType
    BY <2>1, EntryFields
  <2> DEFINE x == <<entry[m].token, m>>
             e == entry[m].expires
  <2>3. x \in Token \X Method /\ e \in Nat /\ lastOk[x] \in Nat
    BY <2>2 DEF EntryType, TypesOK
  <2>4. now < e /\ e <= now + Hour /\ 0 < lastOk[x] /\ e <= lastOk[x] + Hour /\ e # now + 1
    BY <2>1 DEF ExpiresInTime
  <2>5. lastOk'[x] = IF lastOk[x] + Hour = now + 1 THEN 0 ELSE lastOk[x]
    BY <1>1, <2>3
  <2> HIDE DEF x, e
  <2>6. lastOk'[x] = lastOk[x]
    BY <1>4, <2>3, <2>4, <2>5
  <2>7. now' < e /\ e <= now' + Hour /\ 0 < lastOk'[x] /\ e <= lastOk'[x] + Hour
    BY <1>1, <1>4, <2>3, <2>4, <2>6
  <2> QED
    BY <2>1, <2>7 DEF x, e
<1> QED
  BY <1>5, <1>6, <1>7

LEMMA NextInv == IInv /\ [Next]_vars => IInv'
<1> SUFFICES ASSUME IInv, [Next]_vars PROVE IInv'
  OBVIOUS
<1> USE DEF IInv
<1>1. ASSUME UNCHANGED <<now, entry, request, lastOk>> PROVE IInv'
  BY <1>1 DEF TypesOK, WritesAtOnce, ExpiresInTime, Writing
<1>2. ASSUME NEW r \in Request, NEW t \in Token, NEW m \in Method, Ask(r, t, m) PROVE IInv'
  <2> DEFINE state == [pc |-> "ask", token |-> t, method |-> m, clean |-> ~LogoutRuns]
  <2>1. state \in RequestType /\ state.pc # "write" /\ Become(r, state)
    <3>1. (~LogoutRuns) \in BOOLEAN
      BY DEF LogoutRuns
    <3> QED
      BY <1>2, <3>1 DEF Ask, RequestType, Asking
  <2> HIDE DEF state
  <2> QED
    BY <1>2, <2>1, RequestStep DEF Ask
<1>3. ASSUME NEW r \in Request, Refused(r) PROVE IInv'
  BY <1>3, IdleType, RequestStep DEF Refused, Idle
<1>4. ASSUME NEW r \in Request, SAdd(r) \/ Expire(r) PROVE IInv'
  <2>1. PICK state \in RequestType :
          /\ Become(r, state)
          /\ state.pc = "write" => /\ Writing(r) /\ state.token = request[r].token
                                   /\ state.method = request[r].method /\ state.clean = request[r].clean
    BY <1>4, WroteState DEF SAdd, Expire
  <2> QED
    BY <1>4, <2>1, RequestStep DEF SAdd, Expire
<1>5. ASSUME NEW d \in Logout, Revoke(d) \/ ReadIndexes(d) \/ StopLogout(d) PROVE IInv'
  BY <1>1, <1>5 DEF Revoke, ReadIndexes, StopLogout
<1>6. CASE UNCHANGED vars
  BY <1>1, <1>6 DEF vars
<1> QED
  BY <1>2, <1>3, <1>4, <1>5, <1>6, AllowedStep, SetExStep, StartLogoutStep, DeleteStep, StopRequestStep, TickStep
  DEF Next

LEMMA InitInv == Init => IInv
  BY AuthCacheAssumption, IdleType DEF Init, IInv, TypesOK, WritesAtOnce, ExpiresInTime, Writing, Idle

-----------------------------------------------------------------------------
(* The indexes and the logouts: a second inductive invariant.              *)

IndexType == [members : SUBSET Method, expires : Nat]

LoggingOut ==
    [pc : {"logout"}, token : Token, todo : SUBSET {"revoke", "read", "delete"},
     hours : SUBSET Hours, keys : SUBSET Method]

StoresOK ==
    /\ index \in [Hours -> IndexType]
    /\ logout \in [Logout -> {Idle} \cup LoggingOut]
    /\ now <= MaxTime
    /\ \A h \in Hours : index[h].expires <= MaxTime + Hour

Fresh(m) == entry[m] # NoEntry /\ entry[m].clean

CleanRun(r) == request[r].pc # "idle" /\ request[r].clean

CleanWrite(r, m) == WritingTo(r, m) /\ request[r].clean

(* The index of an hour holds the entry, outlives it, and will still be    *)
(* read when it expires.                                                   *)
CoveredIn(h, m) ==
    /\ m \in index[h].members
    /\ h <= HourOf(now) /\ HourOf(entry[m].expires) <= h + 1
    /\ entry[m].expires <= index[h].expires

Covered(m) == \E h \in Hours : CoveredIn(h, m)

(* The entry was written in this tick, and its index will be.              *)
Pending(m) == \E r \in Request : CleanWrite(r, m) /\ "setex" \notin request[r].todo

Indexed == \A m \in Method : Fresh(m) => Covered(m) \/ Pending(m)

AddsInOrder ==
    \A r \in Request, m \in Method : CleanWrite(r, m) =>
        /\ request[r].hour = HourOf(now)
        /\ "expire" \in request[r].todo => "sadd" \notin request[r].todo
        /\ "sadd" \notin request[r].todo => m \in index[HourOf(now)].members
        /\ request[r].todo \cap {"sadd", "expire"} = {} => now + Hour <= index[HourOf(now)].expires

QuietLogout == \A r \in Request : CleanRun(r) => ~LogoutRuns

(* A logout finds all entries that are clean, and none is left after it.   *)
FindsAll ==
    \A d \in Logout : logout[d].pc = "logout" =>
        /\ "delete" \in logout[d].todo => \A m \in Method : Fresh(m) => m \in logout[d].keys
        /\ logout[d].todo \cap {"read", "delete"} = {} => \A m \in Method : ~Fresh(m)
        /\ "revoke" \notin logout[d].todo => logout[d].token \in revoked

StaysOut ==
    \A t \in loggedOut :
        /\ t \in revoked
        /\ \A r \in Request : Writing(r) /\ request[r].token = t => ~request[r].clean
        /\ \A m \in Method : Fresh(m) => entry[m].token # t

CacheInv == Indexed /\ AddsInOrder
LogoutInv == QuietLogout /\ FindsAll /\ StaysOut
DropInv == StoresOK /\ CacheInv /\ LogoutInv

LEMMA HourType == ASSUME NEW t \in Nat PROVE HourOf(t) \in Nat
  BY AuthCacheAssumption DEF HourOf

LEMMA NextHour == ASSUME NEW t \in Nat PROVE HourOf(t + Hour) = HourOf(t) + 1
  BY AuthCacheAssumption, SMTT(30) DEF HourOf

LEMMA HourGrows == ASSUME NEW s \in Nat, NEW t \in Nat, s <= t PROVE HourOf(s) <= HourOf(t)
  BY AuthCacheAssumption, SMTT(30) DEF HourOf

LEMMA ThisHour ==
    ASSUME TypesOK, StoresOK
    PROVE  HourOf(now) \in Hours /\ HourOf(now) \in Nat
<1>1. now \in Nat /\ MaxTime \in Nat /\ now <= MaxTime
  BY AuthCacheAssumption DEF TypesOK, StoresOK
<1>2. HourOf(now) \in Nat /\ HourOf(MaxTime) \in Nat /\ HourOf(now) <= HourOf(MaxTime)
  BY <1>1, HourType, HourGrows
<1> QED
  BY <1>2 DEF Hours

LEMMA FreshFacts ==
    ASSUME IInv, NEW m \in Method, Fresh(m)
    PROVE  /\ entry[m] \in EntryType /\ entry[m].expires \in Nat
           /\ now < entry[m].expires /\ entry[m].expires <= now + Hour
           /\ HourOf(entry[m].expires) \in Nat
           /\ HourOf(entry[m].expires) <= HourOf(now) + 1
           /\ HourOf(now) <= HourOf(entry[m].expires)
<1>1. /\ entry[m] \in EntryType
      /\ now < entry[m].expires /\ entry[m].expires <= now + Hour
  BY EntryFields DEF IInv, Fresh, ExpiresInTime
<1>2. entry[m].expires \in Nat /\ now \in Nat /\ Hour \in Nat
  BY <1>1, AuthCacheAssumption DEF IInv, TypesOK, EntryType
<1>3. /\ HourOf(entry[m].expires) <= HourOf(now + Hour)
      /\ HourOf(now) <= HourOf(entry[m].expires)
  BY <1>1, <1>2, HourGrows
<1> QED
  BY <1>1, <1>2, <1>3, NextHour, HourType

(* The index of this hour covers what is written now.                      *)
LEMMA CoveredNow ==
    ASSUME IInv, StoresOK, NEW m \in Method, Fresh(m), m \in index[HourOf(now)].members,
           now + Hour <= index[HourOf(now)].expires
    PROVE  Covered(m)
<1>1. /\ entry[m].expires \in Nat /\ entry[m].expires <= now + Hour
      /\ HourOf(entry[m].expires) <= HourOf(now) + 1
  BY FreshFacts
<1>2. HourOf(now) \in Hours /\ HourOf(now) \in Nat
  BY ThisHour DEF IInv
<1>3. index[HourOf(now)].expires \in Nat /\ now + Hour \in Nat
  BY <1>2, AuthCacheAssumption DEF IInv, TypesOK, StoresOK, IndexType
<1>4. CoveredIn(HourOf(now), m)
  BY <1>1, <1>2, <1>3 DEF CoveredIn
<1> QED
  BY <1>2, <1>4 DEF Covered

-----------------------------------------------------------------------------
(* Entries and indexes.                                                    *)

(* No write begins, goes on or ends.                                       *)
LEMMA SameWrites ==
    ASSUME CacheInv, UNCHANGED <<now, entry, index>>,
           \A r \in Request : /\ Writing(r)' <=> Writing(r)
                              /\ Writing(r) => request'[r] = request[r]
    PROVE  CacheInv'
<1>1. \A r \in Request, m \in Method : CleanWrite(r, m)' <=> CleanWrite(r, m)
  BY DEF CleanWrite, WritingTo, Writing
<1>2. \A r \in Request, m \in Method : CleanWrite(r, m) => request'[r] = request[r]
  BY DEF CleanWrite, WritingTo
<1>3. \A m \in Method : Fresh(m)' => Fresh(m)
  BY DEF Fresh
<1>4. \A m \in Method : (Covered(m) => Covered(m)') /\ (Pending(m) => Pending(m)')
  BY <1>1, <1>2 DEF Covered, CoveredIn, Pending
<1> QED
  BY <1>1, <1>2, <1>3, <1>4 DEF CacheInv, Indexed, AddsInOrder

(* SADD or EXPIRE by a request.                                            *)
LEMMA IndexStep ==
    ASSUME IInv, DropInv, NEW r \in Request, SAdd(r) \/ Expire(r)
    PROVE  CacheInv'
<1> USE DEF IInv, DropInv
<1> DEFINE hour == request[r].hour
           method == request[r].method
           next == IF SAdd(r) THEN (request[r].todo \ {"sadd"}) \cup {"expire"}
                   ELSE request[r].todo \ {"expire"}
           state == IF next = {} THEN Idle ELSE [request[r] EXCEPT !.todo = next]
<1>1. request[r] \in WriteType /\ Writing(r) /\ hour \in Nat /\ method \in Method
  <2>1. request[r] \in WriteType /\ Writing(r)
    BY Writer DEF SAdd, Expire, Wrote
  <2>2. hour \in {HourOf(t) : t \in Nat}
    BY <2>1 DEF WriteType
  <2> QED
    BY <2>1, <2>2, HourType DEF WriteType
<1>2. Become(r, state) /\ UNCHANGED <<now, entry>>
  BY DEF SAdd, Expire, Wrote
<1>3. next \subseteq {"sadd", "setex", "expire"} /\ state \in RequestType
  BY <1>1, IdleType DEF WriteType, RequestType
<1>4. state # Idle => /\ next # {} /\ state.pc = "write" /\ state.method = method /\ state.hour = hour
                      /\ state.clean = request[r].clean /\ state.todo = next
  BY <1>1 DEF WriteType
<1>5. next # {} => state # Idle
  BY <1>1 DEF WriteType, Idle
<1> HIDE DEF state
<1>6. request'[r] = state /\ \A q \in Request \ {r} : request'[q] = request[q]
  BY <1>2, <1>3, Updated
<1>7. /\ \A h \in Hours : index[h].members \subseteq index'[h].members
      /\ \A h \in Hours : index[h].expires <= index'[h].expires \/ index'[h].expires = now + Hour
      /\ SAdd(r) /\ hour \in Hours => method \in index'[hour].members
      /\ Expire(r) /\ hour \in Hours /\ method \in index[hour].members => index'[hour].expires = now + Hour
  <2>1. now + Hour \in Nat /\ MaxTime + Hour \in Nat
    BY AuthCacheAssumption DEF TypesOK
  <2>2. \A h \in Hours : index[h] \in IndexType /\ index[h].expires <= MaxTime + Hour
    BY DEF StoresOK
  <2>3. CASE SAdd(r)
    <3> DEFINE new(h) == [members |-> index[h].members \cup {method},
                          expires |-> IF index[h] = NoIndex THEN MaxTime + Hour ELSE index[h].expires]
    <3>1. \A h \in Hours : index'[h] = IF h = hour THEN new(h) ELSE index[h]
      BY <2>3 DEF SAdd, StoresOK
    <3>2. \A h \in Hours : /\ index[h].members \subseteq new(h).members /\ method \in new(h).members
                           /\ index[h].expires <= new(h).expires
      BY <2>1, <2>2 DEF IndexType
    <3>3. \A h \in Hours : index[h].expires <= index[h].expires
      BY <2>2 DEF IndexType
    <3>4. ~Expire(r) \/ ~(hour \in Hours /\ method \in index[hour].members)
          \/ index'[hour].expires = now + Hour
      <4>1. CASE Expire(r) /\ hour \in Hours /\ method \in index[hour].members
        <5>1. index[hour] # NoIndex
          BY <4>1 DEF NoIndex
        <5> QED
          BY <4>1, <5>1 DEF Expire, StoresOK, IndexType
      <4> QED
        BY <4>1
    <3> HIDE DEF new
    <3> QED
      BY <2>3, <3>1, <3>2, <3>3, <3>4
  <2>4. CASE Expire(r) /\ ~SAdd(r)
    <3>1. index' = [index EXCEPT ![hour].expires = IF index[hour] = NoIndex THEN @ ELSE now + Hour]
      BY <2>4 DEF Expire
    <3>2. \A h \in Hours : index'[h] = IF h = hour /\ index[h] # NoIndex
                                       THEN [index[h] EXCEPT !.expires = now + Hour] ELSE index[h]
      BY <2>2, <3>1 DEF StoresOK, IndexType
    <3>3. \A h \in Hours : /\ [index[h] EXCEPT !.expires = now + Hour].expires = now + Hour
                           /\ [index[h] EXCEPT !.expires = now + Hour].members = index[h].members
                           /\ index[h].expires <= index[h].expires
      BY <2>2 DEF IndexType
    <3>4. hour \in Hours /\ method \in index[hour].members => index[hour] # NoIndex
      BY DEF NoIndex
    <3> QED
      BY <2>4, <3>2, <3>3, <3>4
  <2> QED
    BY <2>3, <2>4
<1>8. HourOf(now) \in Hours /\ HourOf(now) \in Nat
  BY ThisHour
<1>9. request[r].clean => hour = HourOf(now) /\ ("expire" \in request[r].todo => "sadd" \notin request[r].todo)
                          /\ ("sadd" \notin request[r].todo => method \in index[hour].members)
  BY <1>1 DEF CacheInv, AddsInOrder, CleanWrite, WritingTo
<1>10. /\ SAdd(r) => "sadd" \in request[r].todo
       /\ Expire(r) => "expire" \in request[r].todo
  BY DEF SAdd, Expire, Wrote
<1>11. Expire(r) /\ request[r].clean => /\ method \in index'[HourOf(now)].members
                                        /\ index'[HourOf(now)].expires = now + Hour
  BY <1>7, <1>8, <1>9, <1>10
<1>12. \A q \in Request, m \in Method : CleanWrite(q, m)' =>
          /\ CleanWrite(q, m)
          /\ IF q = r THEN request'[q] = state /\ state # Idle ELSE request'[q] = request[q]
  BY <1>1, <1>4, <1>6 DEF CleanWrite, WritingTo, Writing, Idle
<1>13. now + Hour \in Nat /\ \A h \in Hours : index[h].expires \in Nat /\ index'[h].expires \in Nat
  <2>1. now + Hour \in Nat /\ MaxTime + Hour \in Nat
    BY AuthCacheAssumption DEF TypesOK
  <2>2. \A h \in Hours : index[h] \in IndexType
    BY DEF StoresOK
  <2>3. CASE SAdd(r)
    BY <2>1, <2>2, <2>3 DEF SAdd, StoresOK, IndexType
  <2>4. CASE Expire(r)
    BY <2>1, <2>2, <2>4 DEF Expire, StoresOK, IndexType
  <2> QED
    BY <2>2, <2>3, <2>4 DEF IndexType
<1>14. AddsInOrder'
  <2> SUFFICES ASSUME NEW q \in Request, NEW m \in Method, CleanWrite(q, m)'
               PROVE  /\ request'[q].hour = HourOf(now)
                      /\ "expire" \in request'[q].todo => "sadd" \notin request'[q].todo
                      /\ "sadd" \notin request'[q].todo => m \in index'[HourOf(now)].members
                      /\ request'[q].todo \cap {"sadd", "expire"} = {} =>
                            now + Hour <= index'[HourOf(now)].expires
    BY <1>2 DEF AddsInOrder
  <2>1. CASE q = r
    <3>1. m = method /\ request[r].clean /\ request'[r] = state /\ state # Idle
      BY <1>12, <2>1 DEF CleanWrite, WritingTo
    <3>2. state.hour = hour /\ state.todo = next
      BY <1>4, <3>1
    <3>3. CASE SAdd(r)
      BY <1>7, <1>8, <1>9, <2>1, <3>1, <3>2, <3>3
    <3>4. CASE Expire(r) /\ ~SAdd(r)
      BY <1>9, <1>10, <1>11, <1>13, <2>1, <3>1, <3>2, <3>4
    <3> QED
      BY <3>3, <3>4
  <2>2. CASE q # r
    <3>1. CleanWrite(q, m) /\ request'[q] = request[q]
      BY <1>12, <2>2
    <3>2. \/ index[HourOf(now)].expires <= index'[HourOf(now)].expires
          \/ index'[HourOf(now)].expires = now + Hour
      BY <1>7, <1>8
    <3>3. index[HourOf(now)].members \subseteq index'[HourOf(now)].members
      BY <1>7, <1>8
    <3>4. index[HourOf(now)].expires \in Nat /\ index'[HourOf(now)].expires \in Nat
      BY <1>8, <1>13
    <3>5. /\ request[q].hour = HourOf(now)
          /\ "expire" \in request[q].todo => "sadd" \notin request[q].todo
          /\ "sadd" \notin request[q].todo => m \in index[HourOf(now)].members
          /\ request[q].todo \cap {"sadd", "expire"} = {} => now + Hour <= index[HourOf(now)].expires
      BY <3>1 DEF CacheInv, AddsInOrder
    <3> QED
      BY <1>13, <3>1, <3>2, <3>3, <3>4, <3>5
  <2> QED
    BY <2>1, <2>2
<1>15. Indexed'
  <2> SUFFICES ASSUME NEW m \in Method, Fresh(m) PROVE Covered(m)' \/ Pending(m)'
    BY <1>2 DEF Indexed, Fresh
  <2>1. /\ entry[m].expires \in Nat /\ entry[m].expires <= now + Hour
        /\ HourOf(entry[m].expires) <= HourOf(now) + 1
    BY FreshFacts
  <2>2. CASE Covered(m)
    <3>1. PICK h \in Hours : CoveredIn(h, m)
      BY <2>2 DEF Covered
    <3>2. entry[m].expires <= index'[h].expires
      BY <1>7, <1>13, <2>1, <3>1 DEF CoveredIn
    <3>3. CoveredIn(h, m)'
      BY <1>2, <1>7, <3>1, <3>2 DEF CoveredIn
    <3> QED
      BY <3>3 DEF Covered
  <2>3. CASE Pending(m)
    <3>1. PICK q \in Request : CleanWrite(q, m) /\ "setex" \notin request[q].todo
      BY <2>3 DEF Pending
    <3>2. CASE q # r
      BY <1>6, <3>1, <3>2 DEF Pending, CleanWrite, WritingTo, Writing
    <3>3. CASE q = r /\ SAdd(r)
      <4>1. next # {} /\ "setex" \notin next
        BY <3>1, <3>3
      <4>2. state.pc = "write" /\ state.method = method /\ state.clean = request[r].clean /\ state.todo = next
        BY <1>4, <1>5, <4>1
      <4> QED
        BY <1>6, <3>1, <3>3, <4>1, <4>2 DEF Pending, CleanWrite, WritingTo, Writing
    <3>4. CASE q = r /\ Expire(r)
      <4>1. m = method /\ request[r].clean
        BY <3>1, <3>4 DEF CleanWrite, WritingTo
      <4>2. m \in index'[HourOf(now)].members /\ index'[HourOf(now)].expires = now + Hour
        BY <1>11, <3>4, <4>1
      <4>3. HourOf(now) <= HourOf(now)
        BY <1>8
      <4>4. \E h \in Hours : CoveredIn(h, m)'
        <5>1. PICK h \in Hours : h = HourOf(now)
          BY <1>8
        <5> QED
          BY <1>2, <2>1, <4>2, <4>3, <5>1 DEF CoveredIn
      <4> QED
        BY <4>4 DEF Covered
    <3> QED
      BY <3>2, <3>3, <3>4
  <2> QED
    BY <2>2, <2>3 DEF CacheInv, Indexed
<1> QED
  BY <1>14, <1>15 DEF CacheInv

(* SETEX by a request.                                                     *)
LEMMA EntryStep ==
    ASSUME IInv, IInv', DropInv, StoresOK', NEW r \in Request, SetEx(r)
    PROVE  CacheInv'
<1> USE DEF IInv, DropInv
<1> DEFINE method == request[r].method
           next == request[r].todo \ {"setex"}
           state == IF next = {} THEN Idle ELSE [request[r] EXCEPT !.todo = next]
           new == [token |-> request[r].token, expires |-> now + Hour, clean |-> request[r].clean]
<1>1. request[r] \in WriteType /\ Writing(r) /\ method \in Method
  BY Writer DEF SetEx, Wrote, WriteType
<1>2. /\ Become(r, state) /\ UNCHANGED <<now, index>> /\ entry' = [entry EXCEPT ![method] = new]
      /\ "setex" \in request[r].todo
  BY DEF SetEx, Wrote
<1>3. next \subseteq {"sadd", "expire"} /\ state \in RequestType
  BY <1>1, IdleType DEF WriteType, RequestType
<1>4. state # Idle => /\ next # {} /\ state.pc = "write" /\ state.method = method /\ state.hour = request[r].hour
                      /\ state.clean = request[r].clean /\ state.todo = next
  BY <1>1 DEF WriteType
<1>5. next # {} => state # Idle
  BY <1>1 DEF WriteType, Idle
<1>6. new.clean = request[r].clean
  OBVIOUS
<1>7. entry'[method] = new /\ \A m \in Method \ {method} : entry'[m] = entry[m]
  BY <1>1, <1>2 DEF TypesOK
<1> HIDE DEF state, new
<1>8. request'[r] = state /\ \A q \in Request \ {r} : request'[q] = request[q]
  BY <1>2, <1>3, Updated
<1>9. \A q \in Request, m \in Method : CleanWrite(q, m)' =>
         /\ CleanWrite(q, m)
         /\ IF q = r THEN request'[q] = state /\ state # Idle ELSE request'[q] = request[q]
  BY <1>1, <1>4, <1>8 DEF CleanWrite, WritingTo, Writing, Idle
<1>10. AddsInOrder'
  <2> SUFFICES ASSUME NEW q \in Request, NEW m \in Method, CleanWrite(q, m)'
               PROVE  /\ request'[q].hour = HourOf(now)
                      /\ "expire" \in request'[q].todo => "sadd" \notin request'[q].todo
                      /\ "sadd" \notin request'[q].todo => m \in index[HourOf(now)].members
                      /\ request'[q].todo \cap {"sadd", "expire"} = {} =>
                            now + Hour <= index[HourOf(now)].expires
    BY <1>2 DEF AddsInOrder
  <2>1. CleanWrite(q, m)
    BY <1>9
  <2>2. /\ request[q].hour = HourOf(now)
        /\ "expire" \in request[q].todo => "sadd" \notin request[q].todo
        /\ "sadd" \notin request[q].todo => m \in index[HourOf(now)].members
        /\ request[q].todo \cap {"sadd", "expire"} = {} => now + Hour <= index[HourOf(now)].expires
    BY <2>1 DEF CacheInv, AddsInOrder
  <2>3. CASE q = r
    <3>1. state.hour = request[q].hour /\ state.todo = next /\ request'[q] = state
      BY <1>4, <1>9, <2>3
    <3>2. \A x \in {"sadd", "expire"} : x \in next <=> x \in request[q].todo
      BY <2>3
    <3>3. next \cap {"sadd", "expire"} = request[q].todo \cap {"sadd", "expire"}
      BY <3>2
    <3> HIDE DEF next
    <3> QED
      BY <2>2, <3>1, <3>2, <3>3
  <2>4. CASE q # r
    BY <1>9, <2>2, <2>4
  <2> QED
    BY <2>3, <2>4
<1>11. Indexed'
  <2> SUFFICES ASSUME NEW m \in Method, Fresh(m)' PROVE Covered(m)' \/ Pending(m)'
    BY DEF Indexed
  <2>1. CASE m = method
    <3>1. CleanWrite(r, m)
      BY <1>1, <1>6, <1>7, <2>1 DEF Fresh, CleanWrite, WritingTo
    <3>2. CASE next = {}
      <4>1. m \in index[HourOf(now)].members /\ now + Hour <= index[HourOf(now)].expires
        <5>1. request[r].todo \cap {"sadd", "expire"} = {}
          BY <3>2
        <5> QED
          BY <3>1, <5>1 DEF CacheInv, AddsInOrder
      <4>2. PICK h \in Hours : h = HourOf(now)
        BY ThisHour
      <4>3. /\ entry'[m].expires \in Nat /\ entry'[m].expires <= now + Hour
            /\ HourOf(entry'[m].expires) <= HourOf(now) + 1
        <5>1. entry'[m] \in EntryType /\ entry'[m].expires <= now + Hour
          BY <1>2 DEF Fresh, ExpiresInTime, TypesOK
        <5>2. entry'[m].expires \in Nat
          BY <5>1 DEF EntryType
        <5>3. now \in Nat /\ now + Hour \in Nat
          BY AuthCacheAssumption DEF TypesOK
        <5>4. HourOf(entry'[m].expires) <= HourOf(now + Hour)
          BY <5>1, <5>2, <5>3, HourGrows
        <5> QED
          BY <5>1, <5>2, <5>3, <5>4, NextHour
      <4>4. h <= HourOf(now) /\ index[h].expires \in Nat /\ now + Hour \in Nat
        <5>1. h \in Nat /\ index[h] \in IndexType
          BY <4>2, ThisHour DEF StoresOK
        <5> QED
          BY <4>2, <5>1, AuthCacheAssumption DEF IndexType, TypesOK
      <4>5. CoveredIn(h, m)'
        BY <1>2, <4>1, <4>2, <4>3, <4>4 DEF CoveredIn
      <4> QED
        BY <4>5 DEF Covered
    <3>3. CASE next # {}
      <4>1. state.pc = "write" /\ state.method = method /\ state.clean = request[r].clean /\ state.todo = next
        BY <1>4, <1>5, <3>3
      <4>2. "setex" \notin next
        OBVIOUS
      <4> QED
        BY <1>8, <2>1, <3>1, <4>1, <4>2 DEF Pending, CleanWrite, WritingTo, Writing
    <3> QED
      BY <3>2, <3>3
  <2>2. CASE m # method
    <3>1. Fresh(m) /\ entry'[m] = entry[m]
      BY <1>7, <2>2 DEF Fresh
    <3>2. CASE Covered(m)
      BY <1>2, <3>1, <3>2 DEF Covered, CoveredIn
    <3>3. CASE Pending(m)
      <4>1. PICK q \in Request : CleanWrite(q, m) /\ "setex" \notin request[q].todo
        BY <3>3 DEF Pending
      <4>2. q # r
        BY <1>2, <4>1
      <4> QED
        BY <1>8, <4>1, <4>2 DEF Pending, CleanWrite, WritingTo, Writing
    <3> QED
      BY <3>1, <3>2, <3>3 DEF CacheInv, Indexed
  <2> QED
    BY <2>1, <2>2
<1> QED
  BY <1>10, <1>11 DEF CacheInv

(* The service's yes, from which the index follows.                        *)
LEMMA AllowedCache ==
    ASSUME IInv, DropInv, NEW r \in Request, Allowed(r)
    PROVE  CacheInv'
<1> USE DEF IInv, DropInv
<1> DEFINE state == [pc |-> "write", token |-> request[r].token, method |-> request[r].method,
                     clean |-> request[r].clean, hour |-> HourOf(now), todo |-> {"sadd", "setex"}]
<1>1. ~Writing(r) /\ UNCHANGED <<now, entry, index>> /\ request' = [request EXCEPT ![r] = state]
  BY DEF Allowed, Writing, Become
<1>2. state.hour = HourOf(now) /\ state.todo = {"sadd", "setex"}
  OBVIOUS
<1> HIDE DEF state
<1>3. request'[r] = state /\ \A q \in Request \ {r} : request'[q] = request[q]
  BY <1>1 DEF TypesOK
<1>4. AddsInOrder'
  <2> SUFFICES ASSUME NEW q \in Request, NEW m \in Method, CleanWrite(q, m)'
               PROVE  /\ request'[q].hour = HourOf(now)
                      /\ "expire" \in request'[q].todo => "sadd" \notin request'[q].todo
                      /\ "sadd" \notin request'[q].todo => m \in index[HourOf(now)].members
                      /\ request'[q].todo \cap {"sadd", "expire"} = {} =>
                            now + Hour <= index[HourOf(now)].expires
    BY <1>1 DEF AddsInOrder
  <2>1. CASE q = r
    BY <1>2, <1>3, <2>1
  <2>2. CASE q # r
    <3>1. request'[q] = request[q] /\ CleanWrite(q, m)
      BY <1>3, <2>2 DEF CleanWrite, WritingTo, Writing
    <3> QED
      BY <3>1 DEF CacheInv, AddsInOrder
  <2> QED
    BY <2>1, <2>2
<1>5. Indexed'
  <2>1. \A m \in Method : Pending(m) => Pending(m)'
    BY <1>1, <1>3 DEF Pending, CleanWrite, WritingTo, Writing
  <2>2. \A m \in Method : Covered(m) => Covered(m)'
    BY <1>1 DEF Covered, CoveredIn
  <2> QED
    BY <1>1, <2>1, <2>2 DEF CacheInv, Indexed, Fresh
<1> QED
  BY <1>4, <1>5 DEF CacheInv

(* What is disturbed is no longer clean.                                   *)
LEMMA DisturbedIsUnclean ==
    ASSUME TypesOK, NEW R \in SUBSET Request, \A r \in R : request[r].pc # "idle"
    PROVE  /\ \A r \in Request : LET q == Disturbed(R)[r]
                                 IN  q.pc # "idle" /\ q.clean => r \notin R /\ q = request[r]
           /\ \A m \in Method : LET e == DisturbedEntry(R, m)
                                IN  e # NoEntry /\ e.clean => e = entry[m] /\ \A r \in R : ~WritingTo(r, m)
<1>1. ASSUME NEW r \in Request
      PROVE  LET q == Disturbed(R)[r] IN q.pc # "idle" /\ q.clean => r \notin R /\ q = request[r]
  <2>1. CASE r \in R
    <3>1. Disturbed(R)[r] = [request[r] EXCEPT !.clean = FALSE]
      BY <2>1 DEF Disturbed
    <3>2. request[r] \in Asking \cup WriteType
      BY <2>1 DEF TypesOK, RequestType, Idle
    <3> QED
      BY <3>1, <3>2 DEF Asking, WriteType
  <2>2. CASE r \notin R
    BY <2>2 DEF Disturbed
  <2> QED
    BY <2>1, <2>2
<1>2. ASSUME NEW m \in Method
      PROVE  LET e == DisturbedEntry(R, m)
             IN  e # NoEntry /\ e.clean => e = entry[m] /\ \A r \in R : ~WritingTo(r, m)
  <2>1. CASE entry[m] # NoEntry /\ \E r \in R : WritingTo(r, m)
    <3>1. DisturbedEntry(R, m) = [entry[m] EXCEPT !.clean = FALSE]
      BY <2>1 DEF DisturbedEntry
    <3> QED
      BY <2>1, <3>1, EntryFields DEF EntryType
  <2>2. CASE ~(entry[m] # NoEntry /\ \E r \in R : WritingTo(r, m))
    BY <2>2 DEF DisturbedEntry
  <2> QED
    BY <2>1, <2>2
<1> QED
  BY <1>1, <1>2

LEMMA DisturbedStep ==
    ASSUME IInv, DropInv, NEW R \in SUBSET Request, \A r \in R : request[r].pc # "idle",
           UNCHANGED <<now, index>>,
           \A r \in Request : request'[r].pc # "idle" /\ request'[r].clean => r \notin R /\ request'[r] = request[r],
           \A r \in Request \ R : request'[r] = request[r],
           entry' = [m \in Method |-> DisturbedEntry(R, m)]
    PROVE  CacheInv'
<1> USE DEF IInv, DropInv
<1>1. \A q \in Request, m \in Method : CleanWrite(q, m)' =>
         CleanWrite(q, m) /\ request'[q] = request[q]
  BY DEF CleanWrite, WritingTo, Writing
<1>2. AddsInOrder'
  <2> SUFFICES ASSUME NEW q \in Request, NEW m \in Method, CleanWrite(q, m)'
               PROVE  /\ request'[q].hour = HourOf(now)
                      /\ "expire" \in request'[q].todo => "sadd" \notin request'[q].todo
                      /\ "sadd" \notin request'[q].todo => m \in index[HourOf(now)].members
                      /\ request'[q].todo \cap {"sadd", "expire"} = {} =>
                            now + Hour <= index[HourOf(now)].expires
    BY DEF AddsInOrder
  <2> QED
    BY <1>1 DEF CacheInv, AddsInOrder
<1>3. Indexed'
  <2> SUFFICES ASSUME NEW m \in Method, Fresh(m)' PROVE Covered(m)' \/ Pending(m)'
    BY DEF Indexed
  <2>1. entry'[m] = entry[m] /\ Fresh(m) /\ \A r \in R : ~WritingTo(r, m)
    BY DisturbedIsUnclean DEF Fresh
  <2>2. CASE Covered(m)
    BY <2>1, <2>2 DEF Covered, CoveredIn
  <2>3. CASE Pending(m)
    <3>1. PICK q \in Request : CleanWrite(q, m) /\ "setex" \notin request[q].todo
      BY <2>3 DEF Pending
    <3>2. q \notin R
      BY <2>1, <3>1 DEF CleanWrite
    <3> QED
      BY <3>1, <3>2 DEF Pending, CleanWrite, WritingTo, Writing
  <2> QED
    BY <2>1, <2>2, <2>3 DEF CacheInv, Indexed
<1> QED
  BY <1>2, <1>3 DEF CacheInv

(* An index that expires has outlived its entries; no write outlasts the   *)
(* tick and stays clean.                                                   *)
LEMMA TickCache ==
    ASSUME IInv, IInv', DropInv, Tick
    PROVE  CacheInv'
<1> USE DEF IInv, DropInv
<1> DEFINE slow == {r \in Request : Writing(r)}
<1>1. /\ now' = now + 1 /\ now \in Nat
      /\ request' = Disturbed(slow)
      /\ entry' = [m \in Method |->
            IF entry[m] # NoEntry /\ entry[m].expires = now' THEN NoEntry ELSE DisturbedEntry(slow, m)]
      /\ index' = [h \in Hours |-> IF index[h] # NoIndex /\ index[h].expires = now'
                                   THEN NoIndex ELSE index[h]]
  BY DEF Tick, TypesOK
<1>2. slow \in SUBSET Request /\ \A r \in slow : request[r].pc # "idle"
  BY DEF Writing
<1>3. \A r \in Request : Writing(r) => r \in slow
  OBVIOUS
<1> HIDE DEF slow
<1>4. \A r \in Request, m \in Method : ~CleanWrite(r, m)'
  <2> SUFFICES ASSUME NEW r \in Request, NEW m \in Method, CleanWrite(r, m)' PROVE FALSE
    OBVIOUS
  <2>1. request'[r].pc # "idle" /\ request'[r].clean /\ request'[r].pc = "write"
    BY DEF CleanWrite, WritingTo, Writing
  <2>2. r \notin slow /\ request'[r] = request[r]
    BY <1>1, <1>2, <2>1, DisturbedIsUnclean
  <2> QED
    BY <1>3, <2>1, <2>2 DEF Writing
<1>5. AddsInOrder'
  BY <1>4 DEF AddsInOrder
<1>6. ASSUME NEW m \in Method, Fresh(m)' PROVE Covered(m)'
  <2>1. entry'[m] = entry[m] /\ Fresh(m) /\ entry[m].expires # now + 1 /\ \A r \in slow : ~WritingTo(r, m)
    BY <1>1, <1>2, <1>6, DisturbedIsUnclean DEF Fresh
  <2>2. ~Pending(m)
    BY <1>3, <2>1 DEF Pending, CleanWrite, WritingTo
  <2>3. PICK h \in Hours : CoveredIn(h, m)
    BY <2>1, <2>2 DEF CacheInv, Indexed, Covered
  <2>4. /\ entry[m].expires \in Nat /\ now < entry[m].expires
    BY <2>1, FreshFacts
  <2>5. index[h] \in IndexType /\ index[h].expires \in Nat
    BY DEF StoresOK, IndexType
  <2>6. index[h].expires # now + 1
    BY <1>1, <2>1, <2>3, <2>4, <2>5 DEF CoveredIn
  <2>7. index'[h] = index[h]
    BY <1>1, <2>6
  <2>8. h <= HourOf(now')
    <3>1. HourOf(now) <= HourOf(now') /\ HourOf(now) \in Nat /\ HourOf(now') \in Nat
      BY <1>1, HourGrows, HourType
    <3>2. h \in Nat
      BY DEF Hours
    <3> QED
      BY <2>3, <3>1, <3>2 DEF CoveredIn
  <2>9. CoveredIn(h, m)'
    BY <2>1, <2>3, <2>7, <2>8 DEF CoveredIn
  <2> QED
    BY <1>1, <2>9, <2>3 DEF Covered
<1> QED
  BY <1>5, <1>6 DEF CacheInv, Indexed

LEMMA CacheStep == IInv /\ IInv' /\ DropInv /\ StoresOK' /\ [Next]_vars => CacheInv'
<1> SUFFICES ASSUME IInv, IInv', DropInv, StoresOK', [Next]_vars PROVE CacheInv'
  OBVIOUS
<1> USE DEF IInv, DropInv
<1>1. ASSUME NEW r \in Request, NEW t \in Token, NEW m \in Method, Ask(r, t, m) PROVE CacheInv'
  BY <1>1, SameWrites DEF Ask, Become, Writing, TypesOK
<1>2. ASSUME NEW r \in Request, Refused(r) PROVE CacheInv'
  BY <1>2, SameWrites DEF Refused, Become, Writing, TypesOK, Idle
<1>3. ASSUME NEW r \in Request, SAdd(r) \/ Expire(r) PROVE CacheInv'
  BY <1>3, IndexStep
<1>4. ASSUME NEW d \in Logout, Revoke(d) \/ ReadIndexes(d) \/ StopLogout(d) PROVE CacheInv'
  BY <1>4, SameWrites DEF Revoke, ReadIndexes, StopLogout, Writing
<1>5. ASSUME NEW r \in Request, StopRequest(r) PROVE CacheInv'
  <2>1. /\ request[r].pc # "idle" /\ Become(r, Idle) /\ UNCHANGED <<now, index>>
        /\ entry' = [m \in Method |-> DisturbedEntry({r}, m)]
    BY <1>5 DEF StopRequest
  <2>2. request'[r] = Idle /\ \A q \in Request \ {r} : request'[q] = request[q]
    BY <2>1, IdleType, Updated
  <2>3. \A q \in Request : request'[q].pc # "idle" /\ request'[q].clean => q \notin {r} /\ request'[q] = request[q]
    BY <2>2 DEF Idle
  <2> QED
    BY <2>1, <2>2, <2>3, DisturbedStep
<1>6. ASSUME NEW d \in Logout, NEW t \in Token, StartLogout(d, t) PROVE CacheInv'
  <2> DEFINE busy == {r \in Request : request[r].pc # "idle"}
  <2>1. /\ request' = Disturbed(busy) /\ entry' = [m \in Method |-> DisturbedEntry(busy, m)]
        /\ UNCHANGED <<now, index>>
    BY <1>6 DEF StartLogout
  <2>2. busy \in SUBSET Request /\ \A r \in busy : request[r].pc # "idle"
    OBVIOUS
  <2> HIDE DEF busy
  <2>3. \A r \in Request : request'[r].pc # "idle" /\ request'[r].clean => r \notin busy /\ request'[r] = request[r]
    BY <2>1, <2>2, DisturbedIsUnclean
  <2>4. \A r \in Request \ busy : request'[r] = request[r]
    BY <2>1 DEF Disturbed
  <2> QED
    BY <2>1, <2>2, <2>3, <2>4, DisturbedStep
<1>7. ASSUME NEW d \in Logout, Delete(d) PROVE CacheInv'
  <2>1. /\ logout[d].pc = "logout" /\ "delete" \in logout[d].todo /\ UNCHANGED <<now, request>>
        /\ entry' = [m \in Method |-> IF m \in logout[d].keys THEN NoEntry ELSE entry[m]]
    BY <1>7 DEF Delete, Did
  <2>2. \A m \in Method : ~Fresh(m)'
    BY <2>1 DEF LogoutInv, FindsAll, Fresh
  <2>3. \A r \in Request, m \in Method : ~CleanWrite(r, m)'
    <3>1. LogoutRuns
      BY <2>1 DEF LogoutRuns
    <3> QED
      BY <2>1, <3>1 DEF LogoutInv, QuietLogout, CleanRun, CleanWrite, WritingTo, Writing
  <2> QED
    BY <2>2, <2>3 DEF CacheInv, Indexed, AddsInOrder
<1>8. CASE UNCHANGED vars
  BY <1>8, SameWrites DEF vars, Writing
<1> QED
  BY <1>1, <1>2, <1>3, <1>4, <1>5, <1>6, <1>7, <1>8, EntryStep, AllowedCache, TickCache DEF Next

-----------------------------------------------------------------------------
(* Types, and the logouts.                                                 *)

LEMMA CoveredIsDroppable ==
    ASSUME IInv, NEW m \in Method, Fresh(m), Covered(m)
    PROVE  \E h \in HoursToDrop(now) \cap Hours : m \in index[h].members
<1>1. PICK h \in Hours : CoveredIn(h, m)
  BY DEF Covered
<1>2. /\ HourOf(entry[m].expires) \in Nat
      /\ HourOf(now) <= HourOf(entry[m].expires)
  BY FreshFacts
<1>3. h \in Nat /\ HourOf(now) \in Nat
  BY HourType DEF Hours, IInv, TypesOK
<1>4. h = HourOf(now) \/ h = HourOf(now) - 1
  BY <1>1, <1>2, <1>3 DEF CoveredIn
<1>5. h \in HoursToDrop(now)
  BY <1>4 DEF HoursToDrop
<1> QED
  BY <1>1, <1>5 DEF CoveredIn

LEMMA DidFacts ==
    ASSUME StoresOK, NEW d \in Logout, NEW done, NEW progress \in LoggingOut, Did(d, done, progress)
    PROVE  /\ logout[d].pc = "logout" /\ done \in logout[d].todo
           /\ logout' \in [Logout -> {Idle} \cup LoggingOut]
           /\ logout'[d] = IF progress.todo = {} THEN Idle ELSE progress
           /\ \A x \in Logout \ {d} : logout'[x] = logout[x]
           /\ loggedOut' = IF progress.todo = {} THEN loggedOut \cup {logout[d].token} ELSE loggedOut
<1>1. /\ logout[d].pc = "logout" /\ done \in logout[d].todo
      /\ logout' = [logout EXCEPT ![d] = IF progress.todo = {} THEN Idle ELSE progress]
      /\ loggedOut' = IF progress.todo = {} THEN loggedOut \cup {logout[d].token} ELSE loggedOut
  BY DEF Did
<1>2. (IF progress.todo = {} THEN Idle ELSE progress) \in {Idle} \cup LoggingOut
  OBVIOUS
<1> QED
  BY <1>1, <1>2 DEF StoresOK

LEMMA StoresStep == IInv /\ DropInv /\ [Next]_vars => StoresOK'
<1> SUFFICES ASSUME IInv, DropInv, [Next]_vars PROVE StoresOK'
  OBVIOUS
<1> USE DEF DropInv
<1>0. now \in Nat /\ now + Hour \in Nat /\ MaxTime + Hour \in Nat /\ MaxTime \in Nat
      /\ now + Hour <= MaxTime + Hour
  BY AuthCacheAssumption DEF IInv, TypesOK, StoresOK
<1>1. ASSUME UNCHANGED <<now, index, logout>> PROVE StoresOK'
  BY <1>1 DEF StoresOK
<1>2. ASSUME NEW r \in Request, SAdd(r) PROVE StoresOK'
  <2>1. request[r].method \in Method
    BY <1>2, Writer DEF IInv, SAdd, Wrote, WriteType
  <2> DEFINE new(h) == [members |-> index[h].members \cup {request[r].method},
                        expires |-> IF index[h] = NoIndex THEN MaxTime + Hour ELSE index[h].expires]
  <2>2. \A h \in Hours : new(h) \in IndexType /\ new(h).expires <= MaxTime + Hour
    BY <1>0, <2>1 DEF StoresOK, IndexType
  <2>3. index' = [index EXCEPT ![request[r].hour] = new(request[r].hour)]
    BY <1>2 DEF SAdd
  <2> HIDE DEF new
  <2>4. index' \in [Hours -> IndexType] /\ \A h \in Hours : index'[h].expires <= MaxTime + Hour
    BY <2>2, <2>3 DEF StoresOK
  <2> QED
    BY <1>2, <2>4 DEF SAdd, StoresOK
<1>3. ASSUME NEW r \in Request, Expire(r) PROVE StoresOK'
  <2> DEFINE hour == request[r].hour
  <2>1. index' = [index EXCEPT ![hour].expires = IF index[hour] = NoIndex THEN @ ELSE now + Hour]
    BY <1>3 DEF Expire
  <2>2. \A h \in Hours : index'[h] \in IndexType /\ index'[h].expires <= MaxTime + Hour
    BY <1>0, <2>1 DEF StoresOK, IndexType
  <2>3. index' \in [Hours -> IndexType]
    BY <2>1, <2>2 DEF StoresOK
  <2> QED
    BY <1>3, <2>2, <2>3 DEF Expire, StoresOK
<1>4. ASSUME NEW d \in Logout, NEW t \in Token, StartLogout(d, t) PROVE StoresOK'
  <2>1. [pc |-> "logout", token |-> t, todo |-> {"revoke", "read"}, hours |-> {}, keys |-> {}] \in LoggingOut
    BY DEF LoggingOut
  <2>2. logout' \in [Logout -> {Idle} \cup LoggingOut]
    BY <1>4, <2>1 DEF StartLogout, StoresOK
  <2> QED
    BY <1>4, <2>2 DEF StartLogout, StoresOK
<1>5. ASSUME NEW d \in Logout, Revoke(d) PROVE StoresOK'
  <2> DEFINE next == [logout[d] EXCEPT !.todo = @ \ {"revoke"}]
  <2>1. logout[d].pc = "logout"
    BY <1>5 DEF Revoke, Did
  <2>2. logout[d] \in LoggingOut
    BY <2>1 DEF StoresOK, Idle
  <2>3. next \in LoggingOut
    BY <2>2 DEF LoggingOut
  <2>4. logout' \in [Logout -> {Idle} \cup LoggingOut]
    BY <1>5, <2>3, DidFacts DEF Revoke
  <2> QED
    BY <1>5, <2>4 DEF Revoke, StoresOK
<1>6. ASSUME NEW d \in Logout, ReadIndexes(d) PROVE StoresOK'
  <2> DEFINE hours == HoursToDrop(now) \cap Hours
             keys == UNION {index[h].members : h \in hours}
             next == [logout[d] EXCEPT !.todo = (@ \ {"read"}) \cup {"delete"}, !.hours = hours, !.keys = keys]
  <2>1. logout[d].pc = "logout"
    BY <1>6 DEF ReadIndexes, Did
  <2>2. logout[d] \in LoggingOut
    BY <2>1 DEF StoresOK, Idle
  <2>3. hours \in SUBSET Hours /\ keys \in SUBSET Method
    BY DEF StoresOK, IndexType
  <2>4. Did(d, "read", next)
    BY <1>6 DEF ReadIndexes
  <2> HIDE DEF hours, keys
  <2>5. next \in LoggingOut
    BY <2>2, <2>3 DEF LoggingOut
  <2> HIDE DEF next
  <2>6. logout' \in [Logout -> {Idle} \cup LoggingOut]
    BY <2>4, <2>5, DidFacts
  <2> QED
    BY <1>6, <2>6 DEF ReadIndexes, StoresOK
<1>7. ASSUME NEW d \in Logout, Delete(d) PROVE StoresOK'
  <2> DEFINE next == [logout[d] EXCEPT !.todo = @ \ {"delete"}]
  <2>1. logout[d].pc = "logout"
    BY <1>7 DEF Delete, Did
  <2>2. logout[d] \in LoggingOut
    BY <2>1 DEF StoresOK, Idle
  <2>3. next \in LoggingOut
    BY <2>2 DEF LoggingOut
  <2>4. logout' \in [Logout -> {Idle} \cup LoggingOut]
    BY <1>7, <2>3, DidFacts DEF Delete
  <2>5. NoIndex \in IndexType /\ NoIndex.expires <= MaxTime + Hour
    BY <1>0 DEF NoIndex, IndexType
  <2>6. index' \in [Hours -> IndexType] /\ \A h \in Hours : index'[h].expires <= MaxTime + Hour
    BY <1>7, <2>5 DEF Delete, StoresOK
  <2> QED
    BY <1>7, <2>4, <2>6 DEF Delete, StoresOK
<1>8. ASSUME NEW d \in Logout, StopLogout(d) PROVE StoresOK'
  BY <1>8 DEF StopLogout, StoresOK
<1>9. ASSUME Tick PROVE StoresOK'
  <2>1. NoIndex \in IndexType /\ NoIndex.expires <= MaxTime + Hour
    BY <1>0 DEF NoIndex, IndexType
  <2>2. index' \in [Hours -> IndexType] /\ \A h \in Hours : index'[h].expires <= MaxTime + Hour
    BY <1>9, <2>1 DEF Tick, StoresOK
  <2>3. now' <= MaxTime
    BY <1>0, <1>9 DEF Tick
  <2> QED
    BY <1>9, <2>2, <2>3 DEF Tick, StoresOK
<1>10. CASE UNCHANGED vars
  BY <1>1, <1>10 DEF vars
<1>11. ASSUME NEW r \in Request, NEW t \in Token, NEW m \in Method, Ask(r, t, m) PROVE StoresOK'
  BY <1>1, <1>11 DEF Ask
<1>12. ASSUME NEW r \in Request, Allowed(r) \/ Refused(r) \/ SetEx(r) \/ StopRequest(r) PROVE StoresOK'
  BY <1>1, <1>12 DEF Allowed, Refused, SetEx, StopRequest
<1> QED
  BY <1>2, <1>3, <1>4, <1>5, <1>6, <1>7, <1>8, <1>9, <1>10, <1>11, <1>12 DEF Next

(* Steps of requests and of the clock: only a clean write makes an entry   *)
(* that is clean, and there is none while a logout runs.                   *)
LEMMA LogoutKept ==
    ASSUME LogoutInv, UNCHANGED <<logout, revoked, loggedOut>>,
           \A r \in Request : CleanRun(r)' => CleanRun(r) \/ ~LogoutRuns,
           \A r \in Request : Writing(r)' /\ request'[r].clean =>
              \/ Writing(r) /\ request[r].clean /\ request'[r].token = request[r].token
              \/ request'[r].token \notin revoked,
           \A m \in Method : Fresh(m)' =>
              \/ Fresh(m) /\ entry'[m] = entry[m]
              \/ ~LogoutRuns /\ entry'[m].token \notin loggedOut
    PROVE  LogoutInv'
<1>1. LogoutRuns' <=> LogoutRuns
  BY DEF LogoutRuns
<1>2. QuietLogout'
  BY <1>1 DEF LogoutInv, QuietLogout
<1>3. FindsAll'
  <2>1. \A d \in Logout : logout[d].pc = "logout" => LogoutRuns
    BY DEF LogoutRuns
  <2> QED
    BY <2>1 DEF LogoutInv, FindsAll
<1>4. StaysOut'
  <2> SUFFICES ASSUME NEW t \in loggedOut
               PROVE  /\ t \in revoked
                      /\ \A r \in Request : Writing(r)' /\ request'[r].token = t => ~request'[r].clean
                      /\ \A m \in Method : Fresh(m)' => entry'[m].token # t
    BY DEF StaysOut
  <2>1. /\ t \in revoked
        /\ \A r \in Request : Writing(r) /\ request[r].token = t => ~request[r].clean
        /\ \A m \in Method : Fresh(m) => entry[m].token # t
    BY DEF LogoutInv, StaysOut
  <2> QED
    BY <2>1
<1> QED
  BY <1>2, <1>3, <1>4 DEF LogoutInv

(* Steps of a logout: nothing becomes clean.                               *)
LEMMA LogoutGoesOn ==
    ASSUME LogoutInv,
           \A d \in Logout : logout'[d].pc = "logout" => logout[d].pc = "logout",
           revoked \subseteq revoked', UNCHANGED request,
           \A m \in Method : Fresh(m)' => Fresh(m) /\ entry'[m] = entry[m],
           NEW d \in Logout, logout[d].pc = "logout",
           \A x \in Logout \ {d} : logout'[x] = logout[x],
           logout'[d].pc = "logout" =>
              /\ "delete" \in logout'[d].todo => \A m \in Method : Fresh(m)' => m \in logout'[d].keys
              /\ logout'[d].todo \cap {"read", "delete"} = {} => \A m \in Method : ~Fresh(m)'
              /\ "revoke" \notin logout'[d].todo => logout'[d].token \in revoked',
           \/ UNCHANGED loggedOut
           \/ /\ loggedOut' = loggedOut \cup {logout[d].token} /\ logout[d].token \in revoked'
              /\ \A m \in Method : ~Fresh(m)'
    PROVE  LogoutInv'
<1>1. LogoutRuns' => LogoutRuns
  BY DEF LogoutRuns
<1>2. QuietLogout'
  BY <1>1 DEF LogoutInv, QuietLogout, CleanRun
<1>3. FindsAll'
  <2> SUFFICES ASSUME NEW x \in Logout, logout'[x].pc = "logout", x # d
               PROVE  /\ "delete" \in logout'[x].todo => \A m \in Method : Fresh(m)' => m \in logout'[x].keys
                      /\ logout'[x].todo \cap {"read", "delete"} = {} => \A m \in Method : ~Fresh(m)'
                      /\ "revoke" \notin logout'[x].todo => logout'[x].token \in revoked'
    BY DEF FindsAll
  <2> QED
    BY DEF LogoutInv, FindsAll
<1>4. \A r \in Request : Writing(r) => ~request[r].clean
  BY DEF LogoutInv, QuietLogout, LogoutRuns, CleanRun, Writing
<1>5. StaysOut'
  <2> SUFFICES ASSUME NEW t \in loggedOut'
               PROVE  /\ t \in revoked'
                      /\ \A r \in Request : Writing(r)' /\ request'[r].token = t => ~request'[r].clean
                      /\ \A m \in Method : Fresh(m)' => entry'[m].token # t
    BY DEF StaysOut
  <2>1. \A r \in Request : Writing(r)' => ~request'[r].clean
    BY <1>4 DEF Writing
  <2>2. CASE t \in loggedOut
    BY <2>1, <2>2 DEF LogoutInv, StaysOut
  <2>3. CASE t \notin loggedOut
    BY <2>1, <2>3
  <2> QED
    BY <2>2, <2>3
<1> QED
  BY <1>2, <1>3, <1>5 DEF LogoutInv

LEMMA RequestsAndLogouts ==
    ASSUME IInv, DropInv,
           NEW r \in Request,
           \/ Allowed(r) \/ Refused(r) \/ SAdd(r) \/ Expire(r) \/ SetEx(r) \/ StopRequest(r)
    PROVE  LogoutInv'
<1> USE DEF IInv, DropInv
<1>1. UNCHANGED <<logout, revoked, loggedOut>>
  BY DEF Allowed, Refused, SAdd, Expire, SetEx, StopRequest
<1>2. CASE Allowed(r)
  <2> DEFINE state == [pc |-> "write", token |-> request[r].token, method |-> request[r].method,
                       clean |-> request[r].clean, hour |-> HourOf(now), todo |-> {"sadd", "setex"}]
  <2>1. /\ request[r].pc = "ask" /\ request[r].token \notin revoked /\ UNCHANGED entry
        /\ request' = [request EXCEPT ![r] = state]
    BY <1>2 DEF Allowed, Become
  <2>2. state.clean = request[r].clean /\ state.token = request[r].token
    OBVIOUS
  <2> HIDE DEF state
  <2>3. request'[r] = state /\ \A q \in Request \ {r} : request'[q] = request[q]
    BY <2>1 DEF TypesOK
  <2>4. \A q \in Request : CleanRun(q)' => CleanRun(q)
    BY <2>1, <2>2, <2>3 DEF CleanRun
  <2>5. \A q \in Request : Writing(q)' /\ request'[q].clean =>
           \/ Writing(q) /\ request[q].clean /\ request'[q].token = request[q].token
           \/ request'[q].token \notin revoked
    BY <2>1, <2>2, <2>3 DEF Writing
  <2> QED
    BY <1>1, <2>1, <2>4, <2>5, LogoutKept DEF Fresh
<1>3. CASE Refused(r) \/ StopRequest(r)
  <2>1. Become(r, Idle) /\ (UNCHANGED entry \/ entry' = [m \in Method |-> DisturbedEntry({r}, m)])
        /\ request[r].pc # "idle"
    BY <1>3 DEF Refused, StopRequest
  <2>2. request'[r] = Idle /\ \A q \in Request \ {r} : request'[q] = request[q]
    BY <2>1, IdleType, Updated
  <2>3. \A q \in Request : (CleanRun(q)' => CleanRun(q))
                           /\ (Writing(q)' => Writing(q) /\ request'[q] = request[q])
    BY <2>2 DEF CleanRun, Writing, Idle
  <2>4. \A m \in Method : Fresh(m)' => Fresh(m) /\ entry'[m] = entry[m]
    <3>1. CASE UNCHANGED entry
      BY <3>1 DEF Fresh
    <3>2. CASE entry' = [m \in Method |-> DisturbedEntry({r}, m)]
      <4>1. {r} \in SUBSET Request /\ \A q \in {r} : request[q].pc # "idle"
        BY <2>1
      <4> QED
        BY <3>2, <4>1, DisturbedIsUnclean DEF Fresh
    <3> QED
      BY <2>1, <3>1, <3>2
  <2> QED
    BY <1>1, <2>3, <2>4, LogoutKept
<1>4. CASE SAdd(r) \/ Expire(r) \/ SetEx(r)
  <2>1. PICK state \in RequestType :
          /\ Become(r, state)
          /\ state.pc = "write" => /\ Writing(r) /\ state.token = request[r].token
                                   /\ state.method = request[r].method /\ state.clean = request[r].clean
    BY <1>4, WroteState DEF SAdd, Expire, SetEx
  <2>2. request'[r] = state /\ \A q \in Request \ {r} : request'[q] = request[q]
    BY <2>1, Updated
  <2>3. Writing(r) /\ request[r] \in WriteType /\ (state.pc # "idle" => state.pc = "write")
    <3>1. Writing(r) /\ request[r] \in WriteType
      BY <1>4, Writer DEF SAdd, Expire, SetEx, Wrote
    <3>2. \E done \in {"sadd", "expire", "setex"}, next \in SUBSET {"expire"} : Wrote(r, done, next)
      BY <1>4 DEF SAdd, Expire, SetEx
    <3>3. PICK done \in {"sadd", "expire", "setex"} : \E next \in SUBSET {"expire"} : Wrote(r, done, next)
      BY <3>2
    <3>4. PICK next \in SUBSET {"expire"} : Wrote(r, done, next)
      BY <3>3
    <3> DEFINE todo == (request[r].todo \ {done}) \cup next
    <3>5. request' = [request EXCEPT ![r] = IF todo = {} THEN Idle ELSE [request[r] EXCEPT !.todo = todo]]
      BY <3>4 DEF Wrote, Become
    <3>6. [request[r] EXCEPT !.todo = todo].pc = "write" /\ Idle.pc = "idle"
      BY <3>1 DEF WriteType, Idle
    <3>7. request'[r].pc \in {"idle", "write"}
      BY <3>5, <3>6 DEF TypesOK
    <3> QED
      BY <2>2, <3>1, <3>7
  <2>4. \A q \in Request : Writing(q)' => /\ Writing(q) /\ request'[q].clean = request[q].clean
                                          /\ request'[q].token = request[q].token
    BY <2>1, <2>2 DEF Writing
  <2>5. \A q \in Request : CleanRun(q)' => CleanRun(q)
    BY <2>1, <2>2, <2>3 DEF CleanRun, Writing
  <2>6. \A m \in Method : Fresh(m)' => \/ Fresh(m) /\ entry'[m] = entry[m]
                                       \/ ~LogoutRuns /\ entry'[m].token \notin loggedOut
    <3>1. CASE SetEx(r)
      <4> DEFINE new == [token |-> request[r].token, expires |-> now + Hour, clean |-> request[r].clean]
      <4>1. entry' = [entry EXCEPT ![request[r].method] = new]
        BY <3>1 DEF SetEx
      <4>2. new.clean = request[r].clean /\ new.token = request[r].token
        OBVIOUS
      <4> HIDE DEF new
      <4>3. \A m \in Method : entry'[m] = IF m = request[r].method THEN new ELSE entry[m]
        BY <4>1 DEF TypesOK
      <4>4. request[r].clean => ~LogoutRuns /\ request[r].token \notin loggedOut
        BY <2>3 DEF LogoutInv, QuietLogout, StaysOut, CleanRun, Writing
      <4> QED
        BY <4>2, <4>3, <4>4 DEF Fresh
    <3>2. CASE SAdd(r) \/ Expire(r)
      BY <3>2 DEF SAdd, Expire, Fresh
    <3> QED
      BY <1>4, <3>1, <3>2
  <2> QED
    BY <1>1, <2>4, <2>5, <2>6, LogoutKept
<1> QED
  BY <1>2, <1>3, <1>4

LEMMA LogoutStep ==
    ASSUME IInv, DropInv, NEW d \in Logout, Revoke(d) \/ ReadIndexes(d) \/ Delete(d) \/ StopLogout(d)
    PROVE  LogoutInv'
<1> USE DEF IInv, DropInv
<1>1. UNCHANGED request
  BY DEF Revoke, ReadIndexes, Delete, StopLogout
<1>2. \A m \in Method : Fresh(m)' => Fresh(m) /\ entry'[m] = entry[m]
  <2>1. CASE Delete(d)
    BY <2>1 DEF Delete, Fresh
  <2>2. CASE UNCHANGED entry
    BY <2>2 DEF Fresh
  <2> QED
    BY <2>1, <2>2 DEF Revoke, ReadIndexes, StopLogout
<1>3. CASE StopLogout(d) /\ logout[d].pc = "logout"
  <2>1. logout'[d] = Idle /\ (\A x \in Logout \ {d} : logout'[x] = logout[x])
        /\ UNCHANGED <<revoked, loggedOut>>
    BY <1>3 DEF StopLogout, StoresOK
  <2>2. \A x \in Logout : logout'[x].pc = "logout" => logout[x].pc = "logout"
    BY <2>1 DEF Idle
  <2>3. logout'[d].pc # "logout"
    BY <2>1 DEF Idle
  <2> QED
    BY <1>1, <1>2, <1>3, <2>1, <2>2, <2>3, LogoutGoesOn
<1>4. StopLogout(d) => logout[d].pc = "logout"
  BY DEF StopLogout, StoresOK, LoggingOut, Idle
(* What the logout knew before its command.                                *)
<1>5. logout[d].pc = "logout" =>
         /\ "delete" \in logout[d].todo => \A m \in Method : Fresh(m) => m \in logout[d].keys
         /\ logout[d].todo \cap {"read", "delete"} = {} => \A m \in Method : ~Fresh(m)
         /\ "revoke" \notin logout[d].todo => logout[d].token \in revoked
  BY DEF LogoutInv, FindsAll
<1>6. CASE Revoke(d)
  <2> DEFINE todo == logout[d].todo \ {"revoke"}
             next == [logout[d] EXCEPT !.todo = todo]
  <2>1. Did(d, "revoke", next) /\ revoked' = revoked \cup {logout[d].token} /\ UNCHANGED entry
    BY <1>6 DEF Revoke
  <2>2. logout[d].pc = "logout"
    BY <2>1 DEF Did
  <2>3. logout[d] \in LoggingOut
    BY <2>2 DEF StoresOK, Idle
  <2>4. /\ next \in LoggingOut /\ next.todo = todo /\ next.token = logout[d].token
        /\ next.keys = logout[d].keys
    BY <2>3 DEF LoggingOut
  <2> HIDE DEF next
  <2>5. /\ logout'[d] = IF todo = {} THEN Idle ELSE next
        /\ \A x \in Logout \ {d} : logout'[x] = logout[x]
        /\ loggedOut' = IF todo = {} THEN loggedOut \cup {logout[d].token} ELSE loggedOut
    BY <2>1, <2>4, DidFacts
  <2>6. \A x \in Logout : logout'[x].pc = "logout" => logout[x].pc = "logout"
    BY <2>2, <2>5
  <2>7. \A m \in Method : Fresh(m)' <=> Fresh(m)
    BY <2>1 DEF Fresh
  <2>8. todo \cap {"read", "delete"} = logout[d].todo \cap {"read", "delete"}
    OBVIOUS
  <2>9. logout'[d].pc = "logout" => logout'[d] = next
    BY <2>5 DEF Idle
  <2>10. todo = {} => \A m \in Method : ~Fresh(m)'
    <3>1. todo = {} => todo \cap {"read", "delete"} = {}
      OBVIOUS
    <3> QED
      BY <1>5, <2>2, <2>7, <2>8, <3>1
  <2>11. "delete" \in todo <=> "delete" \in logout[d].todo
    OBVIOUS
  <2> HIDE DEF todo
  <2>12. logout'[d].pc = "logout" =>
            /\ "delete" \in logout'[d].todo => \A m \in Method : Fresh(m)' => m \in logout'[d].keys
            /\ logout'[d].todo \cap {"read", "delete"} = {} => \A m \in Method : ~Fresh(m)'
            /\ "revoke" \notin logout'[d].todo => logout'[d].token \in revoked'
    BY <1>5, <2>1, <2>2, <2>4, <2>7, <2>8, <2>9, <2>11
  <2> QED
    BY <1>1, <1>2, <2>1, <2>2, <2>5, <2>6, <2>10, <2>12, LogoutGoesOn
<1>7. CASE ReadIndexes(d)
  <2> DEFINE todo == (logout[d].todo \ {"read"}) \cup {"delete"}
             hours == HoursToDrop(now) \cap Hours
             keys == UNION {index[h].members : h \in hours}
             next == [logout[d] EXCEPT !.todo = todo, !.hours = hours, !.keys = keys]
  <2>1. Did(d, "read", next) /\ UNCHANGED <<entry, revoked>>
    BY <1>7 DEF ReadIndexes
  <2>2. logout[d].pc = "logout"
    BY <2>1 DEF Did
  <2>3. logout[d] \in LoggingOut
    BY <2>2 DEF StoresOK, Idle
  <2>4. hours \in SUBSET Hours /\ keys \in SUBSET Method
    BY DEF StoresOK, IndexType
  <2>5. ASSUME NEW m \in Method, Fresh(m) PROVE m \in keys
    <3>1. LogoutRuns
      BY <2>2 DEF LogoutRuns
    <3>2. ~Pending(m)
      BY <3>1 DEF LogoutInv, QuietLogout, CleanRun, Pending, CleanWrite, WritingTo, Writing
    <3>3. Covered(m)
      BY <2>5, <3>2 DEF CacheInv, Indexed
    <3>4. \E h \in hours : m \in index[h].members
      BY <2>5, <3>3, CoveredIsDroppable
    <3> QED
      BY <3>4
  <2> HIDE DEF hours, keys
  <2>6. todo # {} /\ "delete" \in todo /\ ("revoke" \in todo <=> "revoke" \in logout[d].todo)
    OBVIOUS
  <2>7. /\ next \in LoggingOut /\ next.todo = todo /\ next.token = logout[d].token
        /\ next.keys = keys
    BY <2>3, <2>4 DEF LoggingOut
  <2> HIDE DEF todo, next
  <2>8. logout'[d] = next /\ (\A x \in Logout \ {d} : logout'[x] = logout[x]) /\ loggedOut' = loggedOut
    BY <2>1, <2>6, <2>7, DidFacts
  <2>9. \A x \in Logout : logout'[x].pc = "logout" => logout[x].pc = "logout"
    BY <2>2, <2>8
  <2>10. \A m \in Method : Fresh(m)' => m \in keys
    BY <1>2, <2>5
  <2>11. todo \cap {"read", "delete"} # {}
    BY <2>6
  <2>12. /\ "delete" \in logout'[d].todo => \A m \in Method : Fresh(m)' => m \in logout'[d].keys
         /\ logout'[d].todo \cap {"read", "delete"} = {} => \A m \in Method : ~Fresh(m)'
         /\ "revoke" \notin logout'[d].todo => logout'[d].token \in revoked'
    BY <1>5, <2>1, <2>2, <2>6, <2>7, <2>8, <2>10, <2>11
  <2> QED
    BY <1>1, <1>2, <2>1, <2>2, <2>8, <2>9, <2>12, LogoutGoesOn
<1>8. CASE Delete(d)
  <2> DEFINE todo == logout[d].todo \ {"delete"}
             next == [logout[d] EXCEPT !.todo = todo]
  <2>1. /\ Did(d, "delete", next) /\ UNCHANGED revoked
        /\ entry' = [m \in Method |-> IF m \in logout[d].keys THEN NoEntry ELSE entry[m]]
    BY <1>8 DEF Delete
  <2>2. logout[d].pc = "logout" /\ "delete" \in logout[d].todo
    BY <2>1 DEF Did
  <2>3. logout[d] \in LoggingOut
    BY <2>2 DEF StoresOK, Idle
  <2>4. next \in LoggingOut /\ next.todo = todo /\ next.token = logout[d].token
    BY <2>3 DEF LoggingOut
  <2> HIDE DEF next
  <2>5. /\ logout'[d] = IF todo = {} THEN Idle ELSE next
        /\ \A x \in Logout \ {d} : logout'[x] = logout[x]
        /\ loggedOut' = IF todo = {} THEN loggedOut \cup {logout[d].token} ELSE loggedOut
    BY <2>1, <2>4, DidFacts
  <2>6. \A x \in Logout : logout'[x].pc = "logout" => logout[x].pc = "logout"
    BY <2>2, <2>5
  <2>7. \A m \in Method : ~Fresh(m)'
    BY <1>5, <2>1, <2>2 DEF Fresh
  <2>8. logout'[d].pc = "logout" => logout'[d] = next
    BY <2>5 DEF Idle
  <2>9. /\ todo = {} => "revoke" \notin logout[d].todo
        /\ "revoke" \notin todo => "revoke" \notin logout[d].todo
    OBVIOUS
  <2> HIDE DEF todo
  <2>10. logout'[d].pc = "logout" =>
            /\ "delete" \in logout'[d].todo => \A m \in Method : Fresh(m)' => m \in logout'[d].keys
            /\ logout'[d].todo \cap {"read", "delete"} = {} => \A m \in Method : ~Fresh(m)'
            /\ "revoke" \notin logout'[d].todo => logout'[d].token \in revoked'
    BY <1>5, <2>1, <2>2, <2>4, <2>7, <2>8, <2>9
  <2>11. todo = {} => logout[d].token \in revoked'
    BY <1>5, <2>1, <2>2, <2>9
  <2> QED
    BY <1>1, <1>2, <2>1, <2>2, <2>5, <2>6, <2>7, <2>10, <2>11, LogoutGoesOn
<1> QED
  BY <1>3, <1>4, <1>6, <1>7, <1>8

(* A logout starts: whoever runs is disturbed.                             *)
LEMMA LogoutStarts ==
    ASSUME IInv, DropInv, NEW d \in Logout, NEW t \in Token, StartLogout(d, t)
    PROVE  LogoutInv'
<1> USE DEF IInv, DropInv
<1> DEFINE busy == {r \in Request : request[r].pc # "idle"}
           state == [pc |-> "logout", token |-> t, todo |-> {"revoke", "read"}, hours |-> {}, keys |-> {}]
<1>1. /\ request' = Disturbed(busy) /\ entry' = [m \in Method |-> DisturbedEntry(busy, m)]
      /\ logout' = [logout EXCEPT ![d] = state] /\ UNCHANGED <<revoked, loggedOut>>
  BY DEF StartLogout
<1>2. busy \in SUBSET Request /\ \A r \in busy : request[r].pc # "idle"
  OBVIOUS
<1>3. \A r \in Request : r \notin busy => request[r].pc = "idle"
  OBVIOUS
<1> HIDE DEF busy
<1>4. state.todo = {"revoke", "read"}
  OBVIOUS
<1> HIDE DEF state
<1>5. \A r \in Request : ~CleanRun(r)'
  BY <1>1, <1>2, <1>3, DisturbedIsUnclean DEF CleanRun
<1>6. \A m \in Method : Fresh(m)' => Fresh(m) /\ entry'[m] = entry[m]
  BY <1>1, <1>2, DisturbedIsUnclean DEF Fresh
<1>7. logout'[d] = state /\ \A x \in Logout \ {d} : logout'[x] = logout[x]
  BY <1>1 DEF StoresOK
<1>8. QuietLogout'
  BY <1>5 DEF QuietLogout
<1>9. FindsAll'
  <2> SUFFICES ASSUME NEW x \in Logout, logout'[x].pc = "logout"
               PROVE  /\ "delete" \in logout'[x].todo => \A m \in Method : Fresh(m)' => m \in logout'[x].keys
                      /\ logout'[x].todo \cap {"read", "delete"} = {} => \A m \in Method : ~Fresh(m)'
                      /\ "revoke" \notin logout'[x].todo => logout'[x].token \in revoked'
    BY DEF FindsAll
  <2>1. CASE x = d
    BY <1>4, <1>7, <2>1
  <2>2. CASE x # d
    BY <1>1, <1>6, <1>7, <2>2 DEF LogoutInv, FindsAll
  <2> QED
    BY <2>1, <2>2
<1>10. StaysOut'
  <2>1. \A r \in Request : Writing(r)' => ~request'[r].clean
    BY <1>5 DEF CleanRun, Writing
  <2> QED
    BY <1>1, <1>6, <2>1 DEF LogoutInv, StaysOut
<1> QED
  BY <1>8, <1>9, <1>10 DEF LogoutInv

LEMMA LogoutsStep == IInv /\ DropInv /\ [Next]_vars => LogoutInv'
<1> SUFFICES ASSUME IInv, DropInv, [Next]_vars PROVE LogoutInv'
  OBVIOUS
<1> USE DEF IInv, DropInv
<1>1. ASSUME NEW r \in Request, NEW t \in Token, NEW m \in Method, Ask(r, t, m) PROVE LogoutInv'
  <2> DEFINE state == [pc |-> "ask", token |-> t, method |-> m, clean |-> ~LogoutRuns]
  <2>1. /\ UNCHANGED <<entry, logout, revoked, loggedOut>> /\ request' = [request EXCEPT ![r] = state]
    BY <1>1 DEF Ask, Become
  <2>2. state.pc = "ask" /\ state.clean = ~LogoutRuns
    OBVIOUS
  <2> HIDE DEF state
  <2>3. request'[r] = state /\ \A q \in Request \ {r} : request'[q] = request[q]
    BY <2>1 DEF TypesOK
  <2>4. \A q \in Request : CleanRun(q)' => CleanRun(q) \/ ~LogoutRuns
    BY <2>2, <2>3, Zenon DEF CleanRun
  <2>5. \A q \in Request : Writing(q)' => Writing(q) /\ request'[q] = request[q]
    BY <2>2, <2>3 DEF Writing
  <2> QED
    BY <2>1, <2>4, <2>5, LogoutKept DEF Fresh
<1>2. CASE Tick
  <2> DEFINE slow == {r \in Request : Writing(r)}
  <2>1. /\ request' = Disturbed(slow) /\ UNCHANGED <<logout, revoked, loggedOut>>
        /\ \A m \in Method : entry'[m] = NoEntry \/ entry'[m] = DisturbedEntry(slow, m)
    BY <1>2 DEF Tick
  <2>2. slow \in SUBSET Request /\ \A r \in slow : request[r].pc # "idle"
    BY DEF Writing
  <2> HIDE DEF slow
  <2>3. \A r \in Request : CleanRun(r)' => CleanRun(r) /\ request'[r] = request[r]
    BY <2>1, <2>2, DisturbedIsUnclean DEF CleanRun
  <2>4. \A m \in Method : Fresh(m)' => Fresh(m) /\ entry'[m] = entry[m]
    BY <2>1, <2>2, DisturbedIsUnclean DEF Fresh
  <2>5. \A r \in Request : Writing(r)' /\ request'[r].clean => CleanRun(r)'
    BY DEF Writing, CleanRun
  <2>6. \A r \in Request : Writing(r)' /\ request'[r].clean =>
           Writing(r) /\ request[r].clean /\ request'[r].token = request[r].token
    BY <2>3, <2>5 DEF Writing
  <2> QED
    BY <2>1, <2>3, <2>4, <2>6, LogoutKept
<1>3. CASE UNCHANGED vars
  BY <1>3, LogoutKept DEF vars, CleanRun, Writing, Fresh
<1> QED
  BY <1>1, <1>2, <1>3, RequestsAndLogouts, LogoutStep, LogoutStarts DEF Next

LEMMA DropInit == Init => DropInv
<1> SUFFICES ASSUME Init PROVE DropInv
  OBVIOUS
<1>1. NoIndex \in IndexType /\ NoIndex.expires <= MaxTime + Hour
  BY AuthCacheAssumption DEF NoIndex, IndexType
<1>2. StoresOK
  BY <1>1, AuthCacheAssumption DEF Init, StoresOK
<1>3. \A r \in Request : request[r].pc = "idle"
  BY DEF Init, Idle
<1>4. CacheInv
  BY <1>3 DEF Init, CacheInv, Indexed, AddsInOrder, Fresh, CleanWrite, WritingTo, Writing
<1>5. LogoutInv
  <2>1. \A d \in Logout : logout[d].pc # "logout"
    BY DEF Init, Idle
  <2> QED
    BY <1>3, <2>1 DEF Init, LogoutInv, QuietLogout, FindsAll, StaysOut, CleanRun
<1> QED
  BY <1>2, <1>4, <1>5 DEF DropInv

LEMMA Invariant == Spec => []IInv
  BY InitInv, NextInv, PTL DEF Spec

(* The keys of Redis and the requests in flight keep their types.          *)
THEOREM TypeCorrect == Spec => []TypesOK
  BY Invariant, PTL DEF IInv

(* checkCache answers yes only for what the auth service has answered yes, *)
(* to the same token, within the hour of SETEX; only a write that came     *)
(* later than the answer is excepted.                                      *)
THEOREM HitInvariant == Spec => []HitIsRecent
<1>1. IInv => HitIsRecent
  BY DEF IInv, ExpiresInTime, HitIsRecent, Hit
<1> QED
  BY <1>1, Invariant, PTL

LEMMA DropInvariant == Spec => []DropInv
<1>1. IInv /\ IInv' /\ DropInv /\ [Next]_vars => DropInv'
  BY StoresStep, CacheStep, LogoutsStep DEF DropInv
<1> QED
  BY <1>1, DropInit, Invariant, PTL DEF Spec

(* The two indexes that dropCache reads are enough, across the turn of an  *)
(* hour and whatever entries were written again: each entry that lives and *)
(* was written undisturbed is a member of one of them.                     *)
THEOREM DroppableInvariant == Spec => []Droppable
<1>1. IInv /\ DropInv => Droppable
  <2> SUFFICES ASSUME IInv, DropInv, NEW m \in Method, Fresh(m), \A r \in Request : ~WritingTo(r, m)
               PROVE  \E h \in HoursToDrop(now) \cap Hours : m \in index[h].members
    BY DEF Droppable, Fresh
  <2>1. Covered(m)
    BY DEF DropInv, CacheInv, Indexed, Pending, CleanWrite
  <2> QED
    BY <2>1, CoveredIsDroppable
<1> QED
  BY <1>1, Invariant, DropInvariant, PTL

(* After a logout that completed, checkCache lets the token through        *)
(* nowhere, whatever requests and logouts overlapped before, but for an    *)
(* entry whose write was under way during a logout, or slow, or stopped.   *)
THEOREM LoggedOutInvariant == Spec => []LoggedOut
<1>1. DropInv => LoggedOut
  BY DEF DropInv, LogoutInv, StaysOut, LoggedOut, Hit, Fresh
<1> QED
  BY <1>1, DropInvariant, PTL

=============================================================================
