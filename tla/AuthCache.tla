------------------------------ MODULE AuthCache ------------------------------
(***************************************************************************)
(* Cached answers of the auth service: that a token may call a method with *)
(* some parameters.  Each answer has a Redis key of its own, which lives   *)
(* for an hour; so that logout can find the keys of a token, they are also *)
(* members of an index set, one set per hour, which lives for an hour too. *)
(*                                                                         *)
(* Source: src/src/auth/AuthCache.ts, src/src/auth/AuthMiddlewareFactory   *)
(* .ts, SessionService.logout in src/src/core/session/SessionService.ts.   *)
(* The tokens modelled share one token key (the same user_id and iat, so   *)
(* only the hash kept in an entry tells them apart); tokens with other     *)
(* keys have other entries and indexes.  Each Redis command is a step.     *)
(***************************************************************************)
EXTENDS Naturals, FiniteSets

CONSTANTS
    Token,        \* tokens with the same token key
    Method,       \* method ids with parameters: the entries' keys
    Request,      \* requests that may run at the same time
    Logout,       \* logouts that may run at the same time
    Hour,         \* ticks of the clock in an hour: 3600 seconds
    MaxTime,      \* bound: the clock
    MaxFailures   \* bound: requests and logouts that stop half-way

ASSUME AuthCacheAssumption ==
    /\ Hour \in Nat \ {0}
    /\ MaxTime \in Nat /\ Hour <= MaxTime
    /\ MaxFailures \in Nat

VARIABLES
    now,        \* the clock, the same for all processes and Redis
    entry,      \* [Method -> cached answer]
    index,      \* [hour -> index set]
    request,    \* progress of each request
    logout,     \* progress of each logout
    revoked,    \* tokens the auth service refuses
    lastOk,     \* history: [Token \X Method -> time of the service's last yes,
                \* or 0 when that is an hour ago]
    loggedOut,  \* history: tokens with a completed logout
    failures    \* failures so far

vars == <<now, entry, index, request, logout, revoked, lastOk, loggedOut, failures>>

NoEntry == [token |-> "none"]
NoIndex == [members |-> {}, expires |-> 0]
Idle == [pc |-> "idle"]

HourOf(time) == time \div Hour
Hours == 0..HourOf(MaxTime)

(* Mutant: the token's hash is not compared.                               *)
HitOfAnyToken(t, m) == entry[m] # NoEntry

(* checkCache: an entry answers only for the token that it was written for *)
Hit(t, m) == entry[m] # NoEntry /\ entry[m].token = t

(* Mutant: only the index of this hour.                                    *)
HoursToDropNow(time) == {HourOf(time)}

(* lastHourIndex and currentHourIndex.                                     *)
HoursToDrop(time) == {HourOf(time) - 1, HourOf(time)}

Init ==
    /\ now = Hour
    /\ entry = [m \in Method |-> NoEntry]
    /\ index = [h \in Hours |-> NoIndex]
    /\ request = [r \in Request |-> Idle]
    /\ logout = [d \in Logout |-> Idle]
    /\ revoked = {}
    /\ lastOk = [x \in Token \X Method |-> 0]
    /\ loggedOut = {}
    /\ failures = 0

Become(r, state) == request' = [request EXCEPT ![r] = state]
LogoutRuns == \E d \in Logout : logout[d].pc = "logout"
Writing(r) == request[r].pc = "write"
WritingTo(r, m) == Writing(r) /\ request[r].method = m

(* History kept in the field clean of a request and of the entry it wrote: *)
(* no logout ran during the request, and the write began and ended without *)
(* a stop in the tick of the answer.  Disturbed is what R and the entries  *)
(* being written by R become when that ends.                               *)
Disturbed(R) == [r \in Request |->
    IF r \in R THEN [request[r] EXCEPT !.clean = FALSE] ELSE request[r]]
DisturbedEntry(R, m) ==
    IF entry[m] # NoEntry /\ \E r \in R : WritingTo(r, m)
    THEN [entry[m] EXCEPT !.clean = FALSE] ELSE entry[m]

-----------------------------------------------------------------------------
(* AuthMiddlewareFactory.create, callAuthService and writeToCache.         *)

(* A miss, or a request with ?cache=no.  A hit changes nothing.            *)
Ask(r, t, m) ==
    /\ request[r].pc = "idle"
    /\ Become(r, [pc |-> "ask", token |-> t, method |-> m, clean |-> ~LogoutRuns])
    /\ UNCHANGED <<now, entry, index, logout, revoked, lastOk, loggedOut, failures>>

(* The service answers yes, and the request goes on.  The callback given   *)
(* to process.nextTick runs before any other input is handled, so it is a  *)
(* part of the step: writeToCache chooses the index by the clock.          *)
Allowed(r) ==
    /\ request[r].pc = "ask"
    /\ request[r].token \notin revoked
    /\ lastOk' = [lastOk EXCEPT ![<<request[r].token, request[r].method>>] = now]
    /\ Become(r, [pc |-> "write", token |-> request[r].token, method |-> request[r].method,
                  clean |-> request[r].clean, hour |-> HourOf(now), todo |-> {"sadd", "setex"}])
    /\ UNCHANGED <<now, entry, index, logout, revoked, loggedOut, failures>>

Refused(r) ==
    /\ request[r].pc = "ask"
    /\ request[r].token \in revoked
    /\ Become(r, Idle)
    /\ UNCHANGED <<now, entry, index, logout, revoked, lastOk, loggedOut, failures>>

Wrote(r, done, next) ==
    LET todo == (request[r].todo \ {done}) \cup next
    IN  /\ Writing(r)
        /\ done \in request[r].todo
        /\ Become(r, IF todo = {} THEN Idle ELSE [request[r] EXCEPT !.todo = todo])

(* A new index has no time to live before EXPIRE gives it one.             *)
SAdd(r) ==
    /\ Wrote(r, "sadd", {"expire"})
    /\ index' = [index EXCEPT ![request[r].hour] =
            [members |-> @.members \cup {request[r].method},
             expires |-> IF @ = NoIndex THEN MaxTime + Hour ELSE @.expires]]
    /\ UNCHANGED <<now, entry, logout, revoked, lastOk, loggedOut, failures>>

(* EXPIRE of a key that is gone does nothing.                              *)
Expire(r) ==
    /\ Wrote(r, "expire", {})
    /\ index' = [index EXCEPT ![request[r].hour].expires =
            IF index[request[r].hour] = NoIndex THEN @ ELSE now + Hour]
    /\ UNCHANGED <<now, entry, logout, revoked, lastOk, loggedOut, failures>>

SetEx(r) ==
    /\ Wrote(r, "setex", {})
    /\ entry' = [entry EXCEPT ![request[r].method] =
            [token |-> request[r].token, expires |-> now + Hour, clean |-> request[r].clean]]
    /\ UNCHANGED <<now, index, logout, revoked, lastOk, loggedOut, failures>>

-----------------------------------------------------------------------------
(* SessionService.logout: dropCache and the logout service in parallel.    *)

StartLogout(d, t) ==
    /\ logout[d].pc = "idle"
    /\ t \notin loggedOut
    /\ logout' = [logout EXCEPT ![d] =
            [pc |-> "logout", token |-> t, todo |-> {"revoke", "read"}, hours |-> {}, keys |-> {}]]
    /\ LET busy == {r \in Request : request[r].pc # "idle"}
       IN  /\ request' = Disturbed(busy)
           /\ entry' = [m \in Method |-> DisturbedEntry(busy, m)]
    /\ UNCHANGED <<now, index, revoked, lastOk, loggedOut, failures>>

(* Both parts of Promise.all have ended when no command is left to do.     *)
Did(d, done, progress) ==
    /\ logout[d].pc = "logout"
    /\ done \in logout[d].todo
    /\ logout' = [logout EXCEPT ![d] = IF progress.todo = {} THEN Idle ELSE progress]
    /\ loggedOut' = IF progress.todo = {} THEN loggedOut \cup {logout[d].token} ELSE loggedOut

Revoke(d) ==
    /\ Did(d, "revoke", [logout[d] EXCEPT !.todo = @ \ {"revoke"}])
    /\ revoked' = revoked \cup {logout[d].token}
    /\ UNCHANGED <<now, entry, index, request, lastOk, failures>>

(* SUNION of the two indexes.                                              *)
ReadIndexes(d) ==
    /\ LET hours == HoursToDrop(now) \cap Hours
       IN  Did(d, "read", [logout[d] EXCEPT
               !.todo = (@ \ {"read"}) \cup {"delete"},
               !.hours = hours,
               !.keys = UNION {index[h].members : h \in hours}])
    /\ UNCHANGED <<now, entry, index, request, revoked, lastOk, failures>>

(* Mutant: the entries stay.                                               *)
DeleteIndexesOnly(d) ==
    /\ Did(d, "delete", [logout[d] EXCEPT !.todo = @ \ {"delete"}])
    /\ index' = [h \in Hours |-> IF h \in logout[d].hours THEN NoIndex ELSE index[h]]
    /\ UNCHANGED <<now, entry, request, revoked, lastOk, failures>>

(* DEL of the two indexes and of the keys that were read.                  *)
Delete(d) ==
    /\ Did(d, "delete", [logout[d] EXCEPT !.todo = @ \ {"delete"}])
    /\ index' = [h \in Hours |-> IF h \in logout[d].hours THEN NoIndex ELSE index[h]]
    /\ entry' = [m \in Method |-> IF m \in logout[d].keys THEN NoEntry ELSE entry[m]]
    /\ UNCHANGED <<now, request, revoked, lastOk, failures>>

-----------------------------------------------------------------------------
(* The process stops, or Redis or the logout service fails.                *)
StopRequest(r) ==
    /\ request[r].pc # "idle"
    /\ failures < MaxFailures
    /\ failures' = failures + 1
    /\ entry' = [m \in Method |-> DisturbedEntry({r}, m)]
    /\ Become(r, Idle)
    /\ UNCHANGED <<now, index, logout, revoked, lastOk, loggedOut>>

StopLogout(d) ==
    /\ logout[d].pc # "idle"
    /\ failures < MaxFailures
    /\ failures' = failures + 1
    /\ logout' = [logout EXCEPT ![d] = Idle]
    /\ UNCHANGED <<now, entry, index, request, revoked, lastOk, loggedOut>>

(* Time passes, and Redis removes the keys that expire.                    *)
Tick ==
    /\ now < MaxTime
    /\ now' = now + 1
    /\ LET slow == {r \in Request : Writing(r)}
       IN  /\ request' = Disturbed(slow)
           /\ entry' = [m \in Method |->
                IF entry[m] # NoEntry /\ entry[m].expires = now'
                THEN NoEntry ELSE DisturbedEntry(slow, m)]
    /\ index' = [h \in Hours |-> IF index[h] # NoIndex /\ index[h].expires = now'
                                 THEN NoIndex ELSE index[h]]
    /\ lastOk' = [x \in Token \X Method |-> IF lastOk[x] + Hour = now' THEN 0 ELSE lastOk[x]]
    /\ UNCHANGED <<logout, revoked, loggedOut, failures>>

Next ==
    \/ \E r \in Request :
        \/ \E t \in Token, m \in Method : Ask(r, t, m)
        \/ Allowed(r) \/ Refused(r)
        \/ SAdd(r) \/ Expire(r) \/ SetEx(r)
        \/ StopRequest(r)
    \/ \E d \in Logout :
        \/ \E t \in Token : StartLogout(d, t)
        \/ Revoke(d) \/ ReadIndexes(d) \/ Delete(d)
        \/ StopLogout(d)
    \/ Tick

Spec == Init /\ [][Next]_vars

-----------------------------------------------------------------------------
(* The indexes of this hour and of the last one are enough: at every time, *)
(* across the turn of an hour and when an entry is written again while its *)
(* index grows old, every entry that lives is in one of them, so that a    *)
(* logout now would drop it.  Only an entry whose write was slow, stopped, *)
(* or met a logout can be missed.                                          *)
Droppable ==
    \A m \in Method :
        (/\ entry[m] # NoEntry
         /\ entry[m].clean
         /\ \A r \in Request : ~WritingTo(r, m))
        => \E h \in HoursToDrop(now) \cap Hours : m \in index[h].members

(* Once a logout has completed, the cache lets the token through nowhere,  *)
(* unless the entry was written by a request that was under way during a   *)
(* logout, or was one that the indexes had lost.                           *)
LoggedOut ==
    \A t \in loggedOut, m \in Method : Hit(t, m) => ~entry[m].clean

(* The cache lets a token through only where the auth service has allowed  *)
(* the same token within the last hour, though tokens issued in the same   *)
(* second share their keys, unless the write came later than the answer.   *)
HitIsRecent ==
    \A t \in Token, m \in Method :
        Hit(t, m) => lastOk[<<t, m>>] > 0 \/ ~entry[m].clean

=============================================================================
