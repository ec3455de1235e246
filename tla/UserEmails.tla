----------------------------- MODULE UserEmails -----------------------------
(***************************************************************************)
(* The email addresses of users: registration, a change that both the old  *)
(* and the new address confirm, a direct update, and removal.  A user is a *)
(* row of the User table and a row of the UserDetail table in DynamoDB; a  *)
(* change is a row in Postgres.                                            *)
(*                                                                         *)
(* Source: UserEmailChangeService.ts, UserEmailChangeTable.ts, UserTable   *)
(* .ts, UserResolver.ts and UserService.ts in src/src/core/user, and       *)
(* src/src/cache/CacheMixin.ts.  The User table is read through Redis; the *)
(* SET and DEL commands that keep Redis up to date are awaited by nobody,  *)
(* and those of one request arrive in order.  Addresses are compared and   *)
(* stored in lower case and trimmed, so an Email here is a mailbox.        *)
(***************************************************************************)
EXTENDS Naturals, Sequences

CONSTANTS
    User,         \* user ids (uuids)
    Email,        \* mailboxes
    NoEmail,      \* no row, or no key in Redis
    Registered,   \* [User -> Email or NoEmail]: the users there are at first
    Change,       \* ids of the rows of email_change
    Request,      \* requests that may run at the same time
    MaxRequests,  \* bound: requests
    MaxFailures   \* bound: requests that stop half-way

ASSUME UserEmailsAssumption ==
    /\ NoEmail \notin Email
    /\ Registered \in [User -> Email \cup {NoEmail}]
    /\ \A u, v \in User : Registered[u] = Registered[v] => u = v \/ Registered[u] = NoEmail
    /\ MaxRequests \in Nat
    /\ MaxFailures \in Nat

VARIABLES
    email,      \* [User -> Email or NoEmail]: the User table
    detail,     \* users with a row in UserDetail
    cached,     \* [User -> Email or NoEmail]: the keys User_<id> in Redis
    sent,       \* [Request -> sequence of commands on their way to Redis]
    change,     \* [Change -> row of email_change]
    request,    \* progress of each request
    requests,   \* requests so far
    failures,   \* requests that stopped half-way
    rewrites,   \* history: [User -> how often the email was written over]
    overlapped, \* history: emails checked by two requests before either wrote
    raced,      \* history: users whose commands to Redis crossed or were lost
    applied,    \* history: changes that were written to the user
    spoilt      \* history: changes refused or interrupted after both confirmed

tables == <<email, detail, rewrites, overlapped>>
cache == <<cached, sent, raced>>
history == <<applied, spoilt>>
vars == <<email, detail, cached, sent, change, request, requests, failures,
          rewrites, overlapped, raced, applied, spoilt>>

Idle == [pc |-> "idle"]
NoChange == [state |-> "none"]
Exists(u) == email[u] # NoEmail
Requested(c) == change[c].state # "none"
Confirmed(c) == Requested(c) /\ change[c].oldOn /\ change[c].newOn

(* UserTable.getByEmail: the index, whether or not there is a detail row.  *)
Holders(e) == {u \in User : email[u] = e}

(* UserResolver.getByEmail also wants the detail row.                      *)
InUse(e) == Holders(e) \cap detail # {}

Init ==
    /\ email = Registered
    /\ detail = {u \in User : Registered[u] # NoEmail}
    /\ cached = [u \in User |-> NoEmail]
    /\ sent = [r \in Request |-> <<>>]
    /\ change = [c \in Change |-> NoChange]
    /\ request = [r \in Request |-> Idle]
    /\ requests = 0 /\ failures = 0
    /\ rewrites = [u \in User |-> 0]
    /\ overlapped = {} /\ raced = {} /\ applied = {} /\ spoilt = {}

Become(r, state) == request' = [request EXCEPT ![r] = state]

Begin(r, state) ==
    /\ request[r].pc = "idle"
    /\ requests < MaxRequests
    /\ requests' = requests + 1
    /\ Become(r, state)

-----------------------------------------------------------------------------
(* Redis.  A command is a user and the email to store, NoEmail for DEL.    *)

Crossing(r, u, e) ==
    \E q \in Request \ {r} :
        \E i \in 1..Len(sent[q]) : sent[q][i][1] = u /\ sent[q][i][2] # e

(* No command for the user is on its way, and none crossed or was lost.    *)
Settled(u) ==
    /\ u \notin raced
    /\ \A r \in Request : \A i \in 1..Len(sent[r]) : sent[r][i][1] # u

(* A command like the last one on its way changes nothing and is left out. *)
Send(r, u, e) ==
    /\ sent' = IF sent[r] # <<>> /\ sent[r][Len(sent[r])] = <<u, e>> THEN sent
               ELSE [sent EXCEPT ![r] = Append(@, <<u, e>>)]
    /\ raced' = IF Crossing(r, u, e) THEN raced \cup {u} ELSE raced
    /\ UNCHANGED cached

(* Mutant: an update does not refresh the cache.                           *)
RefreshNever(r, u, e) == UNCHANGED cache

(* updateCache and dropCache: after the table was written.                 *)
Refresh(r, u, e) == Send(r, u, e)

(* cached: a miss reads the table, answers, and fills the key.             *)
CachedEmail(u) == IF cached[u] # NoEmail THEN cached[u] ELSE email[u]

ReadThrough(r, u) ==
    IF cached[u] = NoEmail /\ Exists(u) THEN Send(r, u, email[u]) ELSE UNCHANGED cache

Deliver(r) ==
    /\ sent[r] # <<>>
    /\ LET command == Head(sent[r])
       IN  cached' = [cached EXCEPT ![command[1]] = command[2]]
    /\ sent' = [sent EXCEPT ![r] = Tail(@)]
    /\ UNCHANGED <<tables, change, request, requests, failures, raced, history>>

-----------------------------------------------------------------------------
(* Writing an email: UserTable.put and update ask the index first.         *)

Writing(e) == {r \in Request : request[r].pc \in {"write", "put"} /\ request[r].email = e}

(* Mutant: put and update do not ask.                                      *)
FreeAlways(u, e) == TRUE

Free(u, e) == Holders(e) \subseteq {u}

Check(r, e, next) ==
    /\ Become(r, next)
    /\ overlapped' = IF Writing(e) \ {r} = {} THEN overlapped ELSE overlapped \cup {e}
    /\ UNCHANGED <<email, detail, rewrites>>

(* POST /users/:id with an email: the owner of the token writes it.        *)
UpdateUser(r, u, e) ==
    /\ Begin(r, [pc |-> "check", user |-> u, email |-> e, for |-> {}])
    /\ UNCHANGED <<tables, cache, change, failures, history>>

(* UserService.updatePartialUser reads the user, then UserTable.update     *)
(* looks for another holder: 'Email already in use.'                       *)
CheckEmail(r) ==
    /\ request[r].pc = "check"
    /\ LET u == request[r].user
           e == request[r].email
       IN  /\ ReadThrough(r, u)
           /\ IF Free(u, e)
              THEN /\ Check(r, e, [request[r] EXCEPT !.pc = "write"])
                   /\ UNCHANGED history
              ELSE /\ Become(r, Idle)
                   /\ spoilt' = spoilt \cup request[r].for
                   /\ UNCHANGED <<tables, applied>>
    /\ UNCHANGED <<change, requests, failures>>

(* The conditional update; then the details, which must exist, but the     *)
(* email is written by then.                                               *)
WriteEmail(r) ==
    /\ request[r].pc = "write"
    /\ LET u == request[r].user
           e == request[r].email
       IN  IF Exists(u)
           THEN /\ email' = [email EXCEPT ![u] = e]
                /\ rewrites' = [rewrites EXCEPT ![u] = @ + 1]
                /\ Refresh(r, u, e)
                /\ applied' = applied \cup request[r].for
                /\ UNCHANGED spoilt
           ELSE /\ spoilt' = spoilt \cup request[r].for
                /\ UNCHANGED <<email, rewrites, cache, applied>>
    /\ Become(r, Idle)
    /\ UNCHANGED <<detail, overlapped, change, requests, failures>>

-----------------------------------------------------------------------------
(* requestEmailChange.                                                     *)

ReadUser(r, u, e) ==
    /\ ~InUse(e)                                \* 'New email is already in use.'
    /\ CachedEmail(u) # NoEmail /\ u \in detail \* 'User email not found'
    /\ Begin(r, [pc |-> "insert", user |-> u, old |-> CachedEmail(u), new |-> e,
                 base |-> rewrites[u], settled |-> Settled(u)])
    /\ ReadThrough(r, u)
    /\ UNCHANGED <<tables, change, failures, history>>

InsertChange(r, c) ==
    /\ request[r].pc = "insert"
    /\ ~Requested(c)
    /\ change' = [change EXCEPT ![c] =
            [state |-> "requested", user |-> request[r].user,
             old |-> request[r].old, new |-> request[r].new,
             oldOn |-> FALSE, newOn |-> FALSE,
             base |-> request[r].base, settled |-> request[r].settled]]
    /\ Become(r, Idle)
    /\ UNCHANGED <<tables, cache, requests, failures, history>>

-----------------------------------------------------------------------------
(* verifyEmailChange, with the key that was sent to the old or to the new  *)
(* address.                                                                *)
Verify(r, c, side) ==
    /\ Requested(c)
    /\ ~InUse(change[c].new)                    \* 'New email is already in use.'
    /\ Begin(r, [pc |-> "confirm", change |-> c, side |-> side,
                 seen |-> change[c]])
    /\ UNCHANGED <<tables, cache, change, failures, history>>

(* UPDATE ... WHERE <side>_conf_on IS NULL RETURNING all columns.          *)
ConfirmSide(row, side) ==
    IF side = "old" THEN [row EXCEPT !.oldOn = TRUE] ELSE [row EXCEPT !.newOn = TRUE]

Unconfirmed(row, side) == IF side = "old" THEN ~row.oldOn ELSE ~row.newOn

(* Mutants: completes with what was read before the update; or with one    *)
(* confirmation.                                                           *)
CompletedAsRead(row, seen) == seen.oldOn /\ seen.newOn
CompletedByOne(row, seen) == row.oldOn \/ row.newOn

Completed(row, seen) == row.oldOn /\ row.newOn

Confirm(r) ==
    /\ request[r].pc = "confirm"
    /\ LET c == request[r].change
           row == ConfirmSide(change[c], request[r].side)
       IN  IF Unconfirmed(change[c], request[r].side)
           THEN /\ change' = [change EXCEPT ![c] = row]
                /\ Become(r, IF Completed(row, request[r].seen)
                             THEN [pc |-> "check", user |-> row.user,
                                   email |-> request[r].seen.new, for |-> {c}]
                             ELSE Idle)
           ELSE Become(r, Idle) /\ UNCHANGED change   \* 'Invalid confirmation id/key'
    /\ UNCHANGED <<tables, cache, requests, failures, history>>

-----------------------------------------------------------------------------
(* createUser: the two rows are put side by side.                          *)
CreateUser(r, u, e) ==
    /\ u \notin detail /\ ~Exists(u) /\ rewrites[u] = 0
    /\ Free(u, e)
    /\ Begin(r, [pc |-> "put", user |-> u, email |-> e])
    /\ overlapped' = IF Writing(e) = {} THEN overlapped ELSE overlapped \cup {e}
    /\ detail' = detail \cup {u}
    /\ UNCHANGED <<email, rewrites, cache, change, failures, history>>

PutUser(r) ==
    /\ request[r].pc = "put"
    /\ LET u == request[r].user
           e == request[r].email
       IN  /\ email' = [email EXCEPT ![u] = e]
           /\ rewrites' = [rewrites EXCEPT ![u] = @ + 1]
           /\ Refresh(r, u, e)
    /\ Become(r, Idle)
    /\ UNCHANGED <<detail, overlapped, change, requests, failures, history>>

-----------------------------------------------------------------------------
(* removeUser: both rows must be there, and go side by side; the roles and *)
(* the account are not modelled, the user owns no account.                 *)
RemoveUser(r, u) ==
    /\ CachedEmail(u) # NoEmail /\ u \in detail  \* 'User not found.'
    /\ Begin(r, [pc |-> "remove", user |-> u, left |-> {"user", "detail"}])
    /\ ReadThrough(r, u)
    /\ UNCHANGED <<tables, change, failures, history>>

Removed(r, row) ==
    /\ request[r].pc = "remove"
    /\ row \in request[r].left
    /\ Become(r, IF request[r].left = {row} THEN Idle
                 ELSE [request[r] EXCEPT !.left = @ \ {row}])

RemoveUserRow(r) ==
    /\ Removed(r, "user")
    /\ LET u == request[r].user
       IN  /\ email' = [email EXCEPT ![u] = NoEmail]
           /\ rewrites' = [rewrites EXCEPT ![u] = @ + 1]
           /\ IF Exists(u) THEN Refresh(r, u, NoEmail) ELSE UNCHANGED cache
    /\ UNCHANGED <<detail, overlapped, change, requests, failures, history>>

RemoveDetailRow(r) ==
    /\ Removed(r, "detail")
    /\ detail' = detail \ {request[r].user}
    /\ UNCHANGED <<email, rewrites, overlapped, cache, change, requests, failures, history>>

-----------------------------------------------------------------------------
(* The process of a request stops, with the commands it has not sent out.  *)
Stop(r) ==
    /\ request[r].pc # "idle" \/ sent[r] # <<>>
    /\ failures < MaxFailures
    /\ failures' = failures + 1
    /\ Become(r, Idle)
    /\ spoilt' = spoilt \cup (IF request[r].pc \in {"check", "write"} THEN request[r].for ELSE {})
    /\ raced' = raced \cup {sent[r][i][1] : i \in 1..Len(sent[r])}
    /\ sent' = [sent EXCEPT ![r] = <<>>]
    /\ UNCHANGED <<tables, cached, change, requests, applied>>

(* The next step of a request that was begun.                              *)
Work(r) ==
    \/ CheckEmail(r) \/ WriteEmail(r) \/ Confirm(r) \/ PutUser(r)
    \/ RemoveUserRow(r) \/ RemoveDetailRow(r)
    \/ \E c \in Change : InsertChange(r, c)

Next ==
    \E r \in Request :
        \/ \E u \in User, e \in Email : ReadUser(r, u, e) \/ UpdateUser(r, u, e) \/ CreateUser(r, u, e)
        \/ \E c \in Change, side \in {"old", "new"} : Verify(r, c, side)
        \/ \E u \in User : RemoveUser(r, u)
        \/ Work(r) \/ Deliver(r) \/ Stop(r)

Fairness == \A r \in Request : WF_vars(Work(r))

Spec == Init /\ [][Next]_vars /\ Fairness

-----------------------------------------------------------------------------
(* Two users never hold the same address, though registration, confirmed   *)
(* changes and direct updates all check first and write later, unless two  *)
(* such windows for that address overlapped.                               *)
UniqueEmail ==
    \A u, v \in User :
        u # v /\ Exists(u) /\ email[u] = email[v] => email[u] \in overlapped

(* Once its commands have arrived, Redis holds nothing of a user or what   *)
(* the table holds, unless commands of two requests crossed or were lost:  *)
(* the keys have no expiry, so a wrong one would stay.                     *)
CacheCoherent ==
    \A u \in User : Settled(u) => cached[u] \in {NoEmail, email[u]}

(* The email of a user is written over by an update of the user, or by a   *)
(* change that both addresses confirmed, at most once.  The address that   *)
(* such a change replaces is the one that confirmed it, unless the user    *)
(* was written meanwhile or was read from an unsettled cache.              *)
ChangeIsAgreed ==
    [][\A u \in User :
        Exists(u) /\ Exists(u)' /\ email'[u] # email[u] =>
            \E r \in Request :
                /\ request[r].pc = "write" /\ request[r].user = u
                /\ \A c \in request[r].for :
                    /\ Confirmed(c) /\ c \notin applied
                    /\ change[c].user = u /\ change[c].new = email'[u]
                    /\ change[c].settled /\ change[c].base = rewrites[u]
                        => change[c].old = email[u]]_vars

(* A change that both addresses confirmed is applied in the end, even if   *)
(* the two confirmations arrive at the same time, unless the address was   *)
(* taken, the user removed, or the process stopped in between: nothing     *)
(* resumes it then.                                                        *)
ConfirmedIsApplied ==
    \A c \in Change : Confirmed(c) ~> c \in applied \cup spoilt

=============================================================================
