----------------------------- MODULE UserProofs -----------------------------
(***************************************************************************)
(* For any number of users, addresses, changes and requests, and any       *)
(* number of requests that stop half-way: an address has one holder unless *)
(* two windows between check and write overlapped, Redis settles on what   *)
(* the table holds, and a confirmed change replaces the address that       *)
(* confirmed it, once.                                                     *)
(*                                                                         *)
(* For any number of concurrent requests, tokens and crashes: an           *)
(* invitation makes at most one user, only a redeemed one does, what       *)
(* became of it is final, and a user it made has all the roles, unless the *)
(* request that made it stopped.                                           *)
(***************************************************************************)
EXTENDS UserEmails, InviteTokens, FiniteSetTheorems, SequenceTheorems, TLAPS

(***************************************************************************)
(* UserEmails.                                                             *)
(***************************************************************************)
Held == Email \cup {NoEmail}

ChangeRow ==
    [state : {"requested"}, user : User, old : Email, new : Email, oldOn : BOOLEAN,
     newOn : BOOLEAN, base : Nat, settled : BOOLEAN]

RequestType ==
    [pc : {"idle"}]
    \cup [pc : {"check", "write"}, user : User, email : Email, for : SUBSET Change]
    \cup [pc : {"put"}, user : User, email : Email]
    \cup [pc : {"insert"}, user : User, old : Email, new : Email, base : Nat, settled : BOOLEAN]
    \cup [pc : {"confirm"}, change : Change, side : {"old", "new"}, seen : ChangeRow]
    \cup [pc : {"remove"}, user : User, left : SUBSET {"user", "detail"}]

TypeOK ==
    /\ email \in [User -> Held]
    /\ detail \subseteq User
    /\ cached \in [User -> Held]
    /\ sent \in [Request -> Seq(User \X Held)]
    /\ change \in [Change -> ChangeRow \cup {NoChange}]
    /\ request \in [Request -> RequestType]
    /\ rewrites \in [User -> Nat]
    /\ applied \subseteq Change

-----------------------------------------------------------------------------
(* The argument for UniqueEmail.                                           *)

IsWriting(r) == request[r].pc \in {"write", "put"}

(* Since a request found an address free, either nobody took it, or the    *)
(* one that did was in its own window at the time.                         *)
WindowsGuarded ==
    /\ \A r \in Request :
        IsWriting(r) => \/ Holders(request[r].email) \subseteq {request[r].user}
                        \/ request[r].email \in overlapped
    /\ \A q, r \in Request :
        IsWriting(q) /\ IsWriting(r) /\ q # r /\ request[q].email = request[r].email
            => request[r].email \in overlapped

-----------------------------------------------------------------------------
(* The argument for CacheCoherent.                                         *)

(* The last command on its way for a user carries what the table holds.    *)
LastIsCurrent ==
    \A u \in User \ raced : \A r \in Request : \A i \in 1..Len(sent[r]) :
        sent[r][i][1] = u =>
            \/ sent[r][i][2] = email[u]
            \/ \E j \in i + 1 .. Len(sent[r]) : sent[r][j][1] = u

-----------------------------------------------------------------------------
(* The argument for ChangeIsAgreed.                                        *)

(* An old address that was read from a settled cache is the one in the     *)
(* table for as long as the user is not written.                           *)
OldIsCurrent(row) ==
    /\ row.base <= rewrites[row.user]
    /\ row.settled /\ row.base = rewrites[row.user] => row.old = email[row.user]

ChangesAreTrue ==
    /\ \A c \in Change : Requested(c) => OldIsCurrent(change[c])
    /\ \A r \in Request : request[r].pc = "insert" => OldIsCurrent(request[r])
    /\ \A r \in Request : request[r].pc = "confirm" =>
        /\ Requested(request[r].change)
        /\ request[r].seen.new = change[request[r].change].new

(* A confirmed change is carried out by one request at most, which has it  *)
(* from the confirmation that came last.                                   *)
Carries(r, c) == request[r].pc \in {"check", "write"} /\ c \in request[r].for

CarriedOnce ==
    /\ \A c \in applied : Confirmed(c)
    /\ \A r \in Request, c \in Change : Carries(r, c) =>
        /\ Confirmed(c) /\ c \notin applied
        /\ change[c].user = request[r].user /\ change[c].new = request[r].email
    /\ \A q, r \in Request, c \in Change : Carries(q, c) /\ Carries(r, c) => q = r

(* A user that is being registered was never there: nobody else can write  *)
(* its rows, or has it in Redis.                                           *)
Fresh(u) == rewrites[u] = 0 /\ ~Exists(u)

FreshUsers ==
    /\ \A u \in User : Fresh(u) =>
        /\ cached[u] = NoEmail
        /\ \A r \in Request : \A i \in 1..Len(sent[r]) : sent[r][i][1] # u
        /\ \A r \in Request : request[r].pc = "remove" => request[r].user # u
    /\ \A r \in Request : request[r].pc = "put" => Fresh(request[r].user) /\ request[r].user \in detail
    /\ \A q, r \in Request :
        request[q].pc = "put" /\ request[r].pc = "put" /\ request[q].user = request[r].user => q = r

IInv ==
    /\ TypeOK
    /\ WindowsGuarded /\ UniqueEmail
    /\ LastIsCurrent /\ CacheCoherent
    /\ ChangesAreTrue /\ CarriedOnce /\ FreshUsers

-----------------------------------------------------------------------------
(* Type correctness.                                                       *)

LEMMA Fields ==
    ASSUME TypeOK, NEW r \in Request
    PROVE  /\ request[r].pc \in {"check", "write"} =>
                request[r] \in [pc : {"check", "write"}, user : User, email : Email, for : SUBSET Change]
           /\ request[r].pc = "put" => request[r] \in [pc : {"put"}, user : User, email : Email]
           /\ request[r].pc = "insert" =>
                request[r] \in [pc : {"insert"}, user : User, old : Email, new : Email,
                                base : Nat, settled : BOOLEAN]
           /\ request[r].pc = "confirm" =>
                request[r] \in [pc : {"confirm"}, change : Change, side : {"old", "new"}, seen : ChangeRow]
           /\ request[r].pc = "remove" =>
                request[r] \in [pc : {"remove"}, user : User, left : SUBSET {"user", "detail"}]
  BY DEF TypeOK, RequestType

LEMMA RowType ==
    ASSUME TypeOK, NEW c \in Change, Requested(c)
    PROVE  change[c] \in ChangeRow
  BY DEF TypeOK, Requested, NoChange

LEMMA BecomeType ==
    ASSUME TypeOK, NEW r \in Request, NEW state \in RequestType, Become(r, state)
    PROVE  request' \in [Request -> RequestType]
  BY DEF TypeOK, Become

LEMMA IdleType == Idle \in RequestType
  BY DEF Idle, RequestType

LEMMA SendType ==
    ASSUME TypeOK, NEW r \in Request, NEW u \in User, NEW e \in Held, Send(r, u, e)
    PROVE  cached' \in [User -> Held] /\ sent' \in [Request -> Seq(User \X Held)]
<1>1. Append(sent[r], <<u, e>>) \in Seq(User \X Held)
  BY DEF TypeOK
<1> QED
  BY <1>1 DEF TypeOK, Send

LEMMA ReadThroughType ==
    ASSUME TypeOK, NEW r \in Request, NEW u \in User, ReadThrough(r, u)
    PROVE  cached' \in [User -> Held] /\ sent' \in [Request -> Seq(User \X Held)]
<1>1. email[u] \in Held
  BY DEF TypeOK
<1> QED
  BY <1>1, SendType DEF ReadThrough, cache, TypeOK

LEMMA CachedEmailType ==
    ASSUME TypeOK, NEW u \in User, CachedEmail(u) # NoEmail
    PROVE  CachedEmail(u) \in Email
  BY DEF TypeOK, CachedEmail, Held

LEMMA WrittenType ==
    ASSUME TypeOK, NEW u \in User, NEW e \in Held,
           email' = [email EXCEPT ![u] = e], rewrites' = [rewrites EXCEPT ![u] = @ + 1]
    PROVE  email' \in [User -> Held] /\ rewrites' \in [User -> Nat]
<1>1. rewrites[u] + 1 \in Nat
  BY DEF TypeOK
<1> QED
  BY <1>1 DEF TypeOK

LEMMA InitType == Init => TypeOK
<1> SUFFICES ASSUME Init PROVE TypeOK
  OBVIOUS
<1>1. \A r \in Request : Idle \in RequestType
  BY IdleType
<1>2. << >> \in Seq(User \X Held)
  OBVIOUS
<1> QED
  BY <1>1, <1>2, UserEmailsAssumption DEF Init, TypeOK, Held

LEMMA NextType ==
    ASSUME TypeOK, ChangesAreTrue, [Next]_vars
    PROVE  TypeOK'
<1> USE DEF TypeOK, tables, cache, history
<1>1. ASSUME NEW r \in Request, NEW u \in User, NEW e \in Email, ReadUser(r, u, e)
      PROVE  TypeOK'
  <2>1. CachedEmail(u) \in Email
    BY <1>1, CachedEmailType DEF ReadUser
  <2> DEFINE state == [pc |-> "insert", user |-> u, old |-> CachedEmail(u), new |-> e,
                       base |-> rewrites[u], settled |-> Settled(u)]
  <2>2. Settled(u) \in BOOLEAN
    BY DEF Settled
  <2>3. state \in RequestType
    BY <2>1, <2>2 DEF RequestType
  <2> QED
    BY <1>1, <2>3, BecomeType, ReadThroughType DEF ReadUser, Begin
<1>2. ASSUME NEW r \in Request, NEW u \in User, NEW e \in Email, UpdateUser(r, u, e)
      PROVE  TypeOK'
  <2>1. [pc |-> "check", user |-> u, email |-> e, for |-> {}] \in RequestType
    BY DEF RequestType
  <2> QED
    BY <1>2, <2>1, BecomeType DEF UpdateUser, Begin
<1>3. ASSUME NEW r \in Request, NEW u \in User, NEW e \in Email, CreateUser(r, u, e)
      PROVE  TypeOK'
  <2>1. [pc |-> "put", user |-> u, email |-> e] \in RequestType
    BY DEF RequestType
  <2> QED
    BY <1>3, <2>1, BecomeType DEF CreateUser, Begin
<1>4. ASSUME NEW r \in Request, NEW c \in Change, NEW side \in {"old", "new"}, Verify(r, c, side)
      PROVE  TypeOK'
  <2>1. change[c] \in ChangeRow
    BY <1>4, RowType DEF Verify
  <2>2. [pc |-> "confirm", change |-> c, side |-> side, seen |-> change[c]] \in RequestType
    BY <2>1 DEF RequestType
  <2> QED
    BY <1>4, <2>2, BecomeType DEF Verify, Begin
<1>5. ASSUME NEW r \in Request, NEW u \in User, RemoveUser(r, u)
      PROVE  TypeOK'
  <2>1. [pc |-> "remove", user |-> u, left |-> {"user", "detail"}] \in RequestType
    BY DEF RequestType
  <2> QED
    BY <1>5, <2>1, BecomeType, ReadThroughType DEF RemoveUser, Begin
<1>6. ASSUME NEW r \in Request, CheckEmail(r)
      PROVE  TypeOK'
  <2>1. request[r] \in [pc : {"check", "write"}, user : User, email : Email, for : SUBSET Change]
    BY <1>6, Fields DEF CheckEmail
  <2>2. [request[r] EXCEPT !.pc = "write"] \in RequestType
    BY <2>1 DEF RequestType
  <2>3. ReadThrough(r, request[r].user)
    BY <1>6 DEF CheckEmail
  <2>4. request' \in [Request -> RequestType]
    BY <1>6, <2>2, IdleType, BecomeType DEF CheckEmail, Check
  <2>5. cached' \in [User -> Held] /\ sent' \in [Request -> Seq(User \X Held)]
    BY <2>1, <2>3, ReadThroughType
  <2> QED
    BY <1>6, <2>4, <2>5 DEF CheckEmail, Check
<1>7. ASSUME NEW r \in Request, WriteEmail(r)
      PROVE  TypeOK'
  <2>1. request[r] \in [pc : {"check", "write"}, user : User, email : Email, for : SUBSET Change]
    BY <1>7, Fields DEF WriteEmail
  <2>2. request' \in [Request -> RequestType]
    BY <1>7, IdleType, BecomeType DEF WriteEmail
  <2>3. request[r].user \in User /\ request[r].email \in Held
    BY <2>1 DEF Held
  <2>4. cached' \in [User -> Held] /\ sent' \in [Request -> Seq(User \X Held)]
    BY <1>7, <2>3, SendType DEF WriteEmail, Refresh
  <2>5. email' \in [User -> Held] /\ rewrites' \in [User -> Nat]
    BY <1>7, <2>3, WrittenType DEF WriteEmail
  <2>6. request[r].for \subseteq Change
    BY <2>1
  <2>7. applied' = applied \/ applied' = applied \cup request[r].for
    BY <1>7 DEF WriteEmail
  <2> QED
    BY <1>7, <2>2, <2>4, <2>5, <2>6, <2>7 DEF WriteEmail
<1>8. ASSUME NEW r \in Request, NEW c \in Change, InsertChange(r, c)
      PROVE  TypeOK'
  <2>1. request[r] \in [pc : {"insert"}, user : User, old : Email, new : Email,
                        base : Nat, settled : BOOLEAN]
    BY <1>8, Fields DEF InsertChange
  <2>2. request' \in [Request -> RequestType]
    BY <1>8, IdleType, BecomeType DEF InsertChange
  <2> QED
    BY <1>8, <2>1, <2>2 DEF InsertChange, ChangeRow
<1>9. ASSUME NEW r \in Request, Confirm(r)
      PROVE  TypeOK'
  <2> DEFINE c == request[r].change
             row == ConfirmSide(change[c], request[r].side)
  <2>1. request[r] \in [pc : {"confirm"}, change : Change, side : {"old", "new"}, seen : ChangeRow]
    BY <1>9, Fields DEF Confirm
  <2>2. CASE Unconfirmed(change[c], request[r].side)
    <3>1. change[c] \in ChangeRow
      BY <1>9, <2>1, RowType DEF ChangesAreTrue, Confirm
    <3>2. row \in ChangeRow
      BY <3>1 DEF ConfirmSide, ChangeRow
    <3>3. [pc |-> "check", user |-> row.user, email |-> request[r].seen.new, for |-> {c}] \in RequestType
      BY <2>1, <3>2 DEF RequestType, ChangeRow
    <3>4. request' \in [Request -> RequestType]
      BY <1>9, <2>2, <3>3, IdleType, BecomeType DEF Confirm
    <3> QED
      BY <1>9, <2>1, <2>2, <3>2, <3>4 DEF Confirm
  <2>3. CASE ~Unconfirmed(change[c], request[r].side)
    BY <1>9, <2>3, IdleType, BecomeType DEF Confirm
  <2> QED
    BY <2>2, <2>3
<1>10. ASSUME NEW r \in Request, PutUser(r)
       PROVE  TypeOK'
  <2>1. request[r] \in [pc : {"put"}, user : User, email : Email]
    BY <1>10, Fields DEF PutUser
  <2>2. request' \in [Request -> RequestType]
    BY <1>10, IdleType, BecomeType DEF PutUser
  <2>3. request[r].user \in User /\ request[r].email \in Held
    BY <2>1 DEF Held
  <2>4. cached' \in [User -> Held] /\ sent' \in [Request -> Seq(User \X Held)]
    BY <1>10, <2>3, SendType DEF PutUser, Refresh
  <2> QED
    BY <1>10, <2>2, <2>3, <2>4, WrittenType DEF PutUser
<1>11. ASSUME NEW r \in Request, RemoveUserRow(r)
       PROVE  TypeOK'
  <2>1. request[r] \in [pc : {"remove"}, user : User, left : SUBSET {"user", "detail"}]
    BY <1>11, Fields DEF RemoveUserRow, Removed
  <2>2. [request[r] EXCEPT !.left = @ \ {"user"}] \in RequestType
    BY <2>1 DEF RequestType
  <2>3. request' \in [Request -> RequestType]
    BY <1>11, <2>2, IdleType, BecomeType DEF RemoveUserRow, Removed
  <2>4. request[r].user \in User /\ NoEmail \in Held
    BY <2>1 DEF Held
  <2>5. cached' \in [User -> Held] /\ sent' \in [Request -> Seq(User \X Held)]
    BY <1>11, <2>4, SendType DEF RemoveUserRow, Refresh
  <2> QED
    BY <1>11, <2>3, <2>4, <2>5, WrittenType DEF RemoveUserRow
<1>12. ASSUME NEW r \in Request, RemoveDetailRow(r)
       PROVE  TypeOK'
  <2>1. request[r] \in [pc : {"remove"}, user : User, left : SUBSET {"user", "detail"}]
    BY <1>12, Fields DEF RemoveDetailRow, Removed
  <2>2. [request[r] EXCEPT !.left = @ \ {"detail"}] \in RequestType
    BY <2>1 DEF RequestType
  <2>3. request' \in [Request -> RequestType]
    BY <1>12, <2>2, IdleType, BecomeType DEF RemoveDetailRow, Removed
  <2> QED
    BY <1>12, <2>3 DEF RemoveDetailRow
<1>13. ASSUME NEW r \in Request, Deliver(r)
       PROVE  TypeOK'
  <2>1. sent[r] \in Seq(User \X Held) /\ sent[r] # << >>
    BY <1>13 DEF Deliver
  <2>2. Head(sent[r]) \in User \X Held /\ Tail(sent[r]) \in Seq(User \X Held)
    BY <2>1, HeadTailProperties
  <2>3. cached' \in [User -> Held] /\ sent' \in [Request -> Seq(User \X Held)]
    BY <1>13, <2>2 DEF Deliver
  <2> QED
    BY <1>13, <2>3 DEF Deliver
<1>14. ASSUME NEW r \in Request, Stop(r)
       PROVE  TypeOK'
  <2>1. << >> \in Seq(User \X Held)
    OBVIOUS
  <2> QED
    BY <1>14, <2>1, IdleType, BecomeType DEF Stop
<1>15. CASE UNCHANGED vars
  BY <1>15 DEF vars
<1> QED
  BY <1>1, <1>2, <1>3, <1>4, <1>5, <1>6, <1>7, <1>8, <1>9, <1>10, <1>11, <1>12, <1>13, <1>14, <1>15 DEF Next, Work

-----------------------------------------------------------------------------
(* Addresses and windows.                                                  *)

(* Whoever is in its window after the step was there before.               *)
NobodyEnters == \A q \in Request : IsWriting(q)' => IsWriting(q) /\ request'[q] = request[q]

LEMMA BecomeOther ==
    ASSUME TypeOK, NEW r \in Request, NEW state, Become(r, state)
    PROVE  /\ request'[r] = state
           /\ \A q \in Request \ {r} : request'[q] = request[q]
  BY DEF TypeOK, Become

LEMMA NobodyEntersBy ==
    ASSUME TypeOK, NEW r \in Request, NEW state, Become(r, state), state.pc \notin {"write", "put"}
    PROVE  NobodyEnters /\ ~IsWriting(r)'
  BY BecomeOther DEF NobodyEnters, IsWriting

LEMMA WindowsKept ==
    ASSUME WindowsGuarded, UniqueEmail, NobodyEnters, email' = email, overlapped' = overlapped
    PROVE  WindowsGuarded' /\ UniqueEmail'
<1>1. WindowsGuarded'
  BY DEF WindowsGuarded, NobodyEnters, Holders
<1>2. UniqueEmail'
  BY DEF UniqueEmail, Exists
<1> QED
  BY <1>1, <1>2

(* A request enters its window when it has found the address free.         *)
LEMMA WindowsEntered ==
    ASSUME TypeOK, WindowsGuarded, UniqueEmail, NEW r \in Request, NEW state \in RequestType,
           Become(r, state), state.pc \in {"write", "put"}, Free(state.user, state.email),
           email' = email,
           overlapped' = IF Writing(state.email) \ {r} = {} THEN overlapped
                         ELSE overlapped \cup {state.email}
    PROVE  WindowsGuarded' /\ UniqueEmail'
<1>1. request'[r] = state /\ \A q \in Request \ {r} : request'[q] = request[q]
  BY BecomeOther
<1>2. overlapped \subseteq overlapped'
  OBVIOUS
<1>3. Holders(state.email)' \subseteq {state.user}
  BY DEF Free, Holders
<1>4. \A q \in Request \ {r} : IsWriting(q) /\ request[q].email = state.email => state.email \in overlapped'
  BY DEF Writing, IsWriting
<1>5. WindowsGuarded'
  <2>1. ASSUME NEW q \in Request, IsWriting(q)'
        PROVE  \/ Holders(request[q].email)' \subseteq {request[q].user}'
               \/ (request[q].email \in overlapped)'
    <3>1. CASE q = r
      BY <1>1, <1>3, <3>1
    <3>2. CASE q # r
      BY <1>1, <1>2, <2>1, <3>2 DEF WindowsGuarded, IsWriting, Holders
    <3> QED
      BY <3>1, <3>2
  <2>2. ASSUME NEW p \in Request, NEW q \in Request, IsWriting(p)', IsWriting(q)', p # q,
               request'[p].email = request'[q].email
        PROVE  request'[q].email \in overlapped'
    <3>1. CASE p = r \/ q = r
      BY <1>1, <1>4, <2>2, <3>1 DEF IsWriting
    <3>2. CASE p # r /\ q # r
      BY <1>1, <1>2, <2>2, <3>2 DEF WindowsGuarded, IsWriting
    <3> QED
      BY <3>1, <3>2
  <2> QED
    BY <2>1, <2>2 DEF WindowsGuarded
<1>6. UniqueEmail'
  BY <1>2 DEF UniqueEmail, Exists
<1> QED
  BY <1>5, <1>6

(* A request in its window writes, and leaves it.                          *)
LEMMA WindowsWritten ==
    ASSUME TypeOK, WindowsGuarded, UniqueEmail, NEW r \in Request, IsWriting(r),
           NobodyEnters, ~IsWriting(r)', NEW u \in User, NEW e \in Email,
           u = request[r].user, e = request[r].email,
           email' = [email EXCEPT ![u] = e], overlapped' = overlapped
    PROVE  WindowsGuarded' /\ UniqueEmail'
<1>1. email'[u] = e /\ \A v \in User \ {u} : email'[v] = email[v]
  BY DEF TypeOK
<1>2. \/ Holders(e) \subseteq {u}
      \/ e \in overlapped
  BY DEF WindowsGuarded
<1>3. UniqueEmail'
  <2>1. ASSUME NEW v \in User, NEW w \in User, v # w, Exists(v)', email'[v] = email'[w]
        PROVE  email'[v] \in overlapped
    <3>1. CASE v = u \/ w = u
      <4>1. PICK x \in {v, w} : x # u
        BY <2>1
      <4>2. email[x] = e /\ email'[v] = e
        BY <1>1, <2>1, <3>1, <4>1
      <4> QED
        BY <1>2, <4>1, <4>2 DEF Holders
    <3>2. CASE v # u /\ w # u
      BY <1>1, <2>1, <3>2 DEF UniqueEmail, Exists
    <3> QED
      BY <3>1, <3>2
  <2> QED
    BY <2>1 DEF UniqueEmail
<1>4. ASSUME NEW q \in Request, IsWriting(q)'
      PROVE  \/ Holders(request[q].email)' \subseteq {request[q].user}'
             \/ (request[q].email \in overlapped)'
  <2>1. q # r /\ IsWriting(q) /\ request'[q] = request[q]
    BY <1>4 DEF NobodyEnters
  <2>2. CASE request[q].email = e
    BY <2>1, <2>2 DEF WindowsGuarded
  <2>3. CASE request[q].email # e
    <3>1. Holders(request[q].email)' \subseteq Holders(request[q].email)
      BY <1>1, <2>1, <2>3 DEF Holders
    <3> QED
      BY <2>1, <3>1 DEF WindowsGuarded
  <2> QED
    BY <2>2, <2>3
<1>5. \A p, q \in Request :
        IsWriting(p)' /\ IsWriting(q)' /\ p # q /\ request'[p].email = request'[q].email
            => request'[q].email \in overlapped'
  BY DEF WindowsGuarded, NobodyEnters
<1> QED
  BY <1>3, <1>4, <1>5 DEF WindowsGuarded

(* Removing a row frees an address.                                        *)
LEMMA WindowsFreed ==
    ASSUME TypeOK, WindowsGuarded, UniqueEmail, NobodyEnters, NEW u \in User,
           email' = [email EXCEPT ![u] = NoEmail], overlapped' = overlapped
    PROVE  WindowsGuarded' /\ UniqueEmail'
<1>1. email'[u] = NoEmail /\ \A v \in User \ {u} : email'[v] = email[v]
  BY DEF TypeOK
<1>2. UniqueEmail'
  BY <1>1 DEF UniqueEmail, Exists
<1>3. ASSUME NEW q \in Request, IsWriting(q)'
      PROVE  \/ Holders(request[q].email)' \subseteq {request[q].user}'
             \/ (request[q].email \in overlapped)'
  <2>1. IsWriting(q) /\ request'[q] = request[q]
    BY <1>3 DEF NobodyEnters
  <2>2. request[q].email \in Email
    BY <2>1, Fields DEF IsWriting
  <2>3. Holders(request[q].email)' \subseteq Holders(request[q].email)
    BY <1>1, <2>1, <2>2, UserEmailsAssumption DEF Holders
  <2> QED
    BY <2>1, <2>3 DEF WindowsGuarded
<1>4. \A p, q \in Request :
        IsWriting(p)' /\ IsWriting(q)' /\ p # q /\ request'[p].email = request'[q].email
            => request'[q].email \in overlapped'
  BY DEF WindowsGuarded, NobodyEnters
<1> QED
  BY <1>2, <1>3, <1>4 DEF WindowsGuarded

LEMMA NextWindows ==
    ASSUME TypeOK, WindowsGuarded, UniqueEmail, [Next]_vars
    PROVE  WindowsGuarded' /\ UniqueEmail'
<1> USE DEF tables, cache, history
<1>1. ASSUME NEW r \in Request, NEW u \in User, NEW e \in Email, ReadUser(r, u, e) \/ UpdateUser(r, u, e)
      PROVE  WindowsGuarded' /\ UniqueEmail'
  <2>1. PICK state : Become(r, state) /\ state.pc \notin {"write", "put"}
    BY <1>1 DEF ReadUser, UpdateUser, Begin
  <2>2. email' = email /\ overlapped' = overlapped
    BY <1>1 DEF ReadUser, UpdateUser
  <2> QED
    BY <2>1, <2>2, NobodyEntersBy, WindowsKept
<1>2. ASSUME NEW r \in Request,
             \/ \E c \in Change, side \in {"old", "new"} : Verify(r, c, side)
             \/ \E u \in User : RemoveUser(r, u)
             \/ \E c \in Change : InsertChange(r, c)
             \/ Confirm(r)
      PROVE  WindowsGuarded' /\ UniqueEmail'
  <2>1. PICK state : Become(r, state) /\ state.pc \notin {"write", "put"}
    <3>1. CASE \E c \in Change, side \in {"old", "new"} : Verify(r, c, side)
      BY <3>1 DEF Verify, Begin
    <3>2. CASE \E u \in User : RemoveUser(r, u)
      BY <3>2 DEF RemoveUser, Begin
    <3>3. CASE \E c \in Change : InsertChange(r, c)
      BY <3>3 DEF InsertChange, Idle
    <3>4. CASE Confirm(r)
      BY <3>4 DEF Confirm, Idle
    <3> QED
      BY <1>2, <3>1, <3>2, <3>3, <3>4
  <2>2. email' = email /\ overlapped' = overlapped
    BY <1>2 DEF Verify, RemoveUser, InsertChange, Confirm
  <2> QED
    BY <2>1, <2>2, NobodyEntersBy, WindowsKept
<1>3. ASSUME NEW r \in Request, RemoveDetailRow(r) \/ Deliver(r) \/ Stop(r)
      PROVE  WindowsGuarded' /\ UniqueEmail'
  <2>1. NobodyEnters
    <3>1. CASE Deliver(r)
      BY <3>1 DEF Deliver, NobodyEnters, IsWriting
    <3>2. CASE Stop(r)
      BY <3>2, NobodyEntersBy DEF Stop, Idle
    <3>3. CASE RemoveDetailRow(r)
      <4>1. request[r] \in [pc : {"remove"}, user : User, left : SUBSET {"user", "detail"}]
        BY <3>3, Fields DEF RemoveDetailRow, Removed
      <4>2. PICK state : Become(r, state) /\ state.pc \notin {"write", "put"}
        BY <3>3, <4>1 DEF RemoveDetailRow, Removed, Idle
      <4> QED
        BY <4>2, NobodyEntersBy
    <3> QED
      BY <1>3, <3>1, <3>2, <3>3
  <2>2. email' = email /\ overlapped' = overlapped
    BY <1>3 DEF RemoveDetailRow, Deliver, Stop
  <2> QED
    BY <2>1, <2>2, WindowsKept
<1>4. ASSUME NEW r \in Request, CheckEmail(r)
      PROVE  WindowsGuarded' /\ UniqueEmail'
  <2>1. request[r] \in [pc : {"check", "write"}, user : User, email : Email, for : SUBSET Change]
    BY <1>4, Fields DEF CheckEmail
  <2>2. CASE Free(request[r].user, request[r].email)
    <3> DEFINE state == [request[r] EXCEPT !.pc = "write"]
    <3>1. /\ state \in RequestType /\ state.pc = "write"
          /\ state.user = request[r].user /\ state.email = request[r].email
      BY <2>1 DEF RequestType
    <3>2. Check(r, state.email, state)
      BY <1>4, <2>2, <3>1 DEF CheckEmail
    <3> HIDE DEF state
    <3> QED
      BY <2>2, <3>1, <3>2, WindowsEntered DEF Check
  <2>3. CASE ~Free(request[r].user, request[r].email)
    <3>1. Become(r, Idle) /\ email' = email /\ overlapped' = overlapped
      BY <1>4, <2>3 DEF CheckEmail
    <3> QED
      BY <3>1, NobodyEntersBy, WindowsKept DEF Idle
  <2> QED
    BY <2>2, <2>3
<1>5. ASSUME NEW r \in Request, NEW u \in User, NEW e \in Email, CreateUser(r, u, e)
      PROVE  WindowsGuarded' /\ UniqueEmail'
  <2> DEFINE state == [pc |-> "put", user |-> u, email |-> e]
  <2>1. state \in RequestType
    BY DEF RequestType
  <2>2. Writing(e) = Writing(e) \ {r}
    BY <1>5 DEF CreateUser, Begin, Writing
  <2>3. Become(r, state) /\ Free(u, e) /\ email' = email
    BY <1>5 DEF CreateUser, Begin
  <2>4. overlapped' = IF Writing(state.email) \ {r} = {} THEN overlapped ELSE overlapped \cup {state.email}
    BY <1>5, <2>2 DEF CreateUser
  <2>5. state.pc = "put" /\ state.user = u
    OBVIOUS
  <2> HIDE DEF state
  <2> QED
    BY <2>1, <2>3, <2>4, <2>5, WindowsEntered DEF state
<1>6. ASSUME NEW r \in Request, WriteEmail(r) \/ PutUser(r)
      PROVE  WindowsGuarded' /\ UniqueEmail'
  <2>1. IsWriting(r) /\ Become(r, Idle) /\ overlapped' = overlapped
    BY <1>6 DEF WriteEmail, PutUser, IsWriting
  <2>2. NobodyEnters /\ ~IsWriting(r)'
    BY <2>1, NobodyEntersBy DEF Idle
  <2>3. request[r].user \in User /\ request[r].email \in Email
    BY <2>1, Fields DEF IsWriting
  <2>4. \/ email' = email
        \/ email' = [email EXCEPT ![request[r].user] = request[r].email]
    BY <1>6 DEF WriteEmail, PutUser
  <2> QED
    BY <2>1, <2>2, <2>3, <2>4, WindowsKept, WindowsWritten
<1>7. ASSUME NEW r \in Request, RemoveUserRow(r)
      PROVE  WindowsGuarded' /\ UniqueEmail'
  <2>1. request[r] \in [pc : {"remove"}, user : User, left : SUBSET {"user", "detail"}]
    BY <1>7, Fields DEF RemoveUserRow, Removed
  <2>2. PICK state : Become(r, state) /\ state.pc \notin {"write", "put"}
    BY <1>7, <2>1 DEF RemoveUserRow, Removed, Idle
  <2>3. NobodyEnters
    BY <2>2, NobodyEntersBy
  <2>4. email' = [email EXCEPT ![request[r].user] = NoEmail] /\ overlapped' = overlapped
    BY <1>7 DEF RemoveUserRow
  <2> QED
    BY <2>1, <2>3, <2>4, WindowsFreed
<1>8. CASE UNCHANGED vars
  BY <1>8, WindowsKept DEF vars, NobodyEnters, IsWriting
<1> QED
  BY <1>1, <1>2, <1>3, <1>4, <1>5, <1>6, <1>7, <1>8 DEF Next, Work

-----------------------------------------------------------------------------
(* Redis.                                                                  *)

LEMMA CacheKept ==
    ASSUME LastIsCurrent, CacheCoherent, email' = email, UNCHANGED cache
    PROVE  LastIsCurrent' /\ CacheCoherent'
<1> USE DEF cache
<1>1. LastIsCurrent'
  BY DEF LastIsCurrent
<1>2. CacheCoherent'
  BY DEF CacheCoherent, Settled
<1> QED
  BY <1>1, <1>2

(* What Send leaves in the queue of the request: the command last.         *)
LEMMA SendQueue ==
    ASSUME TypeOK, NEW r \in Request, NEW u \in User, NEW e \in Held, Send(r, u, e)
    PROVE  /\ \A q \in Request \ {r} : sent'[q] = sent[q]
           /\ Len(sent[r]) \in Nat /\ Len(sent'[r]) \in Nat
           /\ Len(sent'[r]) \in {Len(sent[r]), Len(sent[r]) + 1} /\ Len(sent'[r]) >= 1
           /\ \A i \in 1..Len(sent[r]) : sent'[r][i] = sent[r][i]
           /\ sent'[r][Len(sent'[r])] = <<u, e>>
<1>1. sent[r] \in Seq(User \X Held)
  BY DEF TypeOK
<1>2. CASE sent[r] # <<>> /\ sent[r][Len(sent[r])] = <<u, e>>
  <2>1. sent' = sent
    BY <1>2 DEF Send
  <2>2. Len(sent[r]) >= 1
    BY <1>1, <1>2
  <2> QED
    BY <1>1, <1>2, <2>1, <2>2
<1>3. CASE ~(sent[r] # <<>> /\ sent[r][Len(sent[r])] = <<u, e>>)
  <2>1. sent' = [sent EXCEPT ![r] = Append(@, <<u, e>>)]
    BY <1>3 DEF Send
  <2>2. sent'[r] = Append(sent[r], <<u, e>>) /\ \A q \in Request \ {r} : sent'[q] = sent[q]
    BY <2>1 DEF TypeOK
  <2>3. <<u, e>> \in User \X Held
    OBVIOUS
  <2> QED
    BY <1>1, <2>2, <2>3, AppendProperties
<1> QED
  BY <1>2, <1>3

LEMMA CacheSent ==
    ASSUME TypeOK, LastIsCurrent, CacheCoherent, NEW r \in Request, NEW u \in User, NEW e \in Held,
           Send(r, u, e), email'[u] = e, \A v \in User \ {u} : email'[v] = email[v]
    PROVE  LastIsCurrent' /\ CacheCoherent'
<1> DEFINE n == Len(sent[r])
           m == Len(sent'[r])
<1>1. /\ \A q \in Request \ {r} : sent'[q] = sent[q]
      /\ n \in Nat /\ m \in Nat /\ m \in {n, n + 1} /\ m >= 1
      /\ \A i \in 1..n : sent'[r][i] = sent[r][i]
      /\ sent'[r][m] = <<u, e>>
  BY SendQueue
<1>2. cached' = cached /\ raced \subseteq raced' /\ (u \notin raced' => ~Crossing(r, u, e))
  BY DEF Send
<1> HIDE DEF n, m
<1>3. ASSUME NEW v \in User \ raced', NEW q \in Request, NEW i \in 1..Len(sent'[q]), sent'[q][i][1] = v
      PROVE  \/ sent'[q][i][2] = email'[v]
             \/ \E j \in i + 1 .. Len(sent'[q]) : sent'[q][j][1] = v
  <2>1. CASE q = r /\ i = m
    BY <1>1, <1>3, <2>1
  <2>2. CASE q = r /\ i # m
    <3>1. i \in 1..n /\ sent[r][i][1] = v
      BY <1>1, <1>3, <2>2 DEF m
    <3>2. CASE v = u
      <4>1. m \in i + 1 .. m
        BY <1>1, <3>1, <2>2, <1>3 DEF m
      <4> QED
        BY <1>1, <2>2, <3>2, <4>1 DEF m
    <3>3. CASE v # u
      <4>1. CASE sent[r][i][2] = email[v]
        BY <1>1, <2>2, <3>1, <3>3, <4>1
      <4>2. CASE \E j \in i + 1 .. n : sent[r][j][1] = v
        <5>1. PICK j \in i + 1 .. n : sent[r][j][1] = v
          BY <4>2
        <5>2. j \in 1..n /\ j \in i + 1 .. m
          BY <1>1, <3>1, <5>1
        <5> QED
          BY <1>1, <2>2, <5>1, <5>2 DEF m
      <4> QED
        BY <1>2, <3>1, <4>1, <4>2 DEF LastIsCurrent, n
    <3> QED
      BY <3>2, <3>3
  <2>3. CASE q # r
    <3>1. sent'[q] = sent[q]
      BY <1>1, <2>3
    <3>2. CASE v = u
      <4>1. sent[q][i][2] = e
        BY <1>2, <1>3, <2>3, <3>1, <3>2 DEF Crossing
      <4> QED
        BY <3>1, <3>2, <4>1
    <3>3. CASE v # u
      BY <1>2, <1>3, <3>1, <3>3 DEF LastIsCurrent
    <3> QED
      BY <3>2, <3>3
  <2> QED
    BY <2>1, <2>2, <2>3
<1>4. ASSUME NEW v \in User, Settled(v)'
      PROVE  cached'[v] \in {NoEmail, email'[v]}
  <2>1. v \notin raced' /\ \A q \in Request : \A i \in 1..Len(sent'[q]) : sent'[q][i][1] # v
    BY <1>4 DEF Settled
  <2>2. v # u
    BY <1>1, <2>1 DEF m
  <2>3. \A i \in 1..n : sent[r][i][1] # v
    BY <1>1, <2>1 DEF m
  <2>4. Settled(v)
    BY <1>1, <1>2, <2>1, <2>3 DEF Settled, n
  <2> QED
    BY <1>2, <2>2, <2>4 DEF CacheCoherent
<1> QED
  BY <1>3, <1>4 DEF LastIsCurrent, CacheCoherent

LEMMA CacheReadThrough ==
    ASSUME TypeOK, LastIsCurrent, CacheCoherent, NEW r \in Request, NEW u \in User,
           ReadThrough(r, u), email' = email
    PROVE  LastIsCurrent' /\ CacheCoherent'
<1>1. CASE UNCHANGED cache
  BY <1>1, CacheKept
<1>2. CASE Send(r, u, email[u])
  <2>1. email[u] \in Held
    BY DEF TypeOK
  <2> QED
    BY <1>2, <2>1, CacheSent
<1> QED
  BY <1>1, <1>2 DEF ReadThrough

LEMMA CacheWritten ==
    ASSUME TypeOK, LastIsCurrent, CacheCoherent, NEW r \in Request, NEW u \in User, NEW e \in Held,
           email' = [email EXCEPT ![u] = e], Refresh(r, u, e)
    PROVE  LastIsCurrent' /\ CacheCoherent'
<1>1. email'[u] = e /\ \A v \in User \ {u} : email'[v] = email[v]
  BY DEF TypeOK
<1> QED
  BY <1>1, CacheSent DEF Refresh

(* The last command for a user leaves in Redis what the table holds.       *)
LEMMA CacheDelivered ==
    ASSUME TypeOK, LastIsCurrent, CacheCoherent, NEW r \in Request, Deliver(r)
    PROVE  LastIsCurrent' /\ CacheCoherent'
<1> DEFINE s == sent[r]
           n == Len(s)
           w == s[1][1]
<1>1. s \in Seq(User \X Held) /\ s # <<>> /\ email' = email /\ raced' = raced
  BY DEF TypeOK, Deliver, tables
<1>2. n \in Nat /\ n >= 1 /\ Head(s) = s[1] /\ s[1] \in User \X Held
  BY <1>1
<1>3. Len(Tail(s)) = n - 1 /\ \A i \in 1 .. n - 1 : Tail(s)[i] = s[i + 1]
  BY <1>1, HeadTailProperties
<1>4. sent'[r] = Tail(s) /\ \A q \in Request \ {r} : sent'[q] = sent[q]
  BY DEF TypeOK, Deliver
<1>5. w \in User /\ cached'[w] = s[1][2] /\ \A v \in User \ {w} : cached'[v] = cached[v]
  BY <1>2 DEF TypeOK, Deliver
<1> HIDE DEF s, n, w
<1>6. ASSUME NEW v \in User \ raced', NEW q \in Request, NEW i \in 1..Len(sent'[q]), sent'[q][i][1] = v
      PROVE  \/ sent'[q][i][2] = email'[v]
             \/ \E j \in i + 1 .. Len(sent'[q]) : sent'[q][j][1] = v
  <2>1. CASE q = r
    <3> DEFINE m == Len(sent'[q])
    <3>1. sent'[q] = Tail(s) /\ m = n - 1
      BY <1>3, <1>4, <2>1
    <3>2. i \in 1..m /\ sent'[q][i][1] = v
      BY <1>6
    <3> HIDE DEF m
    <3>3. i \in 1 .. n - 1 /\ i + 1 \in 1..n
      BY <1>2, <3>1, <3>2
    <3>4. sent'[q][i] = s[i + 1]
      BY <1>3, <3>1, <3>3
    <3>5. i \in 1 .. n - 1 /\ i + 1 \in 1..n /\ s[i + 1][1] = v /\ sent'[r][i] = s[i + 1]
      BY <2>1, <3>2, <3>3, <3>4
    <3>6. CASE s[i + 1][2] = email[v]
      BY <1>1, <2>1, <3>5, <3>6
    <3>7. CASE \E j \in (i + 1) + 1 .. n : s[j][1] = v
      <4>1. PICK j \in (i + 1) + 1 .. n : s[j][1] = v
        BY <3>7
      <4>2. j - 1 \in i + 1 .. n - 1 /\ j - 1 \in 1 .. n - 1 /\ (j - 1) + 1 = j
        BY <1>2, <3>5, <4>1
      <4>3. sent'[r][j - 1] = s[j]
        BY <1>3, <1>4, <4>2
      <4> QED
        BY <1>3, <1>4, <2>1, <4>1, <4>2, <4>3
    <3> QED
      BY <1>1, <3>5, <3>6, <3>7 DEF LastIsCurrent, s, n
  <2>2. CASE q # r
    <3>1. sent'[q] = sent[q]
      BY <1>4, <2>2
    <3>2. i \in 1..Len(sent[q]) /\ sent[q][i][1] = v /\ v \in User \ raced
      BY <1>1, <1>6, <3>1
    <3> QED
      BY <1>1, <3>1, <3>2 DEF LastIsCurrent
  <2> QED
    BY <2>1, <2>2
<1>7. ASSUME NEW v \in User, Settled(v)'
      PROVE  cached'[v] \in {NoEmail, email'[v]}
  <2>1. v \notin raced /\ \A q \in Request : \A i \in 1..Len(sent'[q]) : sent'[q][i][1] # v
    BY <1>1, <1>7 DEF Settled
  <2>2. \A j \in 2..n : s[j][1] # v
    <3>1. ASSUME NEW j \in 2..n PROVE s[j][1] # v
      <4>1. j - 1 \in 1 .. n - 1 /\ (j - 1) + 1 = j
        BY <1>2
      <4> QED
        BY <1>3, <1>4, <2>1, <4>1
    <3> QED
      BY <3>1
  <2>3. CASE v = w
    <3>1. 1 \in 1..n /\ 1 + 1 = 2
      BY <1>2
    <3>2. s[1][2] = email[v]
      BY <2>1, <2>2, <2>3, <3>1 DEF LastIsCurrent, s, n, w
    <3> QED
      BY <1>1, <1>5, <2>3, <3>2
  <2>4. CASE v # w
    <3>1. \A i \in 1..n : s[i][1] # v
      BY <1>2, <2>2, <2>4 DEF w
    <3>2. Settled(v)
      BY <1>4, <2>1, <3>1 DEF Settled, s, n
    <3> QED
      BY <1>1, <1>5, <2>4, <3>2 DEF CacheCoherent
  <2> QED
    BY <2>3, <2>4
<1> QED
  BY <1>6, <1>7 DEF LastIsCurrent, CacheCoherent

LEMMA CacheStopped ==
    ASSUME TypeOK, LastIsCurrent, CacheCoherent, NEW r \in Request, Stop(r)
    PROVE  LastIsCurrent' /\ CacheCoherent'
<1>1. email' = email /\ cached' = cached
  BY DEF Stop, tables
<1>2. raced' = raced \cup {sent[r][i][1] : i \in 1..Len(sent[r])}
  BY DEF Stop
<1>3. sent'[r] = <<>> /\ \A q \in Request \ {r} : sent'[q] = sent[q]
  BY DEF Stop, TypeOK
<1>4. \A i \in 1..Len(sent'[r]) : FALSE
  BY <1>3
<1>5. LastIsCurrent'
  BY <1>1, <1>2, <1>3, <1>4 DEF LastIsCurrent
<1>6. \A v \in User : Settled(v)' => Settled(v)
  BY <1>2, <1>3 DEF Settled
<1> QED
  BY <1>1, <1>5, <1>6 DEF CacheCoherent

LEMMA NextCache ==
    ASSUME TypeOK, LastIsCurrent, CacheCoherent, [Next]_vars
    PROVE  LastIsCurrent' /\ CacheCoherent'
<1> USE DEF tables, cache, history
<1>1. ASSUME NEW r \in Request, NEW u \in User,
             (\E e \in Email : ReadUser(r, u, e)) \/ RemoveUser(r, u)
      PROVE  LastIsCurrent' /\ CacheCoherent'
  BY <1>1, CacheReadThrough DEF ReadUser, RemoveUser
<1>2. ASSUME NEW r \in Request,
             \/ \E u \in User, e \in Email : UpdateUser(r, u, e) \/ CreateUser(r, u, e)
             \/ \E c \in Change, side \in {"old", "new"} : Verify(r, c, side)
             \/ \E c \in Change : InsertChange(r, c)
             \/ Confirm(r) \/ RemoveDetailRow(r)
      PROVE  LastIsCurrent' /\ CacheCoherent'
  <2>1. email' = email /\ UNCHANGED cache
    BY <1>2 DEF UpdateUser, CreateUser, Verify, InsertChange, Confirm, RemoveDetailRow
  <2> QED
    BY <2>1, CacheKept
<1>3. ASSUME NEW r \in Request, CheckEmail(r)
      PROVE  LastIsCurrent' /\ CacheCoherent'
  <2>1. request[r].user \in User
    BY <1>3, Fields DEF CheckEmail
  <2>2. ReadThrough(r, request[r].user) /\ email' = email
    BY <1>3 DEF CheckEmail, Check
  <2> QED
    BY <2>1, <2>2, CacheReadThrough
<1>4. ASSUME NEW r \in Request, WriteEmail(r) \/ PutUser(r)
      PROVE  LastIsCurrent' /\ CacheCoherent'
  <2>1. request[r].user \in User /\ request[r].email \in Held
    BY <1>4, Fields DEF WriteEmail, PutUser, Held
  <2>2. \/ email' = email /\ UNCHANGED cache
        \/ /\ email' = [email EXCEPT ![request[r].user] = request[r].email]
           /\ Refresh(r, request[r].user, request[r].email)
    BY <1>4 DEF WriteEmail, PutUser
  <2> QED
    BY <2>1, <2>2, CacheKept, CacheWritten
<1>5. ASSUME NEW r \in Request, RemoveUserRow(r)
      PROVE  LastIsCurrent' /\ CacheCoherent'
  <2>1. request[r].user \in User /\ NoEmail \in Held
    BY <1>5, Fields DEF RemoveUserRow, Removed, Held
  <2>2. email' = [email EXCEPT ![request[r].user] = NoEmail]
    BY <1>5 DEF RemoveUserRow
  <2>3. CASE Exists(request[r].user)
    BY <1>5, <2>1, <2>2, <2>3, CacheWritten DEF RemoveUserRow
  <2>4. CASE ~Exists(request[r].user)
    <3>1. email' = email
      BY <2>1, <2>2, <2>4 DEF Exists, TypeOK
    <3> QED
      BY <1>5, <2>4, <3>1, CacheKept DEF RemoveUserRow
  <2> QED
    BY <2>3, <2>4
<1>6. CASE UNCHANGED vars
  BY <1>6, CacheKept DEF vars
<1> QED
  BY <1>1, <1>2, <1>3, <1>4, <1>5, <1>6, CacheDelivered, CacheStopped DEF Next, Work

-----------------------------------------------------------------------------
(* What a step may do to the tables and to a request.                      *)

UserWritten(u) ==
    \E e \in Held : email' = [email EXCEPT ![u] = e] /\ rewrites' = [rewrites EXCEPT ![u] = @ + 1]

LEMMA TablesStep ==
    ASSUME TypeOK, [Next]_vars
    PROVE  \/ email' = email /\ rewrites' = rewrites
           \/ \E r \in Request : /\ WriteEmail(r) \/ PutUser(r) \/ RemoveUserRow(r)
                                 /\ request[r].user \in User /\ UserWritten(request[r].user)
<1> USE DEF tables, cache, history
<1>1. ASSUME NEW r \in Request, WriteEmail(r) \/ PutUser(r)
      PROVE  \/ email' = email /\ rewrites' = rewrites
             \/ request[r].user \in User /\ UserWritten(request[r].user)
  <2>1. request[r].user \in User /\ request[r].email \in Held
    BY <1>1, Fields DEF WriteEmail, PutUser, Held
  <2> QED
    BY <1>1, <2>1 DEF WriteEmail, PutUser, UserWritten
<1>2. ASSUME NEW r \in Request, RemoveUserRow(r)
      PROVE  request[r].user \in User /\ UserWritten(request[r].user)
  <2>1. request[r].user \in User /\ NoEmail \in Held
    BY <1>2, Fields DEF RemoveUserRow, Removed, Held
  <2> QED
    BY <1>2, <2>1 DEF RemoveUserRow, UserWritten
<1>3. ASSUME NEW r \in Request,
             \/ \E u \in User, e \in Email : ReadUser(r, u, e) \/ UpdateUser(r, u, e) \/ CreateUser(r, u, e)
             \/ \E c \in Change, side \in {"old", "new"} : Verify(r, c, side)
             \/ \E u \in User : RemoveUser(r, u)
             \/ \E c \in Change : InsertChange(r, c)
             \/ Confirm(r) \/ RemoveDetailRow(r) \/ Deliver(r) \/ Stop(r)
      PROVE  email' = email /\ rewrites' = rewrites
  BY <1>3 DEF ReadUser, UpdateUser, CreateUser, Verify, RemoveUser, InsertChange, Confirm,
              RemoveDetailRow, Deliver, Stop
<1>4. ASSUME NEW r \in Request, CheckEmail(r)
      PROVE  email' = email /\ rewrites' = rewrites
  BY <1>4 DEF CheckEmail, Check
<1>5. CASE UNCHANGED vars
  BY <1>5 DEF vars
<1> QED
  BY <1>1, <1>2, <1>3, <1>4, <1>5 DEF Next, Work

(* What is true of an old address and a count stays true when nobody       *)
(* writes the user, and when somebody does.                                *)
LEMMA OldKept ==
    ASSUME TypeOK, [Next]_vars, NEW u \in User, NEW old, NEW base \in Nat, NEW settled,
           base <= rewrites[u], settled /\ base = rewrites[u] => old = email[u]
    PROVE  base <= rewrites'[u] /\ (settled /\ base = rewrites'[u] => old = email'[u])
<1>1. CASE email' = email /\ rewrites' = rewrites
  BY <1>1
<1>2. ASSUME NEW v \in User, UserWritten(v)
      PROVE  base <= rewrites'[u] /\ (settled /\ base = rewrites'[u] => old = email'[u])
  <2>1. rewrites[u] \in Nat
    BY DEF TypeOK
  <2>2. CASE v = u
    <3>1. rewrites'[u] = rewrites[u] + 1
      BY <1>2, <2>2 DEF UserWritten, TypeOK
    <3> QED
      BY <2>1, <3>1
  <2>3. CASE v # u
    <3>1. rewrites'[u] = rewrites[u] /\ email'[u] = email[u]
      BY <1>2, <2>3 DEF UserWritten, TypeOK
    <3> QED
      BY <3>1
  <2> QED
    BY <2>2, <2>3
<1> QED
  BY <1>1, <1>2, TablesStep

(* How a request comes to be what it is after a step.                      *)
LEMMA RequestStep ==
    ASSUME TypeOK, [Next]_vars, NEW q \in Request
    PROVE  \/ request'[q] = request[q]
           \/ request'[q].pc = "idle"
           \/ request'[q].pc = "remove" /\ request[q].pc = "remove" /\ request'[q].user = request[q].user
           \/ \E u \in User, e \in Email : ReadUser(q, u, e) \/ UpdateUser(q, u, e) \/ CreateUser(q, u, e)
           \/ \E u \in User : RemoveUser(q, u)
           \/ \E c \in Change, side \in {"old", "new"} : Verify(q, c, side)
           \/ CheckEmail(q) \/ Confirm(q)
<1> DEFINE Goal == \/ request'[q] = request[q]
                   \/ request'[q].pc = "idle"
                   \/ request'[q].pc = "remove" /\ request[q].pc = "remove" /\ request'[q].user = request[q].user
                   \/ \E u \in User, e \in Email : ReadUser(q, u, e) \/ UpdateUser(q, u, e) \/ CreateUser(q, u, e)
                   \/ \E u \in User : RemoveUser(q, u)
                   \/ \E c \in Change, side \in {"old", "new"} : Verify(q, c, side)
                   \/ CheckEmail(q) \/ Confirm(q)
<1>1. ASSUME NEW r \in Request, NEW state, Become(r, state), r # q
      PROVE  request'[q] = request[q]
  BY <1>1, BecomeOther
<1>2. ASSUME NEW r \in Request, NEW u \in User, NEW e \in Email,
             ReadUser(r, u, e) \/ UpdateUser(r, u, e) \/ CreateUser(r, u, e)
      PROVE  Goal
  BY <1>1, <1>2 DEF ReadUser, UpdateUser, CreateUser, Begin
<1>3. ASSUME NEW r \in Request, NEW u \in User, RemoveUser(r, u)
      PROVE  Goal
  BY <1>1, <1>3 DEF RemoveUser, Begin
<1>4. ASSUME NEW r \in Request, NEW c \in Change, NEW side \in {"old", "new"}, Verify(r, c, side)
      PROVE  Goal
  BY <1>1, <1>4 DEF Verify, Begin
<1>5. ASSUME NEW r \in Request, CheckEmail(r) \/ Confirm(r)
      PROVE  Goal
  <2>1. \E state : Become(r, state)
    BY <1>5 DEF CheckEmail, Confirm, Check
  <2> QED
    BY <1>1, <1>5, <2>1
<1>6. ASSUME NEW r \in Request,
             WriteEmail(r) \/ PutUser(r) \/ Stop(r) \/ (\E c \in Change : InsertChange(r, c))
      PROVE  Goal
  <2>1. Become(r, Idle)
    BY <1>6 DEF WriteEmail, PutUser, Stop, InsertChange
  <2> QED
    BY <1>1, <2>1, BecomeOther DEF Idle
<1>7. ASSUME NEW r \in Request, RemoveUserRow(r) \/ RemoveDetailRow(r)
      PROVE  Goal
  <2>1. request[r] \in [pc : {"remove"}, user : User, left : SUBSET {"user", "detail"}]
    BY <1>7, Fields DEF RemoveUserRow, RemoveDetailRow, Removed
  <2>2. PICK row : Become(r, IF request[r].left = {row} THEN Idle ELSE [request[r] EXCEPT !.left = @ \ {row}])
    BY <1>7 DEF RemoveUserRow, RemoveDetailRow, Removed
  <2>3. request'[r] = Idle \/ request'[r] = [request[r] EXCEPT !.left = @ \ {row}]
    BY <2>2, BecomeOther
  <2> QED
    BY <1>1, <2>1, <2>2, <2>3 DEF Idle
<1>8. ASSUME NEW r \in Request, Deliver(r)
      PROVE  Goal
  BY <1>8 DEF Deliver
<1>9. CASE UNCHANGED vars
  BY <1>9 DEF vars
<1> QED
  BY <1>2, <1>3, <1>4, <1>5, <1>6, <1>7, <1>8, <1>9 DEF Next, Work

(* A change keeps what was requested, and its confirmations.               *)
LEMMA ChangeStep ==
    ASSUME TypeOK, ChangesAreTrue, [Next]_vars, NEW c \in Change
    PROVE  /\ Requested(c) => /\ Requested(c)'
                              /\ change'[c].user = change[c].user /\ change'[c].old = change[c].old
                              /\ change'[c].new = change[c].new /\ change'[c].base = change[c].base
                              /\ change'[c].settled = change[c].settled
           /\ Confirmed(c) => Confirmed(c)'
           /\ Requested(c)' /\ ~Requested(c) => \E r \in Request : InsertChange(r, c)
<1> USE DEF tables, cache, history
<1>1. CASE change' = change
  BY <1>1 DEF Requested, Confirmed
<1>2. ASSUME NEW r \in Request, NEW d \in Change, InsertChange(r, d)
      PROVE  /\ Requested(c) => change'[c] = change[c]
             /\ Requested(c)' /\ ~Requested(c) => d = c
  BY <1>2 DEF InsertChange, Requested, TypeOK
<1>3. ASSUME NEW r \in Request, Confirm(r)
      PROVE  \/ change'[c] = change[c]
             \/ Requested(c) /\ \E side : change'[c] = ConfirmSide(change[c], side)
  <2>1. request[r].change \in Change /\ Requested(request[r].change)
    BY <1>3, Fields DEF Confirm, ChangesAreTrue
  <2> QED
    BY <1>3, <2>1 DEF Confirm, TypeOK
<1>4. ASSUME NEW side, Requested(c), change'[c] = ConfirmSide(change[c], side)
      PROVE  /\ Requested(c)'
             /\ change'[c].user = change[c].user /\ change'[c].old = change[c].old
             /\ change'[c].new = change[c].new /\ change'[c].base = change[c].base
             /\ change'[c].settled = change[c].settled
             /\ Confirmed(c) => Confirmed(c)'
  <2>1. change[c] \in ChangeRow
    BY <1>4, RowType
  <2> QED
    BY <1>4, <2>1 DEF ConfirmSide, ChangeRow, Requested, Confirmed
<1>5. \/ change' = change
      \/ \E r \in Request, d \in Change : InsertChange(r, d)
      \/ \E r \in Request : Confirm(r)
  <2>1. ASSUME NEW r \in Request, CheckEmail(r) \/ WriteEmail(r)
        PROVE  change' = change
    BY <2>1 DEF CheckEmail, WriteEmail
  <2>2. ASSUME NEW r \in Request, PutUser(r) \/ RemoveUserRow(r) \/ RemoveDetailRow(r) \/ Deliver(r) \/ Stop(r)
        PROVE  change' = change
    BY <2>2 DEF PutUser, RemoveUserRow, RemoveDetailRow, Deliver, Stop
  <2>3. ASSUME NEW r \in Request,
               \/ \E u \in User, e \in Email : ReadUser(r, u, e) \/ UpdateUser(r, u, e) \/ CreateUser(r, u, e)
               \/ \E d \in Change, side \in {"old", "new"} : Verify(r, d, side)
               \/ \E u \in User : RemoveUser(r, u)
        PROVE  change' = change
    BY <2>3 DEF ReadUser, UpdateUser, CreateUser, Verify, RemoveUser
  <2> QED
    BY <2>1, <2>2, <2>3 DEF Next, Work, vars
<1>6. CASE \E r \in Request, d \in Change : InsertChange(r, d)
  BY <1>2, <1>6 DEF Requested, Confirmed
<1>7. CASE \E r \in Request : Confirm(r)
  BY <1>3, <1>4, <1>7 DEF Requested, Confirmed
<1> QED
  BY <1>1, <1>5, <1>6, <1>7

-----------------------------------------------------------------------------
(* Changes of an address.                                                  *)

LEMMA NextChanges ==
    ASSUME TypeOK, CacheCoherent, ChangesAreTrue, [Next]_vars
    PROVE  ChangesAreTrue'
<1>1. ASSUME NEW q \in Request, request'[q].pc = "insert"
      PROVE  OldIsCurrent(request[q])'
  <2>1. CASE request'[q] = request[q]
    <3>1. /\ request[q] \in [pc : {"insert"}, user : User, old : Email, new : Email,
                             base : Nat, settled : BOOLEAN]
          /\ OldIsCurrent(request[q])
      BY <1>1, <2>1, Fields DEF ChangesAreTrue
    <3>2. request[q].user \in User /\ request[q].base \in Nat
      BY <3>1
    <3> QED
      BY <2>1, <3>1, <3>2, OldKept DEF OldIsCurrent
  <2>2. ASSUME NEW u \in User, NEW e \in Email, ReadUser(q, u, e)
        PROVE  OldIsCurrent(request[q])'
    <3> DEFINE state == [pc |-> "insert", user |-> u, old |-> CachedEmail(u), new |-> e,
                         base |-> rewrites[u], settled |-> Settled(u)]
    <3>1. request'[q] = state
      BY <2>2, BecomeOther DEF ReadUser, Begin
    <3>2. rewrites' = rewrites /\ email' = email /\ rewrites[u] \in Nat
      BY <2>2 DEF ReadUser, tables, TypeOK
    <3>3. Settled(u) => CachedEmail(u) = email[u]
      BY DEF CacheCoherent, CachedEmail
    <3> QED
      BY <3>1, <3>2, <3>3 DEF OldIsCurrent
  <2>3. ASSUME NEW u \in User, NEW e \in Email, UpdateUser(q, u, e) \/ CreateUser(q, u, e)
        PROVE  FALSE
    BY <1>1, <2>3, BecomeOther DEF UpdateUser, CreateUser, Begin
  <2>4. ASSUME NEW c \in Change, NEW side \in {"old", "new"}, Verify(q, c, side)
        PROVE  FALSE
    BY <1>1, <2>4, BecomeOther DEF Verify, Begin
  <2>5. ASSUME NEW u \in User, RemoveUser(q, u)
        PROVE  FALSE
    BY <1>1, <2>5, BecomeOther DEF RemoveUser, Begin
  <2>6. ~CheckEmail(q)
    <3>1. SUFFICES ASSUME CheckEmail(q) PROVE FALSE
      OBVIOUS
    <3>2. request[q] \in [pc : {"check", "write"}, user : User, email : Email, for : SUBSET Change]
      BY <3>1, Fields DEF CheckEmail
    <3>3. Become(q, [request[q] EXCEPT !.pc = "write"]) \/ Become(q, Idle)
      BY <3>1 DEF CheckEmail, Check
    <3> QED
      BY <1>1, <3>2, <3>3, BecomeOther DEF Idle
  <2>7. ~Confirm(q)
    BY <1>1, BecomeOther DEF Confirm, Idle
  <2> QED
    BY <1>1, <2>1, <2>2, <2>3, <2>4, <2>5, <2>6, <2>7, RequestStep
<1>2. ASSUME NEW c \in Change, Requested(c)'
      PROVE  OldIsCurrent(change[c])'
  <2>1. CASE Requested(c)
    <3>1. change[c] \in ChangeRow /\ OldIsCurrent(change[c])
      BY <2>1, RowType DEF ChangesAreTrue
    <3>2. change[c].user \in User /\ change[c].base \in Nat
      BY <3>1 DEF ChangeRow
    <3>3. /\ change[c].base <= rewrites'[change[c].user]
          /\ change[c].settled /\ change[c].base = rewrites'[change[c].user]
                => change[c].old = email'[change[c].user]
      BY <3>1, <3>2, OldKept DEF OldIsCurrent
    <3> QED
      BY <2>1, <3>3, ChangeStep DEF OldIsCurrent
  <2>2. CASE ~Requested(c)
    <3>1. PICK r \in Request : InsertChange(r, c)
      BY <1>2, <2>2, ChangeStep
    <3>2. OldIsCurrent(request[r])
      BY <3>1 DEF ChangesAreTrue, InsertChange
    <3>3. /\ change'[c].user = request[r].user /\ change'[c].old = request[r].old
          /\ change'[c].base = request[r].base /\ change'[c].settled = request[r].settled
      BY <3>1 DEF InsertChange, TypeOK
    <3>4. email' = email /\ rewrites' = rewrites
      BY <3>1 DEF InsertChange, tables
    <3> QED
      BY <3>2, <3>3, <3>4 DEF OldIsCurrent
  <2> QED
    BY <2>1, <2>2
<1>3. ASSUME NEW q \in Request, request'[q].pc = "confirm"
      PROVE  /\ Requested(request[q].change)'
             /\ request'[q].seen.new = change'[request'[q].change].new
  <2>1. CASE request'[q] = request[q]
    <3>1. request[q].change \in Change
      BY <1>3, <2>1, Fields
    <3> QED
      BY <1>3, <2>1, <3>1, ChangeStep DEF ChangesAreTrue, Requested
  <2>2. ASSUME NEW c \in Change, NEW side \in {"old", "new"}, Verify(q, c, side)
        PROVE  /\ Requested(request[q].change)'
               /\ request'[q].seen.new = change'[request'[q].change].new
    <3>1. request'[q] = [pc |-> "confirm", change |-> c, side |-> side, seen |-> change[c]]
      BY <2>2, BecomeOther DEF Verify, Begin
    <3>2. change' = change /\ Requested(c)
      BY <2>2 DEF Verify
    <3> QED
      BY <3>1, <3>2 DEF Requested
  <2>3. ASSUME NEW u \in User, NEW e \in Email, ReadUser(q, u, e) \/ UpdateUser(q, u, e) \/ CreateUser(q, u, e)
        PROVE  FALSE
    BY <1>3, <2>3, BecomeOther DEF ReadUser, UpdateUser, CreateUser, Begin
  <2>4. ASSUME NEW u \in User, RemoveUser(q, u)
        PROVE  FALSE
    BY <1>3, <2>4, BecomeOther DEF RemoveUser, Begin
  <2>5. ~CheckEmail(q)
    <3>1. SUFFICES ASSUME CheckEmail(q) PROVE FALSE
      OBVIOUS
    <3>2. request[q] \in [pc : {"check", "write"}, user : User, email : Email, for : SUBSET Change]
      BY <3>1, Fields DEF CheckEmail
    <3>3. Become(q, [request[q] EXCEPT !.pc = "write"]) \/ Become(q, Idle)
      BY <3>1 DEF CheckEmail, Check
    <3> QED
      BY <1>3, <3>2, <3>3, BecomeOther DEF Idle
  <2>6. ~Confirm(q)
    BY <1>3, BecomeOther DEF Confirm, Idle
  <2> QED
    BY <1>3, <2>1, <2>2, <2>3, <2>4, <2>5, <2>6, RequestStep
<1> QED
  BY <1>1, <1>2, <1>3 DEF ChangesAreTrue

(* Who carries a change after a step: who carried it, or the one that just *)
(* confirmed it.                                                           *)
LEMMA CarriesStep ==
    ASSUME TypeOK, ChangesAreTrue, [Next]_vars, NEW q \in Request, NEW c \in Change, Carries(q, c)'
    PROVE  \/ Carries(q, c) /\ request'[q].user = request[q].user /\ request'[q].email = request[q].email
           \/ /\ Confirm(q) /\ request[q].change = c
              /\ Requested(c) /\ ~Confirmed(c) /\ Confirmed(c)'
              /\ change'[c].user = request'[q].user /\ change'[c].new = request'[q].email
<1>1. request'[q].pc \in {"check", "write"} /\ c \in request'[q].for
  BY DEF Carries
<1>2. CASE request'[q] = request[q]
  BY <1>1, <1>2 DEF Carries
<1>3. ASSUME NEW u \in User, NEW e \in Email, ReadUser(q, u, e) \/ UpdateUser(q, u, e) \/ CreateUser(q, u, e)
      PROVE  FALSE
  BY <1>1, <1>3, BecomeOther DEF ReadUser, UpdateUser, CreateUser, Begin
<1>4. ASSUME NEW u \in User, RemoveUser(q, u)
      PROVE  FALSE
  BY <1>1, <1>4, BecomeOther DEF RemoveUser, Begin
<1>5. ASSUME NEW d \in Change, NEW side \in {"old", "new"}, Verify(q, d, side)
      PROVE  FALSE
  BY <1>1, <1>5, BecomeOther DEF Verify, Begin
<1>6. CASE CheckEmail(q)
  <2>1. request[q] \in [pc : {"check", "write"}, user : User, email : Email, for : SUBSET Change]
    BY <1>6, Fields DEF CheckEmail
  <2>2. Become(q, [request[q] EXCEPT !.pc = "write"]) \/ Become(q, Idle)
    BY <1>6 DEF CheckEmail, Check
  <2> QED
    BY <1>1, <2>1, <2>2, BecomeOther DEF Carries, Idle
<1>7. CASE Confirm(q)
  <2> DEFINE d == request[q].change
             row == ConfirmSide(change[d], request[q].side)
             state == [pc |-> "check", user |-> row.user, email |-> request[q].seen.new, for |-> {d}]
  <2>1. /\ request[q] \in [pc : {"confirm"}, change : Change, side : {"old", "new"}, seen : ChangeRow]
        /\ Requested(d) /\ request[q].seen.new = change[d].new
    BY <1>7, Fields DEF Confirm, ChangesAreTrue
  <2>2. change[d] \in ChangeRow /\ d \in Change
    BY <2>1, RowType
  <2>3. Unconfirmed(change[d], request[q].side) /\ request'[q] = state
        /\ change'[d] = row /\ Completed(row, request[q].seen)
    BY <1>1, <1>7, <2>2, BecomeOther DEF Confirm, Idle, TypeOK
  <2>4. d = c
    BY <1>1, <2>3
  <2>5. row.user = change[d].user /\ row.new = change[d].new /\ row.state = change[d].state
    BY <2>2 DEF ConfirmSide, ChangeRow
  <2>6. ~Confirmed(c)
    BY <2>3, <2>4 DEF Unconfirmed, Confirmed
  <2>7. Confirmed(c)'
    BY <2>1, <2>3, <2>4, <2>5 DEF Completed, Confirmed, Requested
  <2>8. change'[c].user = request'[q].user /\ change'[c].new = request'[q].email
    BY <2>1, <2>3, <2>4, <2>5
  <2> QED
    BY <1>7, <2>1, <2>4, <2>6, <2>7, <2>8
<1> QED
  BY <1>1, <1>2, <1>3, <1>4, <1>5, <1>6, <1>7, RequestStep

LEMMA AppliedStep ==
    ASSUME TypeOK, [Next]_vars
    PROVE  \/ applied' = applied
           \/ \E r \in Request : /\ WriteEmail(r) /\ applied' = applied \cup request[r].for
                                 /\ Become(r, Idle) /\ change' = change
<1> USE DEF tables, cache, history
<1>1. ASSUME NEW r \in Request, CheckEmail(r) \/ PutUser(r) \/ RemoveUserRow(r) \/ RemoveDetailRow(r)
             \/ Deliver(r) \/ Stop(r) \/ Confirm(r)
      PROVE  applied' = applied
  BY <1>1 DEF CheckEmail, PutUser, RemoveUserRow, RemoveDetailRow, Deliver, Stop, Confirm
<1>2. ASSUME NEW r \in Request,
             \/ \E u \in User, e \in Email : ReadUser(r, u, e) \/ UpdateUser(r, u, e) \/ CreateUser(r, u, e)
             \/ \E c \in Change, side \in {"old", "new"} : Verify(r, c, side)
             \/ \E u \in User : RemoveUser(r, u)
             \/ \E c \in Change : InsertChange(r, c)
      PROVE  applied' = applied
  BY <1>2 DEF ReadUser, UpdateUser, CreateUser, Verify, RemoveUser, InsertChange
<1>3. ASSUME NEW r \in Request, WriteEmail(r)
      PROVE  \/ applied' = applied
             \/ /\ applied' = applied \cup request[r].for
                /\ Become(r, Idle) /\ change' = change
  BY <1>3 DEF WriteEmail
<1> QED
  BY <1>1, <1>2, <1>3 DEF Next, Work, vars

LEMMA NextCarried ==
    ASSUME TypeOK, ChangesAreTrue, CarriedOnce, [Next]_vars
    PROVE  CarriedOnce'
<1>1. ASSUME NEW r \in Request, WriteEmail(r)
      PROVE  \A c \in request[r].for : c \in Change /\ Carries(r, c) /\ Confirmed(c)
  BY <1>1, Fields DEF WriteEmail, Carries, CarriedOnce
<1>2. \A c \in applied' : Confirmed(c)'
  BY <1>1, AppliedStep, ChangeStep DEF CarriedOnce, TypeOK
<1>3. ASSUME NEW q \in Request, NEW c \in Change, Carries(q, c)'
      PROVE  /\ Confirmed(c)' /\ c \notin applied'
             /\ change'[c].user = request'[q].user /\ change'[c].new = request'[q].email
  <2>1. CASE Carries(q, c) /\ request'[q].user = request[q].user /\ request'[q].email = request[q].email
    <3>1. /\ Confirmed(c) /\ c \notin applied
          /\ change[c].user = request[q].user /\ change[c].new = request[q].email
      BY <2>1 DEF CarriedOnce
    <3>2. c \notin applied'
      <4>1. ASSUME NEW r \in Request, WriteEmail(r), Become(r, Idle), c \in request[r].for
            PROVE  FALSE
        <5>1. r = q
          BY <1>1, <2>1, <4>1 DEF CarriedOnce
        <5> QED
          BY <1>3, <4>1, <5>1, BecomeOther DEF Carries, Idle
      <4> QED
        BY <3>1, <4>1, AppliedStep
    <3> QED
      BY <2>1, <3>1, <3>2, ChangeStep DEF Confirmed
  <2>2. CASE /\ Confirm(q) /\ request[q].change = c
             /\ Requested(c) /\ ~Confirmed(c) /\ Confirmed(c)'
             /\ change'[c].user = request'[q].user /\ change'[c].new = request'[q].email
    <3>1. c \notin applied
      BY <2>2 DEF CarriedOnce
    <3>2. applied' = applied
      BY <2>2 DEF Confirm, history
    <3> QED
      BY <2>2, <3>1, <3>2
  <2> QED
    BY <1>3, <2>1, <2>2, CarriesStep
<1>4. ASSUME NEW p \in Request, NEW q \in Request, NEW c \in Change, Carries(p, c)', Carries(q, c)', p # q
      PROVE  FALSE
  <2>1. CASE Carries(p, c) /\ Carries(q, c)
    BY <1>4, <2>1 DEF CarriedOnce
  <2>2. CASE ~Carries(p, c)
    <3>1. Confirm(p) /\ ~Confirmed(c)
      BY <1>4, <2>2, CarriesStep
    <3>2. Carries(q, c)
      BY <1>4, <3>1, BecomeOther DEF Confirm, Carries
    <3> QED
      BY <3>1, <3>2 DEF CarriedOnce
  <2>3. CASE ~Carries(q, c)
    <3>1. Confirm(q) /\ ~Confirmed(c)
      BY <1>4, <2>3, CarriesStep
    <3>2. Carries(p, c)
      BY <1>4, <3>1, BecomeOther DEF Confirm, Carries
    <3> QED
      BY <3>1, <3>2 DEF CarriedOnce
  <2> QED
    BY <2>1, <2>2, <2>3
<1> QED
  BY <1>2, <1>3, <1>4 DEF CarriedOnce

-----------------------------------------------------------------------------
(* Users that are being registered.                                        *)

LEMMA NotWritten ==
    ASSUME TypeOK, NEW u \in User, UserWritten(u)
    PROVE  rewrites'[u] # 0 /\ rewrites' # rewrites
<1>1. rewrites[u] \in Nat /\ rewrites'[u] = rewrites[u] + 1
  BY DEF TypeOK, UserWritten
<1> QED
  BY <1>1

LEMMA FreshBefore ==
    ASSUME TypeOK, [Next]_vars, NEW u \in User, Fresh(u)'
    PROVE  Fresh(u) /\ ~UserWritten(u)
<1>1. ~UserWritten(u)
  BY NotWritten DEF Fresh
<1>2. ASSUME NEW v \in User, UserWritten(v)
      PROVE  email'[u] = email[u] /\ rewrites'[u] = rewrites[u]
  <2>1. v # u
    BY <1>1, <1>2
  <2> QED
    BY <1>2, <2>1 DEF UserWritten, TypeOK
<1>3. email'[u] = email[u] /\ rewrites'[u] = rewrites[u]
  BY <1>2, TablesStep
<1> QED
  BY <1>1, <1>3 DEF Fresh, Exists

(* Commands are sent about users who are there, or are written.            *)
LEMMA CacheStep ==
    ASSUME TypeOK, [Next]_vars
    PROVE  \/ cached' = cached /\ sent' = sent
           \/ \E r \in Request : Deliver(r) \/ (Stop(r) /\ cached' = cached)
           \/ \E r \in Request, u \in User, e \in Held :
                Send(r, u, e) /\ (Exists(u) \/ UserWritten(u))
<1> USE DEF tables, cache, history
<1>1. ASSUME NEW r \in Request, NEW u \in User, ReadThrough(r, u)
      PROVE  \/ cached' = cached /\ sent' = sent
             \/ \E e \in Held : Send(r, u, e) /\ Exists(u)
  BY <1>1 DEF ReadThrough, TypeOK
<1>2. ASSUME NEW r \in Request, CheckEmail(r)
      PROVE  request[r].user \in User /\ ReadThrough(r, request[r].user)
  BY <1>2, Fields DEF CheckEmail
<1>3. ASSUME NEW r \in Request, WriteEmail(r) \/ PutUser(r)
      PROVE  \/ cached' = cached /\ sent' = sent
             \/ /\ request[r].user \in User /\ request[r].email \in Held
                /\ Send(r, request[r].user, request[r].email) /\ UserWritten(request[r].user)
  <2>1. request[r].user \in User /\ request[r].email \in Held
    BY <1>3, Fields DEF WriteEmail, PutUser, Held
  <2> QED
    BY <1>3, <2>1 DEF WriteEmail, PutUser, Refresh, UserWritten
<1>4. ASSUME NEW r \in Request, RemoveUserRow(r)
      PROVE  \/ cached' = cached /\ sent' = sent
             \/ /\ request[r].user \in User /\ NoEmail \in Held
                /\ Send(r, request[r].user, NoEmail) /\ Exists(request[r].user)
  BY <1>4, Fields DEF RemoveUserRow, Removed, Refresh, Held
<1>5. ASSUME NEW r \in Request,
             \/ \E u \in User, e \in Email : UpdateUser(r, u, e) \/ CreateUser(r, u, e)
             \/ \E c \in Change, side \in {"old", "new"} : Verify(r, c, side)
             \/ \E c \in Change : InsertChange(r, c)
             \/ Confirm(r) \/ RemoveDetailRow(r)
      PROVE  cached' = cached /\ sent' = sent
  BY <1>5 DEF UpdateUser, CreateUser, Verify, InsertChange, Confirm, RemoveDetailRow
<1>6. ASSUME NEW r \in Request, NEW u \in User, (\E e \in Email : ReadUser(r, u, e)) \/ RemoveUser(r, u)
      PROVE  ReadThrough(r, u)
  BY <1>6 DEF ReadUser, RemoveUser
<1>7. \A r \in Request : Stop(r) => cached' = cached
  BY DEF Stop
<1>8. CASE UNCHANGED vars
  BY <1>8 DEF vars
<1> QED
  BY <1>1, <1>2, <1>3, <1>4, <1>5, <1>6, <1>7, <1>8 DEF Next, Work

LEMMA FreshUncached ==
    ASSUME TypeOK, FreshUsers, [Next]_vars, NEW u \in User, Fresh(u)'
    PROVE  /\ cached'[u] = NoEmail
           /\ \A q \in Request : \A i \in 1..Len(sent'[q]) : sent'[q][i][1] # u
<1>1. /\ cached[u] = NoEmail
      /\ \A q \in Request : \A i \in 1..Len(sent[q]) : sent[q][i][1] # u
  BY FreshBefore DEF FreshUsers
<1>2. ASSUME NEW r \in Request, NEW v \in User, NEW e \in Held, Send(r, v, e),
             Exists(v) \/ UserWritten(v)
      PROVE  /\ cached'[u] = NoEmail
             /\ \A q \in Request : \A i \in 1..Len(sent'[q]) : sent'[q][i][1] # u
  <2>1. v # u
    BY <1>2, FreshBefore DEF Fresh
  <2>2. cached' = cached
    BY <1>2 DEF Send
  <2> DEFINE n == Len(sent[r])
             m == Len(sent'[r])
  <2>3. /\ \A q \in Request \ {r} : sent'[q] = sent[q]
        /\ n \in Nat /\ m \in Nat /\ m \in {n, n + 1} /\ m >= 1
        /\ \A i \in 1..n : sent'[r][i] = sent[r][i]
        /\ sent'[r][m] = <<v, e>>
    BY <1>2, SendQueue
  <2>4. ASSUME NEW q \in Request, NEW i \in 1..Len(sent'[q])
        PROVE  sent'[q][i][1] # u
    <3>1. CASE q # r
      <4>1. sent'[q] = sent[q]
        BY <2>3, <3>1
      <4> QED
        BY <1>1, <4>1
    <3>2. CASE q = r
      <4>1. i \in 1..m
        BY <3>2
      <4> HIDE DEF m
      <4>2. CASE i = m
        BY <2>1, <2>3, <3>2, <4>2
      <4>3. CASE i # m
        <5> HIDE DEF n
        <5>1. i \in 1..n
          BY <2>3, <4>1, <4>3
        <5>2. sent[r][i][1] # u
          BY <1>1, <5>1 DEF n
        <5> QED
          BY <2>3, <3>2, <5>1, <5>2
      <4> QED
        BY <4>2, <4>3
    <3> QED
      BY <3>1, <3>2
  <2> QED
    BY <1>1, <2>2, <2>4
<1>3. ASSUME NEW r \in Request, Deliver(r)
      PROVE  /\ cached'[u] = NoEmail
             /\ \A q \in Request : \A i \in 1..Len(sent'[q]) : sent'[q][i][1] # u
  <2> DEFINE s == sent[r]
             n == Len(s)
  <2>1. s \in Seq(User \X Held) /\ s # <<>>
    BY <1>3 DEF TypeOK, Deliver
  <2>2. n \in Nat /\ n >= 1 /\ Head(s) = s[1] /\ s[1] \in User \X Held
    BY <2>1
  <2>3. Len(Tail(s)) = n - 1 /\ \A i \in 1 .. n - 1 : Tail(s)[i] = s[i + 1]
    BY <2>1, HeadTailProperties
  <2>4. sent'[r] = Tail(s) /\ \A q \in Request \ {r} : sent'[q] = sent[q]
    BY <1>3 DEF TypeOK, Deliver
  <2>5. s[1][1] # u
    BY <1>1, <2>2
  <2>6. cached'[u] = cached[u]
    BY <1>3, <2>2, <2>5 DEF TypeOK, Deliver
  <2>7. \A i \in 1 .. n - 1 : Tail(s)[i][1] # u
    <3>1. ASSUME NEW i \in 1 .. n - 1
          PROVE  Tail(s)[i][1] # u
      <4>1. i + 1 \in 1..n
        BY <2>2
      <4>2. s[i + 1][1] # u
        BY <1>1, <4>1
      <4> QED
        BY <2>3, <4>2
    <3> QED
      BY <3>1
  <2>8. ASSUME NEW q \in Request, NEW i \in 1..Len(sent'[q])
        PROVE  sent'[q][i][1] # u
    <3>1. CASE q = r
      BY <2>3, <2>4, <2>7, <3>1
    <3>2. CASE q # r
      <4>1. sent'[q] = sent[q]
        BY <2>4, <3>2
      <4> QED
        BY <1>1, <4>1
    <3> QED
      BY <3>1, <3>2
  <2> QED
    BY <1>1, <2>6, <2>8
<1>4. ASSUME NEW r \in Request, Stop(r), cached' = cached
      PROVE  /\ cached'[u] = NoEmail
             /\ \A q \in Request : \A i \in 1..Len(sent'[q]) : sent'[q][i][1] # u
  <2>1. sent'[r] = <<>> /\ \A q \in Request \ {r} : sent'[q] = sent[q]
    BY <1>4 DEF Stop, TypeOK
  <2>2. \A i \in 1..Len(sent'[r]) : FALSE
    BY <2>1
  <2> QED
    BY <1>1, <1>4, <2>1, <2>2
<1>5. CASE cached' = cached /\ sent' = sent
  BY <1>1, <1>5
<1> QED
  BY <1>2, <1>3, <1>4, <1>5, CacheStep

LEMMA NextFresh ==
    ASSUME TypeOK, FreshUsers, [Next]_vars
    PROVE  FreshUsers'
<1>1. ASSUME NEW q \in Request, request'[q].pc = "put"
      PROVE  \/ request'[q] = request[q]
             \/ \E u \in User, e \in Email : CreateUser(q, u, e)
  <2>1. ASSUME NEW u \in User, NEW e \in Email, ReadUser(q, u, e) \/ UpdateUser(q, u, e)
        PROVE  FALSE
    BY <1>1, <2>1, BecomeOther DEF ReadUser, UpdateUser, Begin
  <2>2. ASSUME NEW u \in User, RemoveUser(q, u)
        PROVE  FALSE
    BY <1>1, <2>2, BecomeOther DEF RemoveUser, Begin
  <2>3. ASSUME NEW c \in Change, NEW side \in {"old", "new"}, Verify(q, c, side)
        PROVE  FALSE
    BY <1>1, <2>3, BecomeOther DEF Verify, Begin
  <2>4. ~CheckEmail(q)
    <3>1. SUFFICES ASSUME CheckEmail(q) PROVE FALSE
      OBVIOUS
    <3>2. request[q] \in [pc : {"check", "write"}, user : User, email : Email, for : SUBSET Change]
      BY <3>1, Fields DEF CheckEmail
    <3>3. Become(q, [request[q] EXCEPT !.pc = "write"]) \/ Become(q, Idle)
      BY <3>1 DEF CheckEmail, Check
    <3> QED
      BY <1>1, <3>2, <3>3, BecomeOther DEF Idle
  <2>5. ~Confirm(q)
    BY <1>1, BecomeOther DEF Confirm, Idle
  <2> QED
    BY <1>1, <2>1, <2>2, <2>3, <2>4, <2>5, RequestStep
<1>2. ASSUME NEW q \in Request, request'[q].pc = "remove"
      PROVE  \/ request[q].pc = "remove" /\ request'[q].user = request[q].user
             \/ \E u \in User : RemoveUser(q, u) /\ request'[q].user = u
  <2>1. ASSUME NEW u \in User, NEW e \in Email, ReadUser(q, u, e) \/ UpdateUser(q, u, e) \/ CreateUser(q, u, e)
        PROVE  FALSE
    BY <1>2, <2>1, BecomeOther DEF ReadUser, UpdateUser, CreateUser, Begin
  <2>2. ASSUME NEW u \in User, RemoveUser(q, u)
        PROVE  request'[q].user = u
    BY <2>2, BecomeOther DEF RemoveUser, Begin
  <2>3. ASSUME NEW c \in Change, NEW side \in {"old", "new"}, Verify(q, c, side)
        PROVE  FALSE
    BY <1>2, <2>3, BecomeOther DEF Verify, Begin
  <2>4. ~CheckEmail(q)
    <3>1. SUFFICES ASSUME CheckEmail(q) PROVE FALSE
      OBVIOUS
    <3>2. request[q] \in [pc : {"check", "write"}, user : User, email : Email, for : SUBSET Change]
      BY <3>1, Fields DEF CheckEmail
    <3>3. Become(q, [request[q] EXCEPT !.pc = "write"]) \/ Become(q, Idle)
      BY <3>1 DEF CheckEmail, Check
    <3> QED
      BY <1>2, <3>2, <3>3, BecomeOther DEF Idle
  <2>5. ~Confirm(q)
    BY <1>2, BecomeOther DEF Confirm, Idle
  <2> QED
    BY <1>2, <2>1, <2>2, <2>3, <2>4, <2>5, RequestStep
<1>3. ASSUME NEW u \in User, Fresh(u)', NEW q \in Request, request'[q].pc = "remove"
      PROVE  request'[q].user # u
  <2>1. Fresh(u) /\ cached[u] = NoEmail /\ (request[q].pc = "remove" => request[q].user # u)
    BY <1>3, FreshBefore DEF FreshUsers
  <2>2. ~RemoveUser(q, u)
    BY <2>1 DEF RemoveUser, CachedEmail, Fresh, Exists
  <2> QED
    BY <1>2, <1>3, <2>1, <2>2
<1>4. ASSUME NEW u \in User, u \in detail, u \notin detail'
      PROVE  \E r \in Request : request[r].pc = "remove" /\ request[r].user = u
  <2>1. ASSUME NEW r \in Request, CheckEmail(r) \/ WriteEmail(r) \/ Confirm(r) \/ PutUser(r)
               \/ RemoveUserRow(r) \/ Deliver(r) \/ Stop(r)
        PROVE  detail' = detail
    BY <2>1 DEF CheckEmail, Check, WriteEmail, Confirm, PutUser, RemoveUserRow, Deliver, Stop, tables
  <2>2. ASSUME NEW r \in Request,
             \/ \E v \in User, e \in Email : ReadUser(r, v, e) \/ UpdateUser(r, v, e) \/ CreateUser(r, v, e)
             \/ \E c \in Change, side \in {"old", "new"} : Verify(r, c, side)
             \/ \E v \in User : RemoveUser(r, v)
             \/ \E c \in Change : InsertChange(r, c)
        PROVE  detail \subseteq detail'
    BY <2>2 DEF ReadUser, UpdateUser, CreateUser, Verify, RemoveUser, InsertChange, tables
  <2>3. ASSUME NEW r \in Request, RemoveDetailRow(r)
        PROVE  request[r].pc = "remove" /\ detail' = detail \ {request[r].user}
    BY <2>3 DEF RemoveDetailRow, Removed
  <2> QED
    BY <1>4, <2>1, <2>2, <2>3 DEF Next, Work, vars
<1>5. ASSUME NEW q \in Request, request'[q].pc = "put", request'[q] = request[q]
      PROVE  Fresh(request[q].user)' /\ request'[q].user \in detail'
  <2> DEFINE u == request[q].user
  <2>1. u \in User /\ Fresh(u) /\ u \in detail
    BY <1>5, Fields DEF FreshUsers
  <2> HIDE DEF u
  <2>2. \A r \in Request : request[r].pc = "remove" => request[r].user # u
    BY <2>1 DEF FreshUsers
  <2>3. ~UserWritten(u) \/ (email' = email /\ rewrites' = rewrites)
    <3>1. SUFFICES ASSUME NEW r \in Request, WriteEmail(r) \/ PutUser(r) \/ RemoveUserRow(r),
                          request[r].user = u, UserWritten(u)
                   PROVE  FALSE
      <4>1. ASSUME NEW r \in Request, request[r].user \in User, UserWritten(request[r].user), UserWritten(u)
            PROVE  request[r].user = u
        <5>1. rewrites'[request[r].user] = rewrites[request[r].user] + 1 /\ rewrites[request[r].user] \in Nat
          BY <4>1 DEF UserWritten, TypeOK
        <5>2. request[r].user # u => rewrites'[request[r].user] = rewrites[request[r].user]
          BY <2>1, <4>1 DEF UserWritten, TypeOK
        <5> QED
          BY <5>1, <5>2
      <4> QED
        BY <4>1, TablesStep
    <3>2. CASE WriteEmail(r)
      <4>1. rewrites' = rewrites
        BY <2>1, <3>1, <3>2 DEF WriteEmail, Fresh
      <4> QED
        BY <2>1, <3>1, <4>1, NotWritten
    <3>3. CASE PutUser(r)
      <4>1. q = r
        BY <1>5, <3>1, <3>3 DEF PutUser, FreshUsers, u
      <4> QED
        BY <1>5, <3>3, <4>1, BecomeOther DEF PutUser, Idle
    <3>4. CASE RemoveUserRow(r)
      BY <2>2, <3>1, <3>4 DEF RemoveUserRow, Removed
    <3> QED
      BY <3>1, <3>2, <3>3, <3>4
  <2>4. email'[u] = email[u] /\ rewrites'[u] = rewrites[u]
    <3>1. ASSUME NEW v \in User, UserWritten(v), v # u
          PROVE  email'[u] = email[u] /\ rewrites'[u] = rewrites[u]
      BY <2>1, <3>1 DEF UserWritten, TypeOK
    <3> QED
      BY <2>3, <3>1, TablesStep
  <2>5. u \in detail'
    BY <1>4, <2>1, <2>2
  <2> QED
    BY <1>5, <2>1, <2>4, <2>5 DEF Fresh, Exists, u
<1>6. ASSUME NEW q \in Request, NEW u \in User, NEW e \in Email, CreateUser(q, u, e)
      PROVE  /\ request'[q].pc = "put" /\ request'[q].user = u
             /\ \A p \in Request \ {q} : request'[p] = request[p]
             /\ Fresh(u)' /\ u \in detail' /\ u \notin detail
  BY <1>6, BecomeOther DEF CreateUser, Begin, Fresh, Exists
<1>7. ASSUME NEW q \in Request, request'[q].pc = "put"
      PROVE  Fresh(request[q].user)' /\ request'[q].user \in detail'
  BY <1>1, <1>5, <1>6, <1>7
<1>8. ASSUME NEW p \in Request, NEW q \in Request, request'[p].pc = "put", request'[q].pc = "put",
             request'[p].user = request'[q].user, p # q
      PROVE  FALSE
  <2>1. CASE request'[p] = request[p] /\ request'[q] = request[q]
    BY <1>8, <2>1 DEF FreshUsers
  <2>2. ASSUME NEW u \in User, NEW e \in Email, CreateUser(p, u, e)
        PROVE  FALSE
    BY <1>6, <1>8, <2>2 DEF FreshUsers
  <2>3. ASSUME NEW u \in User, NEW e \in Email, CreateUser(q, u, e)
        PROVE  FALSE
    BY <1>6, <1>8, <2>3 DEF FreshUsers
  <2> QED
    BY <1>1, <1>8, <2>1, <2>2, <2>3
<1> QED
  BY <1>3, <1>7, <1>8, FreshUncached DEF FreshUsers

-----------------------------------------------------------------------------
(* The theorems.                                                           *)

LEMMA InitInvariant == Init => IInv
<1> SUFFICES ASSUME Init PROVE IInv
  OBVIOUS
<1>1. TypeOK
  BY InitType
<1>2. \A r \in Request : request[r].pc = "idle" /\ Len(sent[r]) = 0
  BY DEF Init, Idle
<1>3. \A u \in User : cached[u] = NoEmail
  BY DEF Init
<1>4. WindowsGuarded /\ UniqueEmail
  BY <1>2, UserEmailsAssumption DEF Init, WindowsGuarded, IsWriting, UniqueEmail, Exists
<1>5. LastIsCurrent /\ CacheCoherent
  BY <1>2, <1>3 DEF LastIsCurrent, CacheCoherent
<1>6. ChangesAreTrue /\ CarriedOnce
  BY <1>2 DEF Init, ChangesAreTrue, CarriedOnce, Carries, Requested, NoChange
<1>7. FreshUsers
  BY <1>2, <1>3 DEF FreshUsers
<1> QED
  BY <1>1, <1>4, <1>5, <1>6, <1>7 DEF IInv

(* The conjuncts of IInv hold one another up: the fields of a request need *)
(* ChangesAreTrue, and an old address needs a coherent cache.              *)
THEOREM EmailInvariant == Spec => []IInv
<1>1. IInv /\ [Next]_vars => IInv'
  BY NextType, NextWindows, NextCache, NextChanges, NextCarried, NextFresh DEF IInv
<1> QED
  BY <1>1, InitInvariant, PTL DEF Spec

(* The tables, Redis and the requests in flight keep their types.          *)
THEOREM TypeCorrect == Spec => []TypeOK
<1>1. IInv => TypeOK
  BY DEF IInv
<1> QED
  BY <1>1, EmailInvariant, PTL

(* An address has two holders only after two windows between the check and *)
(* the write of UserTable.put or update overlapped.                        *)
THEOREM UniqueEmailTheorem == Spec => []UniqueEmail
<1>1. IInv => UniqueEmail
  BY DEF IInv
<1> QED
  BY <1>1, EmailInvariant, PTL

(* CacheMixin, whose commands nobody awaits, leaves Redis with what the    *)
(* table holds, unless commands crossed or were lost.                      *)
THEOREM CacheTheorem == Spec => []CacheCoherent
<1>1. IInv => CacheCoherent
  BY DEF IInv
<1> QED
  BY <1>1, EmailInvariant, PTL

(* An email is written over by an update of the user or by a change that   *)
(* both addresses confirmed, once.                                         *)
THEOREM AgreedTheorem == Spec => ChangeIsAgreed
<1> DEFINE Agreed ==
        \A u \in User :
            Exists(u) /\ Exists(u)' /\ email'[u] # email[u] =>
                \E r \in Request :
                    /\ request[r].pc = "write" /\ request[r].user = u
                    /\ \A c \in request[r].for :
                        /\ Confirmed(c) /\ c \notin applied
                        /\ change[c].user = u /\ change[c].new = email'[u]
                        /\ change[c].settled /\ change[c].base = rewrites[u]
                            => change[c].old = email[u]
<1>1. ASSUME IInv, [Next]_vars
      PROVE  Agreed
  <2> USE DEF IInv
  <2>1. SUFFICES ASSUME NEW u \in User, Exists(u), Exists(u)', email'[u] # email[u]
                 PROVE  \E r \in Request :
                            /\ request[r].pc = "write" /\ request[r].user = u
                            /\ \A c \in request[r].for :
                                /\ Confirmed(c) /\ c \notin applied
                                /\ change[c].user = u /\ change[c].new = email'[u]
                                /\ change[c].settled /\ change[c].base = rewrites[u]
                                    => change[c].old = email[u]
    OBVIOUS
  <2>2. PICK r \in Request : /\ WriteEmail(r) \/ PutUser(r) \/ RemoveUserRow(r)
                             /\ request[r].user \in User /\ UserWritten(request[r].user)
    BY <1>1, <2>1, TablesStep
  <2>3. request[r].user = u
    BY <2>1, <2>2 DEF UserWritten, TypeOK
  <2>4. ~PutUser(r)
    BY <1>1, <2>1, <2>3 DEF PutUser, FreshUsers, Fresh
  <2>5. ~RemoveUserRow(r)
    BY <1>1, <2>1, <2>3 DEF RemoveUserRow, Exists, TypeOK
  <2>6. WriteEmail(r)
    BY <2>2, <2>4, <2>5
  <2>7. email'[u] = request[r].email
    BY <1>1, <2>1, <2>3, <2>6 DEF WriteEmail, TypeOK
  <2>8. request[r].for \subseteq Change /\ request[r].pc = "write"
    BY <1>1, <2>6, Fields DEF WriteEmail
  <2>9. ASSUME NEW c \in request[r].for
        PROVE  /\ Confirmed(c) /\ c \notin applied
               /\ change[c].user = u /\ change[c].new = email'[u]
               /\ change[c].settled /\ change[c].base = rewrites[u]
                    => change[c].old = email[u]
    <3>1. c \in Change /\ Carries(r, c)
      BY <2>8 DEF Carries
    <3>2. /\ Confirmed(c) /\ c \notin applied
          /\ change[c].user = request[r].user /\ change[c].new = request[r].email
      BY <1>1, <3>1 DEF CarriedOnce
    <3>3. OldIsCurrent(change[c])
      BY <1>1, <3>1, <3>2 DEF ChangesAreTrue, Confirmed
    <3> QED
      BY <2>3, <2>7, <3>2, <3>3 DEF OldIsCurrent
  <2> QED
    BY <2>3, <2>8, <2>9
<1>2. IInv /\ [Next]_vars => [Agreed]_vars
  BY <1>1
<1> QED
  BY <1>2, EmailInvariant, PTL DEF Spec, ChangeIsAgreed

(***************************************************************************)
(* InviteTokens.                                                           *)
(***************************************************************************)
(* A request that removed the row as an acceptance and has not yet put the *)
(* user.                                                                   *)
Redeeming(r) == handler[r].pc \in {"check", "putUser"}

(* The right to create the user of a token is held by one request, which   *)
(* took it by removing the row, or was used up by the user there is.       *)
OneHolder ==
    /\ \A r \in Handler : Redeeming(r) =>
        /\ token[handler[r].token].state = "redeemed"
        /\ \A u \in Invitee : HasRow(u) => user[u].token # handler[r].token
    /\ \A q, r \in Handler :
        Redeeming(q) /\ Redeeming(r) /\ handler[q].token = handler[r].token => q = r

USE DEF Unissued, NoUser, Resting, Gone, WrittenEmail

LEMMA InviteInitType == InviteInit => InviteTypeOK
  BY InviteAssumption DEF InviteInit, InviteTypeOK, TokenType, UserType, HandlerType

LEMMA SanitizeType == \A mail \in WrittenEmail : Sanitize(mail) \in WrittenEmail
  BY InviteAssumption DEF Sanitize

LEMMA CreatedType == Cardinality({s \in Token : Issued(s)}) \in Nat
<1>1. IsFiniteSet({s \in Token : Issued(s)})
  BY InviteAssumption, FS_Subset
<1> QED
  BY <1>1, FS_CardinalityType

-----------------------------------------------------------------------------
(* Type correctness of the steps.                                          *)

LEMMA TypeGoes ==
    ASSUME InviteTypeOK, NEW r \in Handler, NEW state \in HandlerType, Goes(r, state)
    PROVE  handler' \in [Handler -> HandlerType]
  BY DEF InviteTypeOK, Goes

LEMMA TypeRemove ==
    ASSUME InviteTypeOK, NEW r \in Handler, NEW t \in Token, NEW fate \in Gone, NEW next,
           Pending(t) => next \in HandlerType, RemoveRow(r, t, fate, next)
    PROVE  token' \in [Token -> TokenType] /\ handler' \in [Handler -> HandlerType]
<1>1. CASE Pending(t)
  <2>1. token[t] \in [state : {"pending"} \cup Gone, email : WrittenEmail,
                      hasAccount : BOOLEAN, created : Nat]
    BY <1>1 DEF InviteTypeOK, TokenType, Pending
  <2>2. [token[t] EXCEPT !.state = fate] \in TokenType
    BY <2>1 DEF TokenType
  <2>3. token' = [token EXCEPT ![t] = [token[t] EXCEPT !.state = fate]]
    BY <1>1 DEF RemoveRow
  <2>4. token' \in [Token -> TokenType]
    BY <2>2, <2>3 DEF InviteTypeOK
  <2>5. Goes(r, next)
    BY <1>1 DEF RemoveRow
  <2> QED
    BY <1>1, <2>4, <2>5, TypeGoes
<1>2. CASE ~Pending(t)
  <2>1. token' = token /\ Goes(r, Resting)
    BY <1>2 DEF RemoveRow
  <2>2. Resting \in HandlerType
    BY DEF HandlerType
  <2> QED
    BY <2>1, <2>2, TypeGoes DEF InviteTypeOK
<1> QED
  BY <1>1, <1>2

(* A row that is pending, or gone, has all the fields of a row.            *)
LEMMA IssuedFields ==
    ASSUME InviteTypeOK, NEW t \in Token, Issued(t)
    PROVE  token[t].email \in WrittenEmail /\ token[t].hasAccount \in BOOLEAN
  BY DEF InviteTypeOK, TokenType, Issued

LEMMA InviteNextType ==
    ASSUME InviteTypeOK, OneHolder, [InviteNext]_inviteVars
    PROVE  InviteTypeOK'
<1> USE DEF InviteTypeOK
<1>1. ASSUME NEW r \in Handler, NEW mail \in WrittenEmail, NEW hasAccount \in BOOLEAN,
             Invite(r, mail, hasAccount)
      PROVE  InviteTypeOK'
  BY <1>1, TypeGoes DEF Invite, HandlerType
<1>2. ASSUME NEW r \in Handler, NEW mail \in WrittenEmail, Resend(r, mail)
      PROVE  InviteTypeOK'
  BY <1>2, TypeGoes DEF Resend, HandlerType
<1>3. ASSUME NEW r \in Handler, NEW mail \in WrittenEmail, Revoke(r, mail)
      PROVE  InviteTypeOK'
  <2>1. PICK t \in Token : Goes(r, [pc |-> "revokeRemove", token |-> t])
    BY <1>3 DEF Revoke, Newest, Matching
  <2>2. [pc |-> "revokeRemove", token |-> t] \in HandlerType
    BY DEF HandlerType
  <2> QED
    BY <1>3, <2>1, <2>2, TypeGoes DEF Revoke
<1>4. ASSUME NEW r \in Handler, NEW t \in Token, Accept(r, t)
      PROVE  InviteTypeOK'
  <2>1. [pc |-> "redeem", token |-> t] \in HandlerType
    BY DEF HandlerType
  <2> QED
    BY <1>4, <2>1, TypeGoes DEF Accept
<1>5. ASSUME NEW r \in Handler, NEW t \in Token, IssuePut(r, t)
      PROVE  InviteTypeOK'
  <2>1. handler[r].email \in WrittenEmail /\ handler[r].hasAccount \in BOOLEAN
    BY <1>5 DEF IssuePut, HandlerType
  <2>2. token' \in [Token -> TokenType]
    BY <1>5, <2>1, CreatedType DEF IssuePut, TokenType
  <2>3. Resting \in HandlerType
    BY DEF HandlerType
  <2> QED
    BY <1>5, <2>2, <2>3, TypeGoes DEF IssuePut
<1>6. ASSUME NEW r \in Handler, NEW u \in Invitee, PutInvited(r, u)
      PROVE  InviteTypeOK'
  <2> DEFINE t == handler[r].token
             next == [pc |-> IF token[t].hasAccount THEN "roles" ELSE "account",
                      token |-> t, user |-> u]
  <2>1. t \in Token
    BY <1>6 DEF PutInvited, HandlerType
  <2>2. token[t].email \in WrittenEmail
    BY <1>6, <2>1, IssuedFields DEF PutInvited, OneHolder, Redeeming, Issued
  <2>3. Sanitize(token[t].email) \in WrittenEmail
    BY <2>2, SanitizeType
  <2> HIDE DEF t
  <2>4. user' = [user EXCEPT ![u] =
                  [state |-> "exists", email |-> Sanitize(token[t].email), token |-> t]]
    BY <1>6 DEF PutInvited, t
  <2>5. user' \in [Invitee -> UserType]
    BY <2>1, <2>3, <2>4 DEF UserType
  <2>6. next \in HandlerType
    BY <2>1 DEF HandlerType
  <2>7. Goes(r, next)
    BY <1>6 DEF PutInvited, t
  <2>8. handler' \in [Handler -> HandlerType]
    BY <2>6, <2>7, TypeGoes
  <2> QED
    BY <1>6, <2>5, <2>8 DEF PutInvited
<1>7. ASSUME NEW r \in Handler, IssueRead(r)
      PROVE  InviteTypeOK'
  <2>1. handler[r].email \in WrittenEmail /\ handler[r].hasAccount \in BOOLEAN
    BY <1>7 DEF IssueRead, HandlerType
  <2>2. [handler[r] EXCEPT !.pc = "issuePut"] \in HandlerType
    BY <1>7 DEF IssueRead, HandlerType
  <2>3. Resting \in HandlerType
    BY DEF HandlerType
  <2> QED
    BY <1>7, <2>2, <2>3, TypeGoes DEF IssueRead
<1>8. ASSUME NEW r \in Handler, ReissueRead(r)
      PROVE  InviteTypeOK'
  <2>1. handler[r].email \in WrittenEmail
    BY <1>8 DEF ReissueRead, HandlerType
  <2>2. \A t \in Token :
           [pc |-> "reissueRemove", email |-> handler[r].email, token |-> t] \in HandlerType
    BY <2>1 DEF HandlerType
  <2>3. Resting \in HandlerType
    BY DEF HandlerType
  <2> QED
    BY <1>8, <2>2, <2>3, TypeGoes DEF ReissueRead, Newest, Matching
<1>9. ASSUME NEW r \in Handler, ReissueRemove(r)
      PROVE  InviteTypeOK'
  <2> DEFINE t == handler[r].token
             next == [pc |-> "issueRead", email |-> handler[r].email,
                      hasAccount |-> token[t].hasAccount]
  <2>1. t \in Token /\ handler[r].email \in WrittenEmail
    BY <1>9 DEF ReissueRemove, HandlerType
  <2>2. Pending(t) => token[t].hasAccount \in BOOLEAN
    BY <2>1, IssuedFields DEF Pending, Issued
  <2>3. Pending(t) => next \in HandlerType
    BY <2>1, <2>2 DEF HandlerType
  <2>4. RemoveRow(r, t, "reissued", next)
    BY <1>9 DEF ReissueRemove
  <2> HIDE DEF t, next
  <2> QED
    BY <1>9, <2>1, <2>3, <2>4, TypeRemove DEF ReissueRemove
<1>10. ASSUME NEW r \in Handler, RevokeRemove(r)
       PROVE  InviteTypeOK'
  <2>1. handler[r].token \in Token
    BY <1>10 DEF RevokeRemove, HandlerType
  <2>2. Resting \in HandlerType
    BY DEF HandlerType
  <2> QED
    BY <1>10, <2>1, <2>2, TypeRemove DEF RevokeRemove
<1>11. ASSUME NEW r \in Handler, Redeem(r)
       PROVE  InviteTypeOK'
  <2>1. handler[r].token \in Token
    BY <1>11 DEF Redeem, HandlerType
  <2>2. [pc |-> "check", token |-> handler[r].token] \in HandlerType
    BY <2>1 DEF HandlerType
  <2> QED
    BY <1>11, <2>1, <2>2, TypeRemove DEF Redeem
<1>12. ASSUME NEW r \in Handler, CheckAddress(r)
       PROVE  InviteTypeOK'
  <2>1. [handler[r] EXCEPT !.pc = "putUser"] \in HandlerType
    BY <1>12 DEF CheckAddress, HandlerType
  <2>2. Resting \in HandlerType
    BY DEF HandlerType
  <2> QED
    BY <1>12, <2>1, <2>2, TypeGoes DEF CheckAddress
<1>13. ASSUME NEW r \in Handler, CreateAccount(r)
       PROVE  InviteTypeOK'
  <2>1. handler[r].user \in Invitee /\ [handler[r] EXCEPT !.pc = "roles"] \in HandlerType
    BY <1>13 DEF CreateAccount, HandlerType
  <2> QED
    BY <1>13, <2>1, TypeGoes DEF CreateAccount
<1>14. ASSUME NEW r \in Handler, AddRoles(r)
       PROVE  InviteTypeOK'
  <2>1. handler[r].user \in Invitee /\ Resting \in HandlerType
    BY <1>14 DEF AddRoles, HandlerType
  <2> QED
    BY <1>14, <2>1, TypeGoes DEF AddRoles
<1>15. ASSUME NEW r \in Handler, Crash(r)
       PROVE  InviteTypeOK'
  <2>1. Resting \in HandlerType
    BY DEF HandlerType
  <2>2. crashes' \in 0..MaxCrashes
    BY <1>15, InviteAssumption DEF Crash
  <2> QED
    BY <1>15, <2>1, <2>2, TypeGoes DEF Crash
<1>16. ASSUME NEW t \in Token, Expire(t)
       PROVE  InviteTypeOK'
  BY <1>16 DEF Expire
<1>17. ASSUME NEW t \in Token, Purge(t)
       PROVE  InviteTypeOK'
  <2>1. token[t] \in [state : {"pending"} \cup Gone, email : WrittenEmail,
                      hasAccount : BOOLEAN, created : Nat]
    BY <1>17 DEF Purge, TokenType, Pending
  <2>2. [token[t] EXCEPT !.state = "purged"] \in TokenType
    BY <2>1 DEF TokenType
  <2> QED
    BY <1>17, <2>2 DEF Purge
<1>18. CASE UNCHANGED inviteVars
  BY <1>18 DEF inviteVars
<1> QED
  BY <1>1, <1>2, <1>3, <1>4, <1>5, <1>6, <1>7, <1>8, <1>9, <1>10, <1>11, <1>12,
     <1>13, <1>14, <1>15, <1>16, <1>17, <1>18 DEF InviteNext, HandlerStep

-----------------------------------------------------------------------------
(* The safety invariants.                                                  *)

InvitesSafe == OneHolder /\ UsersAreInvited /\ OneUserPerToken

(* A step that leaves both tables alone gives no request the right to      *)
(* create a user that it did not have.                                     *)
LEMMA SafeGoes ==
    ASSUME InviteTypeOK, InvitesSafe, UNCHANGED <<token, user>>, NEW r \in Handler, NEW state,
           Goes(r, state),
           state.pc \in {"check", "putUser"} =>
                Redeeming(r) /\ state.token = handler[r].token
    PROVE  InvitesSafe'
<1>1. /\ handler' \in [Handler -> {handler'[q] : q \in Handler}]
      /\ handler'[r] = state
      /\ \A q \in Handler \ {r} : handler'[q] = handler[q]
  BY DEF Goes, InviteTypeOK
<1>2. \A q \in Handler : Redeeming(q)' =>
          Redeeming(q) /\ handler'[q].token = handler[q].token
  BY <1>1 DEF Redeeming
<1>3. OneHolder'
  BY <1>2 DEF InvitesSafe, OneHolder, HasRow
<1> QED
  BY <1>3 DEF InvitesSafe, UsersAreInvited, OneUserPerToken, HasRow

(* A token that is unissued or pending has no user and no holder, so that  *)
(* changing its row disturbs neither.                                      *)
LEMMA SafeChange ==
    ASSUME InviteTypeOK, InvitesSafe, UNCHANGED user, NEW t \in Token,
           token[t].state # "redeemed",
           \A s \in Token \ {t} : token'[s] = token[s],
           NEW r \in Handler, NEW state, Goes(r, state),
           state.pc \in {"check", "putUser"} =>
                state.token = t /\ token'[t].state = "redeemed"
    PROVE  InvitesSafe'
<1>1. /\ handler'[r] = state
      /\ \A q \in Handler \ {r} : handler'[q] = handler[q]
  BY DEF Goes, InviteTypeOK
<1>2. \A q \in Handler : Redeeming(q) => handler[q].token \in Token \ {t}
  BY DEF InvitesSafe, OneHolder, Redeeming, InviteTypeOK, HandlerType
<1>3. \A u \in Invitee : HasRow(u) => user[u].token \in Token \ {t}
  BY DEF InvitesSafe, UsersAreInvited, HasRow, InviteTypeOK, UserType
<1>4. \A q \in Handler : Redeeming(q)' =>
          \/ q # r /\ Redeeming(q) /\ handler'[q].token = handler[q].token
          \/ q = r /\ handler'[q].token = t /\ token'[t].state = "redeemed"
  BY <1>1 DEF Redeeming
<1>5. OneHolder'
  <2>1. ASSUME NEW q \in Handler, Redeeming(q)'
        PROVE  /\ token'[handler'[q].token].state = "redeemed"
               /\ \A u \in Invitee : HasRow(u)' => user'[u].token # handler'[q].token
    <3>1. CASE q # r /\ Redeeming(q) /\ handler'[q].token = handler[q].token
      BY <1>2, <3>1 DEF InvitesSafe, OneHolder, HasRow
    <3>2. CASE q = r /\ handler'[q].token = t /\ token'[t].state = "redeemed"
      BY <1>3, <3>2 DEF HasRow
    <3> QED
      BY <1>4, <2>1, <3>1, <3>2
  <2>2. ASSUME NEW p \in Handler, NEW q \in Handler, Redeeming(p)', Redeeming(q)',
               handler'[p].token = handler'[q].token
        PROVE  p = q
    BY <1>2, <1>4, <2>2 DEF InvitesSafe, OneHolder
  <2> QED
    BY <2>1, <2>2 DEF OneHolder, Redeeming
<1> QED
  BY <1>3, <1>5 DEF InvitesSafe, UsersAreInvited, OneUserPerToken, HasRow

LEMMA SafeRemove ==
    ASSUME InviteTypeOK, InvitesSafe, UNCHANGED user, NEW r \in Handler, NEW t \in Token,
           NEW fate \in Gone, NEW next, RemoveRow(r, t, fate, next),
           next.pc \in {"check", "putUser"} => fate = "redeemed" /\ next.token = t
    PROVE  InvitesSafe'
<1>1. CASE Pending(t)
  <2>1. /\ token' = [token EXCEPT ![t].state = fate]
        /\ Goes(r, next)
    BY <1>1 DEF RemoveRow
  <2>2. token'[t].state = fate
    BY <1>1, <2>1 DEF InviteTypeOK, TokenType, Pending
  <2>3. \A s \in Token \ {t} : token'[s] = token[s]
    BY <2>1 DEF InviteTypeOK
  <2> QED
    BY <1>1, <2>1, <2>2, <2>3, SafeChange DEF Pending
<1>2. CASE ~Pending(t)
  <2>1. token' = token /\ Goes(r, Resting)
    BY <1>2 DEF RemoveRow
  <2> QED
    BY <2>1, SafeGoes
<1> QED
  BY <1>1, <1>2

LEMMA InviteNextSafe ==
    ASSUME InviteTypeOK, InvitesSafe, [InviteNext]_inviteVars
    PROVE  InvitesSafe'
<1>1. ASSUME NEW r \in Handler, NEW mail \in WrittenEmail, NEW hasAccount \in BOOLEAN,
             Invite(r, mail, hasAccount)
      PROVE  InvitesSafe'
  BY <1>1, SafeGoes DEF Invite
<1>2. ASSUME NEW r \in Handler, NEW mail \in WrittenEmail, Resend(r, mail)
      PROVE  InvitesSafe'
  BY <1>2, SafeGoes DEF Resend
<1>3. ASSUME NEW r \in Handler, NEW mail \in WrittenEmail, Revoke(r, mail)
      PROVE  InvitesSafe'
  BY <1>3, SafeGoes DEF Revoke
<1>4. ASSUME NEW r \in Handler, NEW t \in Token, Accept(r, t)
      PROVE  InvitesSafe'
  BY <1>4, SafeGoes DEF Accept
<1>5. ASSUME NEW r \in Handler, NEW t \in Token, IssuePut(r, t)
      PROVE  InvitesSafe'
  <2>1. token[t].state # "redeemed" /\ \A s \in Token \ {t} : token'[s] = token[s]
    BY <1>5 DEF IssuePut, Issued, InviteTypeOK
  <2> QED
    BY <1>5, <2>1, SafeChange DEF IssuePut
<1>6. ASSUME NEW r \in Handler, NEW u \in Invitee, PutInvited(r, u)
      PROVE  InvitesSafe'
  <2> DEFINE t == handler[r].token
  <2>1. t \in Token /\ Redeeming(r)
    BY <1>6 DEF PutInvited, InviteTypeOK, HandlerType, Redeeming
  <2>2. /\ ~Redeeming(r)'
        /\ \A q \in Handler \ {r} : handler'[q] = handler[q]
    BY <1>6 DEF PutInvited, Goes, InviteTypeOK, Redeeming
  <2>3. /\ user'[u].state = "exists"
        /\ user'[u].token = t
        /\ user'[u].email = Sanitize(token[t].email)
        /\ \A v \in Invitee \ {u} : user'[v] = user[v]
        /\ token' = token
    BY <1>6 DEF PutInvited, InviteTypeOK
  <2> HIDE DEF t
  <2>4. \A q \in Handler : Redeeming(q)' =>
            q # r /\ Redeeming(q) /\ handler'[q].token = handler[q].token
    BY <2>2 DEF Redeeming
  <2>5. \A q \in Handler : Redeeming(q)' => handler[q].token # t
    BY <2>1, <2>4 DEF InvitesSafe, OneHolder, t
  <2>6. OneHolder'
    BY <2>3, <2>4, <2>5 DEF InvitesSafe, OneHolder, HasRow
  <2>7. token[t].state = "redeemed" /\ \A v \in Invitee : HasRow(v) => user[v].token # t
    BY <2>1 DEF InvitesSafe, OneHolder, t
  <2>8. UsersAreInvited'
    BY <2>3, <2>7 DEF InvitesSafe, UsersAreInvited, HasRow
  <2>9. OneUserPerToken'
    BY <2>3, <2>7 DEF InvitesSafe, OneUserPerToken, HasRow
  <2> QED
    BY <2>6, <2>8, <2>9 DEF InvitesSafe
<1>7. ASSUME NEW r \in Handler, IssueRead(r)
      PROVE  InvitesSafe'
  <2>1. [handler[r] EXCEPT !.pc = "issuePut"].pc = "issuePut"
    BY <1>7 DEF IssueRead, InviteTypeOK, HandlerType
  <2> QED
    BY <1>7, <2>1, SafeGoes DEF IssueRead
<1>8. ASSUME NEW r \in Handler, ReissueRead(r)
      PROVE  InvitesSafe'
  BY <1>8, SafeGoes DEF ReissueRead
<1>9. ASSUME NEW r \in Handler, ReissueRemove(r)
      PROVE  InvitesSafe'
  <2>1. handler[r].token \in Token
    BY <1>9 DEF ReissueRemove, InviteTypeOK, HandlerType
  <2> QED
    BY <1>9, <2>1, SafeRemove DEF ReissueRemove
<1>10. ASSUME NEW r \in Handler, RevokeRemove(r)
       PROVE  InvitesSafe'
  <2>1. handler[r].token \in Token
    BY <1>10 DEF RevokeRemove, InviteTypeOK, HandlerType
  <2> QED
    BY <1>10, <2>1, SafeRemove DEF RevokeRemove
<1>11. ASSUME NEW r \in Handler, Redeem(r)
       PROVE  InvitesSafe'
  <2>1. handler[r].token \in Token
    BY <1>11 DEF Redeem, InviteTypeOK, HandlerType
  <2> QED
    BY <1>11, <2>1, SafeRemove DEF Redeem
<1>12. ASSUME NEW r \in Handler, CheckAddress(r)
       PROVE  InvitesSafe'
  <2>1. /\ Redeeming(r)
        /\ [handler[r] EXCEPT !.pc = "putUser"].token = handler[r].token
    BY <1>12 DEF CheckAddress, Redeeming, InviteTypeOK, HandlerType
  <2> QED
    BY <1>12, <2>1, SafeGoes DEF CheckAddress
<1>13. ASSUME NEW r \in Handler, CreateAccount(r)
       PROVE  InvitesSafe'
  <2>1. [handler[r] EXCEPT !.pc = "roles"].pc = "roles"
    BY <1>13 DEF CreateAccount, InviteTypeOK, HandlerType
  <2> QED
    BY <1>13, <2>1, SafeGoes DEF CreateAccount
<1>14. ASSUME NEW r \in Handler, AddRoles(r)
       PROVE  InvitesSafe'
  BY <1>14, SafeGoes DEF AddRoles
<1>15. ASSUME NEW r \in Handler, Crash(r)
       PROVE  InvitesSafe'
  BY <1>15, SafeGoes DEF Crash
<1>16. ASSUME NEW t \in Token, Expire(t)
       PROVE  InvitesSafe'
  BY <1>16 DEF Expire, InvitesSafe, OneHolder, Redeeming, UsersAreInvited, OneUserPerToken, HasRow
<1>17. ASSUME NEW t \in Token, Purge(t)
       PROVE  InvitesSafe'
  <2>1. token[t].state # "redeemed" /\ \A s \in Token \ {t} : token'[s] = token[s]
    BY <1>17 DEF Purge, Pending, InviteTypeOK
  <2>2. \A q \in Handler : Redeeming(q) => handler[q].token \in Token \ {t}
    BY <2>1 DEF InvitesSafe, OneHolder, Redeeming, InviteTypeOK, HandlerType
  <2>3. \A u \in Invitee : HasRow(u) => user[u].token \in Token \ {t}
    BY <2>1 DEF InvitesSafe, UsersAreInvited, HasRow, InviteTypeOK, UserType
  <2> QED
    BY <1>17, <2>1, <2>2, <2>3
       DEF Purge, InvitesSafe, OneHolder, Redeeming, UsersAreInvited, OneUserPerToken, HasRow
<1>18. CASE UNCHANGED inviteVars
  BY <1>18 DEF inviteVars, InvitesSafe, OneHolder, Redeeming, UsersAreInvited, OneUserPerToken, HasRow
<1> QED
  BY <1>1, <1>2, <1>3, <1>4, <1>5, <1>6, <1>7, <1>8, <1>9, <1>10, <1>11, <1>12,
     <1>13, <1>14, <1>15, <1>16, <1>17, <1>18 DEF InviteNext, HandlerStep

-----------------------------------------------------------------------------

LEMMA InviteInitSafe == InviteInit => InvitesSafe
  BY DEF InviteInit, InvitesSafe, OneHolder, Redeeming, UsersAreInvited, OneUserPerToken, HasRow

LEMMA InviteInductive == InviteSpec => [](InviteTypeOK /\ InvitesSafe)
<1>1. InviteInit => InviteTypeOK /\ InvitesSafe
  BY InviteInitType, InviteInitSafe
<1>2. InviteTypeOK /\ InvitesSafe /\ [InviteNext]_inviteVars => (InviteTypeOK /\ InvitesSafe)'
  BY InviteNextType, InviteNextSafe DEF InvitesSafe
<1> QED
  BY <1>1, <1>2, PTL DEF InviteSpec

(* The tables and the requests in flight keep their types.                 *)
THEOREM InviteTypeCorrect == InviteSpec => []InviteTypeOK
  BY InviteInductive, PTL

(* For any number of requests that accept, resend and revoke at the same   *)
(* time, a token makes at most one user.                                   *)
THEOREM SingleRedemption == InviteSpec => []OneUserPerToken
<1>1. InvitesSafe => OneUserPerToken
  BY DEF InvitesSafe
<1> QED
  BY <1>1, InviteInductive, PTL

(* Every user who joined by invitation holds a redeemed token for the      *)
(* address it was sent to.                                                 *)
THEOREM OnlyInvitedUsers == InviteSpec => []UsersAreInvited
<1>1. InvitesSafe => UsersAreInvited
  BY DEF InvitesSafe
<1> QED
  BY <1>1, InviteInductive, PTL

(* No step changes a token that is gone: revoked or replaced invitations   *)
(* stay so.                                                                *)
THEOREM FateTheorem == InviteSpec => FateIsFinal
<1>1. ASSUME InviteTypeOK, NEW t \in Token, token[t].state \in Gone, [InviteNext]_inviteVars
      PROVE  token'[t] = token[t]
  <2>1. ASSUME NEW r \in Handler, NEW s \in Token, NEW fate, NEW next,
               RemoveRow(r, s, fate, next)
        PROVE  token'[t] = token[t]
    BY <1>1, <2>1 DEF RemoveRow, Pending, InviteTypeOK
  <2>2. ASSUME NEW r \in Handler, HandlerStep(r)
        PROVE  token'[t] = token[t]
    <3>1. CASE \E s \in Token : IssuePut(r, s)
      BY <1>1, <3>1 DEF IssuePut, Issued, InviteTypeOK
    <3>2. CASE ReissueRemove(r)
      BY <1>1, <2>1, <3>2 DEF ReissueRemove, InviteTypeOK, HandlerType
    <3>3. CASE RevokeRemove(r)
      BY <1>1, <2>1, <3>3 DEF RevokeRemove, InviteTypeOK, HandlerType
    <3>4. CASE Redeem(r)
      BY <1>1, <2>1, <3>4 DEF Redeem, InviteTypeOK, HandlerType
    <3> QED
      BY <2>2, <3>1, <3>2, <3>3, <3>4
         DEF HandlerStep, Invite, Resend, Revoke, Accept, PutInvited, IssueRead,
             ReissueRead, CheckAddress, CreateAccount, AddRoles, Crash
  <2>3. ASSUME NEW s \in Token, Expire(s) \/ Purge(s)
        PROVE  token'[t] = token[t]
    BY <1>1, <2>3 DEF Expire, Purge, Pending, InviteTypeOK
  <2> QED
    BY <1>1, <2>2, <2>3 DEF InviteNext, inviteVars
<1>2. InviteTypeOK /\ [InviteNext]_inviteVars =>
          [\A t \in Token : token[t].state \in Gone => token'[t] = token[t]]_inviteVars
  BY <1>1
<1> QED
  BY <1>2, InviteInductive, PTL DEF InviteSpec, FateIsFinal
-----------------------------------------------------------------------------
(* Accepted invitations are completed.                                     *)

Completing(r) == handler[r].pc \in {"account", "roles"}

Owns(u) == token[user[u].token].hasAccount \/ u \in account

(* Until a request stops half-way, every user is finished or in the hands  *)
(* of a request, which has given it its account before it gives it roles.  *)
Complete ==
    crashes = 0 =>
        \A u \in Invitee : HasRow(u) =>
            \/ u \in role /\ Owns(u)
            \/ \E r \in Handler :
                /\ Completing(r)
                /\ handler[r].user = u
                /\ handler[r].pc = "roles" => Owns(u)

(* A step keeps it if it creates no user, lets go of no request that is    *)
(* completing one, and takes nothing back.                                 *)
LEMMA CompleteKept ==
    ASSUME Complete, UNCHANGED <<user, crashes>>,
           account \subseteq account', role \subseteq role',
           \A u \in Invitee : HasRow(u) =>
               token'[user[u].token].hasAccount = token[user[u].token].hasAccount,
           \A q \in Handler : Completing(q) => handler'[q] = handler[q]
    PROVE  Complete'
<1>1. \A u \in Invitee : HasRow(u) /\ Owns(u) => Owns(u)'
  BY DEF Owns
<1> SUFFICES ASSUME crashes = 0, NEW u \in Invitee, HasRow(u)
             PROVE  \/ u \in role' /\ Owns(u)'
                    \/ \E r \in Handler :
                        /\ handler'[r].pc \in {"account", "roles"}
                        /\ handler'[r].user = u
                        /\ handler'[r].pc = "roles" => Owns(u)'
  BY DEF Complete, HasRow, Completing
<1>2. CASE u \in role /\ Owns(u)
  BY <1>1, <1>2
<1>3. ASSUME NEW r \in Handler, Completing(r), handler[r].user = u,
             handler[r].pc = "roles" => Owns(u)
      PROVE  \E q \in Handler :
                 /\ handler'[q].pc \in {"account", "roles"}
                 /\ handler'[q].user = u
                 /\ handler'[q].pc = "roles" => Owns(u)'
  BY <1>1, <1>3 DEF Completing
<1> QED
  BY <1>2, <1>3 DEF Complete

(* A request that is not completing a user may become anything.            *)
LEMMA CompleteGoes ==
    ASSUME InviteTypeOK, Complete, UNCHANGED <<token, user, account, role, crashes>>,
           NEW r \in Handler, ~Completing(r), NEW state, Goes(r, state)
    PROVE  Complete'
<1>1. \A q \in Handler : Completing(q) => handler'[q] = handler[q]
  BY DEF Goes, InviteTypeOK
<1> QED
  BY <1>1, CompleteKept

(* Removing a row leaves what the token says of the account.               *)
LEMMA CompleteRemove ==
    ASSUME InviteTypeOK, InvitesSafe, Complete, UNCHANGED <<user, account, role, crashes>>,
           NEW r \in Handler, ~Completing(r), NEW t \in Token,
           NEW fate \in Gone, NEW next, RemoveRow(r, t, fate, next)
    PROVE  Complete'
<1>1. \A q \in Handler : Completing(q) => handler'[q] = handler[q]
  BY DEF RemoveRow, Goes, InviteTypeOK
<1>2. \A u \in Invitee : HasRow(u) => token'[user[u].token] = token[user[u].token]
  BY DEF RemoveRow, Pending, InviteTypeOK, InvitesSafe, UsersAreInvited
<1> QED
  BY <1>1, <1>2, CompleteKept

LEMMA NextComplete ==
    ASSUME InviteTypeOK, InvitesSafe, Complete, [InviteNext]_inviteVars
    PROVE  Complete'
<1>1. ASSUME NEW r \in Handler, NEW mail \in WrittenEmail, NEW hasAccount \in BOOLEAN,
             Invite(r, mail, hasAccount)
      PROVE  Complete'
  BY <1>1, CompleteGoes DEF Invite, Completing
<1>2. ASSUME NEW r \in Handler, NEW mail \in WrittenEmail, Resend(r, mail) \/ Revoke(r, mail)
      PROVE  Complete'
  BY <1>2, CompleteGoes DEF Resend, Revoke, Completing
<1>3. ASSUME NEW r \in Handler, NEW t \in Token, Accept(r, t)
      PROVE  Complete'
  BY <1>3, CompleteGoes DEF Accept, Completing
<1>4. ASSUME NEW r \in Handler, NEW t \in Token, IssuePut(r, t)
      PROVE  Complete'
  <2>1. \A u \in Invitee : HasRow(u) => token'[user[u].token] = token[user[u].token]
    BY <1>4 DEF IssuePut, Issued, InviteTypeOK, InvitesSafe, UsersAreInvited
  <2>2. \A q \in Handler : Completing(q) => handler'[q] = handler[q]
    BY <1>4 DEF IssuePut, Goes, InviteTypeOK, Completing
  <2> QED
    BY <1>4, <2>1, <2>2, CompleteKept DEF IssuePut
<1>5. ASSUME NEW r \in Handler, NEW u \in Invitee, PutInvited(r, u)
      PROVE  Complete'
  <2>1. /\ token' = token /\ account' = account /\ role' = role /\ crashes' = crashes
        /\ user'[u].token = handler[r].token
        /\ \A v \in Invitee \ {u} : user'[v] = user[v]
        /\ handler'[r].pc = IF token[handler[r].token].hasAccount THEN "roles" ELSE "account"
        /\ handler'[r].user = u
        /\ \A q \in Handler \ {r} : handler'[q] = handler[q]
        /\ ~Completing(r)
    BY <1>5 DEF PutInvited, Goes, InviteTypeOK, Completing
  <2> SUFFICES ASSUME crashes = 0, NEW v \in Invitee, HasRow(v)'
               PROVE  \/ v \in role' /\ Owns(v)'
                      \/ \E q \in Handler :
                          /\ handler'[q].pc \in {"account", "roles"}
                          /\ handler'[q].user = v
                          /\ handler'[q].pc = "roles" => Owns(v)'
    BY <2>1 DEF Complete, Completing
  <2>2. CASE v = u
    <3>1. handler'[r].pc = "roles" => Owns(u)'
      BY <2>1 DEF Owns
    <3> QED
      BY <2>1, <2>2, <3>1
  <2>3. CASE v # u
    <3>1. HasRow(v) /\ (Owns(v) <=> Owns(v)')
      BY <2>1, <2>3 DEF HasRow, Owns
    <3>2. CASE v \in role /\ Owns(v)
      BY <2>1, <3>1, <3>2
    <3>3. ASSUME NEW q \in Handler, Completing(q), handler[q].user = v,
                 handler[q].pc = "roles" => Owns(v)
          PROVE  /\ handler'[q].pc \in {"account", "roles"}
                 /\ handler'[q].user = v
                 /\ handler'[q].pc = "roles" => Owns(v)'
      BY <2>1, <3>1, <3>3 DEF Completing
    <3> QED
      BY <3>1, <3>2, <3>3 DEF Complete
  <2> QED
    BY <2>2, <2>3
<1>6. ASSUME NEW r \in Handler, IssueRead(r) \/ ReissueRead(r) \/ CheckAddress(r)
      PROVE  Complete'
  <2>1. ~Completing(r) /\ UNCHANGED <<token, user, account, role, crashes>>
    BY <1>6 DEF IssueRead, ReissueRead, CheckAddress, Completing
  <2>2. PICK state : Goes(r, state)
    BY <1>6 DEF IssueRead, ReissueRead, CheckAddress
  <2> QED
    BY <2>1, <2>2, CompleteGoes
<1>7. ASSUME NEW r \in Handler, ReissueRemove(r)
      PROVE  Complete'
  <2>1. handler[r].token \in Token /\ ~Completing(r)
    BY <1>7 DEF ReissueRemove, InviteTypeOK, HandlerType, Completing
  <2> QED
    BY <1>7, <2>1, CompleteRemove DEF ReissueRemove
<1>8. ASSUME NEW r \in Handler, RevokeRemove(r)
      PROVE  Complete'
  <2>1. handler[r].token \in Token /\ ~Completing(r)
    BY <1>8 DEF RevokeRemove, InviteTypeOK, HandlerType, Completing
  <2> QED
    BY <1>8, <2>1, CompleteRemove DEF RevokeRemove
<1>9. ASSUME NEW r \in Handler, Redeem(r)
      PROVE  Complete'
  <2>1. handler[r].token \in Token /\ ~Completing(r)
    BY <1>9 DEF Redeem, InviteTypeOK, HandlerType, Completing
  <2> QED
    BY <1>9, <2>1, CompleteRemove DEF Redeem
<1>10. ASSUME NEW r \in Handler, CreateAccount(r) \/ AddRoles(r)
       PROVE  Complete'
  <2> DEFINE u == handler[r].user
  <2>1. /\ token' = token /\ user' = user /\ crashes' = crashes
        /\ account \subseteq account' /\ role \subseteq role'
        /\ \A q \in Handler \ {r} : handler'[q] = handler[q]
    BY <1>10 DEF CreateAccount, AddRoles, Goes, InviteTypeOK
  <2>2. \A v \in Invitee : Owns(v) => Owns(v)'
    BY <2>1 DEF Owns
  <2>3. \/ CreateAccount(r) /\ u \in account' /\ handler'[r].pc = "roles" /\ handler'[r].user = u
        \/ handler[r].pc = "roles" /\ u \in role'
    BY <1>10 DEF CreateAccount, AddRoles, Goes, InviteTypeOK, HandlerType
  <2> HIDE DEF u
  <2> SUFFICES ASSUME crashes = 0, NEW v \in Invitee, HasRow(v)
               PROVE  \/ v \in role' /\ Owns(v)'
                      \/ \E q \in Handler :
                          /\ handler'[q].pc \in {"account", "roles"}
                          /\ handler'[q].user = v
                          /\ handler'[q].pc = "roles" => Owns(v)'
    BY <2>1 DEF Complete, Completing, HasRow
  <2>4. CASE v \in role /\ Owns(v)
    BY <2>1, <2>2, <2>4
  <2>5. ASSUME NEW q \in Handler, q # r, Completing(q), handler[q].user = v,
               handler[q].pc = "roles" => Owns(v)
        PROVE  /\ handler'[q].pc \in {"account", "roles"}
               /\ handler'[q].user = v
               /\ handler'[q].pc = "roles" => Owns(v)'
    BY <2>1, <2>2, <2>5 DEF Completing
  <2>6. CASE u = v /\ (handler[r].pc = "roles" => Owns(v))
    BY <2>2, <2>3, <2>6 DEF Owns
  <2> QED
    BY <2>4, <2>5, <2>6 DEF Complete, u
<1>11. ASSUME NEW r \in Handler, Crash(r)
       PROVE  Complete'
  BY <1>11, InviteAssumption DEF Crash, Complete, InviteTypeOK
<1>12. ASSUME NEW t \in Token, Expire(t)
       PROVE  Complete'
  BY <1>12, CompleteKept DEF Expire
<1>13. ASSUME NEW t \in Token, Purge(t)
       PROVE  Complete'
  <2>1. \A u \in Invitee : HasRow(u) => token'[user[u].token] = token[user[u].token]
    BY <1>13 DEF Purge, Pending, InviteTypeOK, InvitesSafe, UsersAreInvited
  <2> QED
    BY <1>13, <2>1, CompleteKept DEF Purge
<1>14. CASE UNCHANGED inviteVars
  BY <1>14, CompleteKept DEF inviteVars
<1> QED
  BY <1>1, <1>2, <1>3, <1>4, <1>5, <1>6, <1>7, <1>8, <1>9, <1>10, <1>11, <1>12,
     <1>13, <1>14 DEF InviteNext, HandlerStep

(* Whoever accepted an invitation ends with the roles and with an account, *)
(* unless a request stopped half-way: no other request can leave a user    *)
(* without them, whatever it does to the token meanwhile.                  *)
THEOREM CompletedTheorem == InviteSpec => []AcceptedCompletely
<1>1. InviteInit => Complete
  BY DEF InviteInit, Complete, HasRow
<1>2. InviteTypeOK /\ InvitesSafe /\ Complete /\ [InviteNext]_inviteVars => Complete'
  BY NextComplete
<1>3. Complete => AcceptedCompletely
  BY DEF Complete, AcceptedCompletely, Completing, Owns
<1> QED
  BY <1>1, <1>2, <1>3, InviteInductive, PTL DEF InviteSpec

=============================================================================
