---------------------------- MODULE InviteTokens ----------------------------
(***************************************************************************)
(* Invitations to join an account: an administrator invites an email       *)
(* address, resends or revokes the invitation, and the invited person      *)
(* accepts it with the token from the email, which creates the user.       *)
(*                                                                         *)
(* Source: UserInviteService in src/src/core/user/UserRegistrationService  *)
(* .ts, the invitation handlers of src/src/core/account/AccountService.ts, *)
(* and the tables they use.  Requests run concurrently; each call of a     *)
(* table is a step of its own, and a request may stop between two steps.   *)
(* A token is a signed JWT: it can be presented whether or not its row is  *)
(* still there.                                                            *)
(***************************************************************************)
EXTENDS Naturals, FiniteSets

CONSTANTS
    Address,      \* mailboxes, as sanitizeEmail identifies them
    Spelling,     \* ways to write an address that pass the Email codec
    Sanitized,    \* the spelling in lower case, trimmed
    Token,        \* token ids (uuids)
    Invitee,      \* user ids (uuids)
    Handler,      \* requests that may run at the same time
    MaxCrashes    \* bound: requests that stop half-way

ASSUME InviteAssumption ==
    /\ Sanitized \in Spelling
    /\ IsFiniteSet(Token)
    /\ MaxCrashes \in Nat

WrittenEmail == Address \X Spelling

(* email.toLowerCase().trim() *)
Sanitize(email) == <<email[1], Sanitized>>

VARIABLES
    token,     \* [Token -> token]: the row and what became of it
    expired,   \* tokens whose exp has passed
    user,      \* [User -> user]: rows of the User table
    account,   \* users for whom an account record was created
    role,      \* users with their roles on the account and its locations
    handler,   \* progress of each request
    crashes    \* requests that stopped half-way

inviteVars == <<token, expired, user, account, role, handler, crashes>>

Unissued == [state |-> "unissued"]
NoUser   == [state |-> "none"]
Resting  == [pc |-> "idle"]

Gone == {"redeemed", "revoked", "reissued", "purged"}
Pending(t) == token[t].state = "pending"
Issued(t) == token[t].state # "unissued"
HasRow(u) == user[u].state = "exists"

InviteInit ==
    /\ token = [t \in Token |-> Unissued]
    /\ expired = {}
    /\ user = [u \in Invitee |-> NoUser]
    /\ account = {}
    /\ role = {}
    /\ handler = [r \in Handler |-> Resting]
    /\ crashes = 0

Goes(r, state) == handler' = [handler EXCEPT ![r] = state]

-----------------------------------------------------------------------------
(* Reads.                                                                  *)

(* UserRegistrationTokenMetadataTable.getByEmail: the index is queried for *)
(* the sanitized email, newest row first.                                  *)
Matching(email) == {t \in Token : Pending(t) /\ token[t].email = Sanitize(email)}
Newest(email) ==
    {t \in Matching(email) : \A s \in Matching(email) : token[s].created <= token[t].created}

(* UserTable.getByEmail; users are stored with the sanitized email.        *)
UserWith(email) == {u \in Invitee : HasRow(u) /\ user[u].email = Sanitize(email)}

-----------------------------------------------------------------------------
(* inviteUserToJoinAccount, and issueToken which resendInvitation shares.  *)

Invite(r, email, hasAccount) ==
    /\ handler[r].pc = "idle"
    /\ UserWith(email) = {}
    /\ Goes(r, [pc |-> "issueRead", email |-> email, hasAccount |-> hasAccount])
    /\ UNCHANGED <<token, expired, user, account, role, crashes>>

IssueRead(r) ==
    /\ handler[r].pc = "issueRead"
    /\ Goes(r, IF Newest(handler[r].email) = {}
               THEN [handler[r] EXCEPT !.pc = "issuePut"]
               ELSE Resting)     \* 'Email already has pending registration.'
    /\ UNCHANGED <<token, expired, user, account, role, crashes>>

(* The row keeps the email as it was written.                              *)
IssuePut(r, t) ==
    /\ handler[r].pc = "issuePut"
    /\ ~Issued(t)
    /\ token' = [token EXCEPT ![t] =
            [state |-> "pending",
             email |-> handler[r].email,
             hasAccount |-> handler[r].hasAccount,
             created |-> Cardinality({s \in Token : Issued(s)})]]
    /\ Goes(r, Resting)
    /\ UNCHANGED <<expired, user, account, role, crashes>>

-----------------------------------------------------------------------------
(* Mutants: removing a missing row is no error, or marks it again.         *)
RemoveRowQuietly(r, t, fate, next) ==
    /\ token' = IF Pending(t) THEN [token EXCEPT ![t].state = fate] ELSE token
    /\ Goes(r, next)

RemoveRowAgain(r, t, fate, next) ==
    /\ token' = [token EXCEPT ![t].state = fate]
    /\ Goes(r, next)

(* Removing a row: remove throws if there was no row to delete, so of two  *)
(* requests that remove the same row exactly one goes on.                  *)
RemoveRow(r, t, fate, next) ==
    /\ token' = IF Pending(t) THEN [token EXCEPT ![t].state = fate] ELSE token
    /\ Goes(r, IF Pending(t) THEN next ELSE Resting)

(* resendInvitation, reissueToken.                                         *)
Resend(r, email) ==
    /\ handler[r].pc = "idle"
    /\ UserWith(email) = {}
    /\ Goes(r, [pc |-> "reissueRead", email |-> email])
    /\ UNCHANGED <<token, expired, user, account, role, crashes>>

ReissueRead(r) ==
    /\ handler[r].pc = "reissueRead"
    /\ IF Newest(handler[r].email) = {}
       THEN Goes(r, Resting)     \* 'Invitation not found.'
       ELSE \E t \in Newest(handler[r].email) :
                Goes(r, [pc |-> "reissueRemove", email |-> handler[r].email, token |-> t])
    /\ UNCHANGED <<token, expired, user, account, role, crashes>>

ReissueRemove(r) ==
    /\ handler[r].pc = "reissueRemove"
    /\ LET t == handler[r].token
       IN  RemoveRow(r, t, "reissued",
                [pc |-> "issueRead", email |-> handler[r].email,
                 hasAccount |-> token[t].hasAccount])
    /\ UNCHANGED <<expired, user, account, role, crashes>>

(* revokeInvitation: nothing to do if no row is found.                     *)
Revoke(r, email) ==
    /\ handler[r].pc = "idle"
    /\ \E t \in Newest(email) : Goes(r, [pc |-> "revokeRemove", token |-> t])
    /\ UNCHANGED <<token, expired, user, account, role, crashes>>

RevokeRemove(r) ==
    /\ handler[r].pc = "revokeRemove"
    /\ RemoveRow(r, handler[r].token, "revoked", Resting)
    /\ UNCHANGED <<expired, user, account, role, crashes>>

-----------------------------------------------------------------------------
(* acceptInvitation.                                                       *)

(* verifyToken: signature and expiry, not the row.                         *)
Accept(r, t) ==
    /\ handler[r].pc = "idle"
    /\ Issued(t)
    /\ t \notin expired
    /\ Goes(r, [pc |-> "redeem", token |-> t])
    /\ UNCHANGED <<token, expired, user, account, role, crashes>>

Redeem(r) ==
    /\ handler[r].pc = "redeem"
    /\ RemoveRow(r, handler[r].token, "redeemed", [pc |-> "check", token |-> handler[r].token])
    /\ UNCHANGED <<expired, user, account, role, crashes>>

(* createUser, UserTable.put: the check ...                                *)
CheckAddress(r) ==
    /\ handler[r].pc = "check"
    /\ Goes(r, IF UserWith(token[handler[r].token].email) = {}
               THEN [handler[r] EXCEPT !.pc = "putUser"]
               ELSE Resting)     \* 'Email already in use.'
    /\ UNCHANGED <<token, expired, user, account, role, crashes>>

(* Mutant: every invitation is taken to name an account.                   *)
PutInvitedOfAccount(r, u) ==
    /\ handler[r].pc = "putUser"
    /\ ~HasRow(u)
    /\ LET t == handler[r].token
       IN  /\ user' = [user EXCEPT ![u] =
                [state |-> "exists", email |-> Sanitize(token[t].email), token |-> t]]
           /\ Goes(r, [pc |-> "roles", token |-> t, user |-> u])
    /\ UNCHANGED <<token, expired, account, role, crashes>>

(* ... and the put.                                                        *)
PutInvited(r, u) ==
    /\ handler[r].pc = "putUser"
    /\ ~HasRow(u)
    /\ LET t == handler[r].token
       IN  /\ user' = [user EXCEPT ![u] =
                [state |-> "exists", email |-> Sanitize(token[t].email), token |-> t]]
           /\ Goes(r, [pc |-> IF token[t].hasAccount THEN "roles" ELSE "account",
                       token |-> t, user |-> u])
    /\ UNCHANGED <<token, expired, account, role, crashes>>

(* An invitation without an account makes the user the owner of a new one. *)
CreateAccount(r) ==
    /\ handler[r].pc = "account"
    /\ account' = account \cup {handler[r].user}
    /\ Goes(r, [handler[r] EXCEPT !.pc = "roles"])
    /\ UNCHANGED <<token, expired, user, role, crashes>>

AddRoles(r) ==
    /\ handler[r].pc = "roles"
    /\ role' = role \cup {handler[r].user}
    /\ Goes(r, Resting)
    /\ UNCHANGED <<token, expired, user, account, crashes>>

-----------------------------------------------------------------------------
(* The process stops, or a call fails, before the request is done.         *)
Crash(r) ==
    /\ handler[r].pc # "idle"
    /\ crashes < MaxCrashes
    /\ crashes' = crashes + 1
    /\ Goes(r, Resting)
    /\ UNCHANGED <<token, expired, user, account, role>>

(* Seven days after it was issued a token expires; thirty days after,      *)
(* DynamoDB deletes its row.                                               *)
Expire(t) ==
    /\ Issued(t)
    /\ t \notin expired
    /\ expired' = expired \cup {t}
    /\ UNCHANGED <<token, user, account, role, handler, crashes>>

Purge(t) ==
    /\ Pending(t)
    /\ t \in expired
    /\ token' = [token EXCEPT ![t].state = "purged"]
    /\ UNCHANGED <<expired, user, account, role, handler, crashes>>

HandlerStep(r) ==
    \/ \E email \in WrittenEmail :
        \/ \E hasAccount \in BOOLEAN : Invite(r, email, hasAccount)
        \/ Resend(r, email)
        \/ Revoke(r, email)
    \/ \E t \in Token : Accept(r, t) \/ IssuePut(r, t)
    \/ \E u \in Invitee : PutInvited(r, u)
    \/ IssueRead(r) \/ ReissueRead(r) \/ ReissueRemove(r) \/ RevokeRemove(r)
    \/ Redeem(r) \/ CheckAddress(r) \/ CreateAccount(r) \/ AddRoles(r)
    \/ Crash(r)

InviteNext ==
    \/ \E r \in Handler : HandlerStep(r)
    \/ \E t \in Token : Expire(t) \/ Purge(t)

InviteSpec == InviteInit /\ [][InviteNext]_inviteVars

-----------------------------------------------------------------------------
TokenType ==
    {Unissued} \cup
    [state : {"pending"} \cup Gone, email : WrittenEmail, hasAccount : BOOLEAN, created : Nat]

UserType == {NoUser} \cup [state : {"exists"}, email : WrittenEmail, token : Token]

HandlerType ==
    {Resting}
    \cup [pc : {"issueRead", "issuePut"}, email : WrittenEmail, hasAccount : BOOLEAN]
    \cup [pc : {"reissueRead"}, email : WrittenEmail]
    \cup [pc : {"reissueRemove"}, email : WrittenEmail, token : Token]
    \cup [pc : {"revokeRemove", "redeem", "check", "putUser"}, token : Token]
    \cup [pc : {"account", "roles"}, token : Token, user : Invitee]

(* Types of the tables and of the requests in flight.                      *)
InviteTypeOK ==
    /\ token \in [Token -> TokenType]
    /\ expired \subseteq Token
    /\ user \in [Invitee -> UserType]
    /\ account \subseteq Invitee
    /\ role \subseteq Invitee
    /\ handler \in [Handler -> HandlerType]
    /\ crashes \in 0..MaxCrashes

(* A token makes at most one user, however many requests present it at the *)
(* same time and whatever is resent, revoked or retried meanwhile.         *)
OneUserPerToken ==
    \A u, v \in Invitee :
        HasRow(u) /\ HasRow(v) /\ user[u].token = user[v].token => u = v

(* A user that came from an invitation came from a token that was redeemed *)
(* (not revoked or replaced by a newer one), for the invited address.      *)
UsersAreInvited ==
    \A u \in Invitee : HasRow(u) =>
        /\ token[user[u].token].state = "redeemed"
        /\ user[u].email = Sanitize(token[user[u].token].email)

(* What became of a token is final: a revoked or replaced invitation is    *)
(* never redeemed later, a redeemed one never counts as revoked.           *)
FateIsFinal ==
    [][\A t \in Token : token[t].state \in Gone => token'[t] = token[t]]_inviteVars

(* Unless a request stopped half-way, a user who accepted has the roles    *)
(* and, if the invitation named no account, owns a new account, or the     *)
(* request is still at work.                                               *)
AcceptedCompletely ==
    crashes = 0 =>
        \A u \in Invitee : HasRow(u) =>
            \/ /\ u \in role
               /\ token[user[u].token].hasAccount \/ u \in account
            \/ \E r \in Handler :
                handler[r].pc \in {"account", "roles"} /\ handler[r].user = u

=============================================================================
