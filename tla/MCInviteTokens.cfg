SPECIFICATION InviteSpec
CONSTANTS
    Address = {a1}
    Spelling = {"lower"}
    Sanitized = "lower"
    Token = {t1, t2, t3}
    Invitee = {u1, u2}
    Handler = {r1, r2}
    MaxCrashes = 1
SYMMETRY Symmetry
INVARIANTS
    OneUserPerToken
    UsersAreInvited
    AcceptedCompletely
PROPERTIES
    FateIsFinal
CHECK_DEADLOCK FALSE
