SPECIFICATION Spec
CONSTANTS
    Token = {t1, t2}
    Method = {m1}
    Request = {r1, r2}
    Logout = {d1}
    Hour = 2
    MaxTime = 5
    MaxFailures = 1
SYMMETRY Symmetry
INVARIANTS
    Droppable
    LoggedOut
    HitIsRecent
CHECK_DEADLOCK FALSE
