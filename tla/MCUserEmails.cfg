SPECIFICATION Spec
CONSTANTS
    u1 = u1
    u2 = u2
    e1 = e1
    e2 = e2
    User = {u1, u2}
    Email = {e1, e2}
    NoEmail = none
    Registered <- OneRegistered
    Change = {c1}
    Request = {r1, r2}
    MaxRequests = 4
    MaxFailures = 1
INVARIANTS
    UniqueEmail
    CacheCoherent
PROPERTIES
    ChangeIsAgreed
    ConfirmedIsApplied
CHECK_DEADLOCK FALSE
