SPECIFICATION Spec
CONSTANTS
    Location = {l1}
    Id = {i1}
    Sub = {s1, s2}
    Unknown = Unknown
    Process = {p1}
    Ordered = TRUE
    MaxEvents = 2
    MaxRequests = 2
    MaxChanges = 0
    MaxFailures = 0
SYMMETRY Symmetry
INVARIANTS
    BilledOnce
CHECK_DEADLOCK FALSE
