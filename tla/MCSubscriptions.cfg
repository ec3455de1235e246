SPECIFICATION Spec
CONSTANTS
    Location = {l1}
    Id = {i1, i2}
    Sub = {s1, s2}
    Unknown = Unknown
    Process = {p1, p2}
    Ordered = TRUE
    MaxEvents = 2
    MaxRequests = 3
    MaxChanges = 1
    MaxFailures = 1
SYMMETRY Symmetry
INVARIANTS
    OneCreationAtATime
    OneRecordPerLocation
    PaidIsRecorded
    RecordMirrorsStripe
    RemovedIsCanceled
CHECK_DEADLOCK FALSE
