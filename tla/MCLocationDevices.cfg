SPECIFICATION Spec
CONSTANTS
    parent = parent
    child = child
    other = other
    clone1 = clone1
    clone2 = clone2
    d1 = d1
    d2 = d2
    Location = {parent, child, other, clone1, clone2}
    Device = {d1, d2}
    Mode = {"home", "away"}
    Initial = "home"
    Below <- BelowParent
    Home <- HomeOfDevices
    CloneId <- CloneOfRequest
    Direct = direct
    MaxRequests = 2
    MaxFailures = 1
INVARIANTS
    DoneIsUniform
    RecordFollowsCommand
    MergedIsEmptied
CHECK_DEADLOCK FALSE
