SPECIFICATION Spec
CONSTANTS
    Mac = {m1}
    Id = {d1, d2, d3}
    Sim = {s1}
    NoSim = NoSim
    Request = {r1, r2, r3}
    MaxRequests = 5
    MaxFailures = 1
SYMMETRY Symmetry
INVARIANTS
    OneRecordPerMac
    PairedIsKnown
    LinksHaveDevice
    KeptUntilRemoved
CHECK_DEADLOCK FALSE
