SPECIFICATION Spec
CONSTANTS
    Location = {l1, l2, l3}
    NoParent = NoParent
    Request = {r1, r2}
    MaxCrashes = 1
SYMMETRY Symmetry
CONSTRAINT StillPromised
INVARIANTS
    StoresAgree
    OnlyCyclesAreRefused
PROPERTIES
    ForestSpec
CHECK_DEADLOCK FALSE
