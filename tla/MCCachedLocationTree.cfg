SPECIFICATION CachedSpec
CONSTANTS
    Location = {l1, l2, l3}
    NoParent = NoParent
    Reader = {r1}
    Writer = {w1, w2}
    CachePolicy = {"READ_WRITE", "READ_ONLY", "OFF"}
    MaxWrites = 2
SYMMETRY Symmetry
INVARIANTS
    Coherent
CHECK_DEADLOCK FALSE
