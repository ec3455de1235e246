SPECIFICATION CachedSpec
CONSTANTS
    Location = {l1, l2}
    NoParent = NoParent
    Reader = {r1}
    Writer = {w1}
    CachePolicy = {"READ_WRITE"}
    MaxWrites = 2
SYMMETRY Symmetry
INVARIANTS
    RemovesOnlyLeaves
CHECK_DEADLOCK FALSE
