SPECIFICATION Spec
CONSTANTS
    Location = {l1, l2, l3, l4}
INVARIANTS
    Closure
    Acyclic
    DepthIsDistance
PROPERTIES
    MovedExactly
