SPECIFICATION MCSpec
CONSTANTS
    Nodes = {n1, n2}
    PerNode <- MCPerNode
    Global <- MCGlobal
    MaxTime = 8
SYMMETRY NodeSymmetry
INVARIANTS
    TypeOK
    RateBound
PROPERTIES
    RetryWhenAvailable
    ImplementsLimiter
CHECK_DEADLOCK FALSE
