SPECIFICATION MCSpec
CONSTANTS
    Nodes = {n1, n2}
    NoNode = noNode
    Names = {p1, p2}
    RetryBackoff = 1
    retryJitter <- MCJitter
    Hints = {2}
    PerNode <- MCBudget
    Global <- MCBudget
    MaxTime = 3
    MaxEvents = 2
SYMMETRY Symmetric
INVARIANTS
    TypeOK
    OneEntryPerPod
    
    
PROPERTIES
    OnlyJudgedPods
    RetryHonoured
CHECK_DEADLOCK FALSE
