SPECIFICATION MCSpec
CONSTANTS
    StaleAfter = 2
    HeartbeatSkew = 0
    DefaultHeartbeatSkew = 1
    maxWindowOccurrences = 2
    FailClosed = TRUE
    BurstConfigured = TRUE
    Enrollments = {1}
    Nodes = {n1}
    NoNode = noNode
    Schedules <- Plain
    Reports <- NoReports
    Holds = {1, 3}
    Drifts <- NoDrifts
    SlowPass = TRUE
    NodeCacheLag = TRUE
    MaxTime = 3
    MaxEvents = 3
    Kinds = {"create", "hold"}
PROPERTY
    OnlyExpiredHoldsRemoved
CHECK_DEADLOCK FALSE
