SPECIFICATION MCSpec
CONSTANTS
    StaleAfter = 2
    HeartbeatSkew = 0
    DefaultHeartbeatSkew = 1
    maxWindowOccurrences = 2
    FailClosed = TRUE
    BurstConfigured = TRUE
    Enrollments = {1}
    Nodes = {n1}
    NoNode = noNode
    Schedules <- Plain
    Reports <- NoReports
    Holds = {}
    Drifts <- NoDrifts
    SlowPass = TRUE
    NodeCacheLag = TRUE
    MaxTime = 1
    MaxEvents = 2
    Kinds = {"create", "delete"}
INVARIANT
    FinalizerGuards
CHECK_DEADLOCK FALSE
