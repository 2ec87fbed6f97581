SPECIFICATION MCFairSpec
CONSTANTS
    StaleAfter = 2
    HeartbeatSkew = 0
    DefaultHeartbeatSkew = 1
    maxWindowOccurrences = 2
    FailClosed = TRUE
    BurstConfigured = TRUE
    Enrollments = {1}
    Nodes = {n1}
    NoNode = noNode
    Schedules <- Plain
    Reports <- JustIdle
    Holds = {1}
    Drifts <- NoDrifts
    SlowPass = FALSE
    NodeCacheLag = TRUE
    MaxTime = 3
    MaxEvents = 3
    Kinds = {"create", "delete", "report", "hold", "node", "fail", "restart"}
PROPERTIES
    Settles
    StaleFailsClosed
CHECK_DEADLOCK FALSE
