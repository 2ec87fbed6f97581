SPECIFICATION MCFairSpec
CONSTANTS
    StaleAfter = 2
    HeartbeatSkew = 0
    DefaultHeartbeatSkew = 1
    maxWindowOccurrences = 2
    FailClosed = TRUE
    BurstConfigured = TRUE
    Enrollments = {1}
    Nodes = {n1}
    NoNode = noNode
    Schedules <- Plain
    Reports <- IdleOrGame
    Holds <- InvalidHold
    Drifts <- NoDrifts
    SlowPass = FALSE
    NodeCacheLag = TRUE
    MaxTime = 3
    MaxEvents = 3
    Kinds = {"create", "report", "hold"}
PROPERTY
    StaleFailsClosed
CHECK_DEADLOCK FALSE
