SPECIFICATION MCSpec
CONSTANTS
    StaleAfter = 2
    HeartbeatSkew = 0
    DefaultHeartbeatSkew = 1
    maxWindowOccurrences = 2
    FailClosed = TRUE
    BurstConfigured = TRUE
    Enrollments = {1, 2}
    Nodes = {n1}
    NoNode = noNode
    Schedules <- Plain
    Reports <- IdleOrGame
    Holds = {}
    Drifts <- SomeDrifts
    SlowPass = FALSE
    NodeCacheLag = TRUE
    MaxTime = 1
    MaxEvents = 4
    Kinds = {"create", "delete", "report", "fail", "restart", "drift", "kubelet"}
INVARIANTS
    ProtectionConverged
    StatusTruthful
PROPERTIES
    OrphansExplained
CHECK_DEADLOCK FALSE
