SPECIFICATION MetricsSpec
CONSTANTS
    StaleAfter = 2
    HeartbeatSkew = 0
    DefaultHeartbeatSkew = 1
    maxWindowOccurrences = 2
    FailClosed = TRUE
    BurstConfigured = TRUE
    Enrollments = {1}
    Nodes = {n1}
    NoNode = noNode
    Schedules <- Plain
    Reports <- IdleOrGame
    Holds = {}
    Drifts <- SomeDrifts
    SlowPass = FALSE
    NodeCacheLag = TRUE
    MaxTime = 2
    MaxEvents = 4
    Kinds = {"create", "blank", "delete", "report", "drift", "kubelet", "node", "fail", "restart"}
INVARIANTS
    TypeOK
    ProtectionConverged
    StatusTruthful
    DeletionCompletes
    SeriesTruthful
CHECK_DEADLOCK FALSE
