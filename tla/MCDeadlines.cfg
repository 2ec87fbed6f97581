SPECIFICATION MetricsSpec
CONSTANTS
    StaleAfter = 2
    HeartbeatSkew = 0
    DefaultHeartbeatSkew = 1
    maxWindowOccurrences = 2
    FailClosed = TRUE
    BurstConfigured = TRUE
    Enrollments = {1}
    Nodes = {n1}
    NoNode = noNode
    Schedules <- Windowed
    Reports <- SomeReports
    Holds = {2}
    Drifts <- NoDrifts
    SlowPass = FALSE
    NodeCacheLag = FALSE
    MaxTime = 3
    MaxEvents = 3
    Kinds = {"create", "report", "hold", "schedule", "delete", "kubelet", "fail", "restart"}
INVARIANTS
    FinalizerGuards
    ProtectionConverged
    StatusTruthful
    SeriesTruthful
CHECK_DEADLOCK FALSE
