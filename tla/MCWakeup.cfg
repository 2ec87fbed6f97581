SPECIFICATION MCSpec
CONSTANTS
    StaleAfter = 3
    HeartbeatSkew = 0
    DefaultHeartbeatSkew = 1
    maxWindowOccurrences = 2
    FailClosed = TRUE
    BurstConfigured = TRUE
    Enrollments = {1, 2}
    Schedules <- MCSchedules
    MaxTime = 6
    MaxChanges = 2
INVARIANTS
    TypeOK
    ProtectionCurrent
    SteadyUntilDue
    AnnouncedInTime
    StrongestProtection
    
CHECK_DEADLOCK FALSE
