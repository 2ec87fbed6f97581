SPECIFICATION MCSpec
CONSTANTS
    StaleAfter = 2
    HeartbeatSkew = 0
    DefaultHeartbeatSkew = 1
    maxWindowOccurrences = 2
    FailClosed = TRUE
    BurstConfigured = TRUE
    Specs <- MCSpecs
    MaxTime = 11
    DefaultBudget <- MCBudget
    minAcceptanceGap = 1
    Minute = 4
    Ahead = 3
    Margin = 2
    MaxPods = 2
    MaxMishaps = 1
    Later = 50
INVARIANTS
    OpenMatchesCalendar
    SleepsToBoundary
    VerdictSound
    VerdictComplete
CHECK_DEADLOCK FALSE
