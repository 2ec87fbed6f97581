SPECIFICATION MCSpec
CONSTANTS
    Configs <- MCConfigs
    Hosts <- MCHosts
    MaxTime = 3
    MaxRestarts = 1
    MaxStreak = 2
    MaxGeneration = 3
    MaxTimeouts = 1
INVARIANTS
    TypeOK
    StatusFollows
    UncertaintyReported
    IdleIsEvidence
PROPERTIES
    DebounceExact
    HeartbeatKept
CHECK_DEADLOCK FALSE
