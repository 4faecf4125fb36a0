CONSTANTS
    PollInterval = 1
    MaxLag = 2
    initial_delay = 1
    multiplier = 25
    max_delay = 3
    max_restarts = 2
    min_uptime = 8
    MaxDuration = 7
    CascadeBound = 1
SPECIFICATION Spec
INVARIANTS
    TypeOK
    ReaperSurvives
    BackoffEnds
    UptimeCounts
PROPERTIES
    
    UptimeEarned
    CrashLoopEnds
