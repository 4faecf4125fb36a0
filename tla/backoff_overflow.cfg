CONSTANTS
    PollInterval = 1
    MaxLag = 0
    initial_delay = 1
    multiplier = 20
    max_delay = 3
    max_restarts = 5
    min_uptime = 6
    MaxDuration = 15
    CascadeBound = 0
SPECIFICATION Spec
INVARIANTS
    ReaperSurvives
