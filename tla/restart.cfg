CONSTANTS
    t1 = t1
    t2 = t2
    Threads <- OneThread
    MaxId = 2
    MaxPid = 3
    Labels = {"a"}
    Configs <- RestartConfigs
    Shard <- TwoShards
    NoProcess = NoProcess
    ExitStatuses = {"ok", "err"}
    SpawnMayFail = FALSE
    HasReaper = TRUE
    Ops = {"start", "stop_many", "state", "close"}
SPECIFICATION Spec
INVARIANTS
    TypeOK
    HandleMatchesState
    NoOrphan
    ExitReportedOnce
    RestartsBounded
    FailedIsFinal

    
CHECK_DEADLOCK FALSE
