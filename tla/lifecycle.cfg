CONSTANTS
    t1 = t1
    t2 = t2
    Threads <- OneThread
    MaxId = 2
    MaxPid = 3
    Labels = {"a", "b"}
    Configs <- CircularConfigs
    Shard <- TwoShards
    NoProcess = NoProcess
    ExitStatuses = {"err"}
    SpawnMayFail = FALSE
    HasReaper = TRUE
    Ops = {"start", "start_with_deps", "drop"}
SPECIFICATION FairSpec
INVARIANTS
    
    DropStopsAll
    NoCircularWait
PROPERTIES
    ImplementsLifecycle
    CallsReturn
    ExitNoticed
    WaitingEnds
    DependentsFollow
CHECK_DEADLOCK FALSE
