CONSTANTS
    t1 = t1
    t2 = t2
    Threads <- OneThread
    MaxId = 3
    MaxPid = 3
    Labels = {"a", "b", "c"}
    Configs <- DependencyConfigs
    Shard <- OwnShards
    NoProcess = NoProcess
    ExitStatuses = {"err"}
    SpawnMayFail = FALSE
    HasReaper = TRUE
    Ops = {"start", "stop"}
SPECIFICATION Spec
INVARIANTS
    
    DependenciesBound
    HandleMatchesState

    
CHECK_DEADLOCK FALSE
