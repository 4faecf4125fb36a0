CONSTANTS
    t1 = t1
    t2 = t2
    Threads <- OneThread
    MaxId = 3
    MaxPid = 4
    Labels = {"a", "b"}
    Configs <- GroupConfigs
    Shard <- TwoShards
    NoProcess = NoProcess
    ExitStatuses = {"err"}
    SpawnMayFail = FALSE
    HasReaper = TRUE
    Ops = {"start"}
SPECIFICATION FairSpec
INVARIANTS
    
    ExitReportedOnce
PROPERTIES
    ImplementsLifecycle
    CascadeStaysInGroup
    CascadeEnds
