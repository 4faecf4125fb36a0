CONSTANTS
    t1 = t1
    t2 = t2
    Threads <- OneThread
    MaxId = 2
    MaxPid = 2
    Labels = {"a", "b"}
    Configs <- ClientConfigs
    Shard <- TwoShards
    NoProcess = NoProcess
    ExitStatuses = {"err"}
    SpawnMayFail = FALSE
    HasReaper = TRUE
    Ops = {"start", "stop", "restart", "send_signal"}
SPECIFICATION Spec
INVARIANTS
    
    SpawnOrderStrict
    ExitReportedOnce
CHECK_DEADLOCK FALSE
