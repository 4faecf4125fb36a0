CONSTANTS
    t1 = t1
    t2 = t2
    Threads <- TwoThreads
    MaxId = 2
    MaxPid = 3
    Labels = {"a", "b"}
    Configs <- ConcurrentConfigs
    Shard <- TwoShards
    NoProcess = NoProcess
    ExitStatuses = {"err"}
    SpawnMayFail = FALSE
    HasReaper = FALSE
    Ops = {"start", "stop", "stop_many", "restart"}
SPECIFICATION Spec
SYMMETRY Symmetric
INVARIANTS
    NoOrphan
    OneRecord
    SpawnOrderStrict
CHECK_DEADLOCK FALSE
