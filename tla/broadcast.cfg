CONSTANTS
    t1 = t1
    t2 = t2
    Threads <- OneThread
    MaxId = 2
    MaxPid = 3
    Labels = {"a", "b"}
    Configs <- UnresolvedConfigs
    Shard <- TwoShards
    NoProcess = NoProcess
    ExitStatuses = {"err"}
    SpawnMayFail = FALSE
    HasReaper = TRUE
    Ops = {"start", "send_signal"}
SPECIFICATION FairSpec
PROPERTIES
    SignalIsTargeted
