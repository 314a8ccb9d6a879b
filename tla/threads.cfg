SPECIFICATION ThreadsSpec
CONSTANTS
    Workers = {w1, w2}
    RingCap = 3
    CommitMax = 2
    Attempts = 2
    DbMayFail = TRUE
    StatementMayFail = TRUE
    MaxShares = 1
    Producers = {1, 2}
    RingSize = 3
    MaxEvents = 2
    NodeTips <- MCNodeTips
    LongPolls = {TRUE, FALSE}
    MaxMoves = 3
    MaxFailures = 3
    Names = {"m1", "m2", "m3"}
    CacheSlots = 2
    NameHash <- MCNameHash
    Batches <- MCBatches
    MaxBatches = 3
    Tries = 2
    Ports <- MCPorts
    MaxFd = 4
INVARIANTS
    FlushDrains
    EventsAreKept
    ShareToItsWorker
    OrderlyEnd
    MinedTipIsReconciled
PROPERTIES
    CloseDrains
    WorkerLeaves
    CleanWhenMoved
    JobFollowsTip
CHECK_DEADLOCK FALSE
