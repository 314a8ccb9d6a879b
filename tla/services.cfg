SPECIFICATION ServicesSpec
CONSTANTS
    Workers = {1, 2, 3, 4, 5}
    OutputBytes <- MCOutputBytes
    Windows <- MCWindows
    Setups <- MCSetups
    OperatorBytes = 31
    Rewards = {18, 20}
    FeeBps = 1000
    Dust = 2
    Floor = 2
    Unit = 12252240
    Hashes = {h1, h2}
    MaxBlocks = 3
    Miners = {1, 2, 3}
    WithAddress = {1, 2}
    Assigned <- MCAssigned
    Window = 5
    FirstBatch = 1
    Cap = 1
    MaxShares = 4
    Keys = {0, 1, 2, 3, 4}
    RingCap = 3
    Slots = 4
    Lines <- MCLines
    Servers <- MCServers
    NetDiffs = {4, 64}
    Requests = {2, 40}
    Achieved = {5, 34}
    Expected = 1
    MinSamples = 2
    WindowMult = 3
    StepCap = 2
    IdleStep = 2
    FloorSamples = 2
    FloorTrigger = 4
    MaxCounted = 3
    PpsThreads = {1, 2}
    PpsTemplates <- MCPpsTemplates
    PpsConfigs <- MCPpsConfigs
    MaxPpsShares = 2
INVARIANTS
    EveryJobRenders
    LargestIsPaid
    CoinbaseFits
    QueueBalances
    QueueRecordsCoinbase
    DuplicatesAreKnown
    FloorIsMeasured
    WorkIsPaid
    MeasureIsExact
PROPERTIES
    WindowOfOneMoment
    BoundsKept
SYMMETRY HashSymmetry
CHECK_DEADLOCK FALSE
