SPECIFICATION FairSpec
CONSTANTS
    b1 = b1
    b2 = b2
    Ours = {b1, b2}
    Foreign = Foreign
    None = None
    Modes = {"pplns"}
    Maturity = 2
    FinalDepth = 2
    MaxPerTick = 16
    RingCap = 4
    Keep = 30
    ServesGetBlockHash = TRUE
    RpcMayFail = FALSE
    DbMayFail = FALSE
    BuildMayFail = FALSE
    MaxReorg = 1
    MaxLag = 1
    MaxHeight = 4
    MaxCrashes = 0
INVARIANTS ConfirmedRowsFresh
PROPERTIES MatureBlockIsPaid
