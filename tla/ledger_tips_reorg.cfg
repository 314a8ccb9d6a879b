SPECIFICATION Spec
CONSTANTS
    b1 = b1
    b2 = b2
    Ours = {b1}
    Foreign = Foreign
    None = None
    Modes = {"pplns"}
    Maturity = 3
    FinalDepth = 3
    MaxPerTick = 16
    RingCap = 4
    Keep = 30
    ServesGetBlockHash = FALSE
    RpcMayFail = FALSE
    DbMayFail = FALSE
    BuildMayFail = FALSE
    MaxReorg = 1
    MaxLag = 1
    MaxHeight = 5
    MaxCrashes = 0
INVARIANTS PaidBlockInChain
