SPECIFICATION Spec
CONSTANTS
    b1 = b1
    b2 = b2
    Ours = {b1, b2}
    Foreign = Foreign
    None = None
    Modes = {"pplns", "coinbase"}
    Maturity = 2
    FinalDepth = 2
    MaxPerTick = 16
    RingCap = 2
    Keep = 2
    ServesGetBlockHash = FALSE
    RpcMayFail = FALSE
    DbMayFail = TRUE
    BuildMayFail = FALSE
    MaxReorg = 1
    MaxLag = 1
    MaxHeight = 3
    MaxCrashes = 1
SYMMETRY Symmetry
INVARIANTS PaidAtMostOnce RotatedAtMostOnce
