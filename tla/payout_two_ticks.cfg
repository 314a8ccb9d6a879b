SPECIFICATION Spec
CONSTANTS
    w1 = w1
    w2 = w2
    Workers = {w1, w2}
    Address <- OwnAddresses
    Runners = {"loop", "admin"}
    Rails = {"btc"}
    OldNode = TRUE
    MinSats = 1
    MaxPerTick = 2
    Faults = {}
    MaxFaults = 0
    MaxAccrued = 2
    MaxTx = 4
INVARIANTS
    NeverOverpaid
