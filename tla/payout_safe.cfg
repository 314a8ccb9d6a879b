SPECIFICATION Spec
CONSTANTS
    w1 = w1
    w2 = w2
    Workers = {w1, w2}
    Address <- OwnAddresses
    Runners = {"loop"}
    Rails = {"thunder", "btc"}
    OldNode = TRUE
    MinSats = 1
    MaxPerTick = 2
    Faults = {"crash", "rpc", "db", "evict", "miss"}
    MaxFaults = 2
    MaxAccrued = 2
    MaxTx = 5
INVARIANTS
    PaidIsReceived
    NeverOverpaid
    NoUntrackedTransfer
