SPECIFICATION LocksSpec
CONSTANTS
    Workers = {w1, w2}
    RingCap = 3
    CommitMax = 2
    Attempts = 2
    DbMayFail = TRUE
    StatementMayFail = FALSE
    MaxShares = 2
    Peers = {"p", "q"}
    AuthSlots = 1
    AuthProbe = 1
    Clients = {c1, c2, c3}
    PeerOf <- MCPeerOf
    AuthMax = 2
    Lockout = 2
    CallMax = 1
    MaxNow = 2
INVARIANTS
    BeginNeverNested
    BudgetIsExact
PROPERTIES
    ImplementsLog
SYMMETRY ClientSymmetry
