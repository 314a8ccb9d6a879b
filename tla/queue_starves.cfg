SPECIFICATION Spec
CONSTANTS
    Workers = {1, 2, 3, 4, 5}
    OutputBytes <- MCOutputBytes
    Windows <- MCWindows
    Setups <- MCSetups
    OperatorBytes = 31
    Rewards = {19}
    FeeBps = 0
    Dust = 1
    Floor = 1
    Unit = 232792560
    Hashes = {h1}
    MaxBlocks = 7
INVARIANT
    NobodyStarves
CHECK_DEADLOCK FALSE
