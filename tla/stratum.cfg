SPECIFICATION Spec
CHECK_DEADLOCK FALSE
CONSTANTS
    MaxJobs = 3
    MaxAccepts = 4
    Listeners = {"a", "b"}
    MaxConns = 1
    RecentJobs = 1
    DedupeRing = 4
    Addresses = {1, 2}
    Diffs = {1, 2, 4}
    NetDiff <- MCNetDiff
    Framings = {1, 2}
    Scenarios <- MCScenarios
INVARIANTS
    RefsExact
    NotifyReachesItsConn
    HonestWorkCounts
    StaleMeansGone
    CreditedOnce
    CurrentOnWire
PROPERTIES
    WalkEnds
