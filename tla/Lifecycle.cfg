SPECIFICATION FairSpec
CONSTANTS
    None = None
    MaxPods = 2
    MaxVersion = 2
    MaxInflight = 1
    OutCap = 2
    Surge = FALSE
CHECK_DEADLOCK FALSE
INVARIANTS FlushFresh
PROPERTIES WarmRestart RunReturns Converges
