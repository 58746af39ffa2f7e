SPECIFICATION Spec
CONSTANTS
    s1 = s1
    s2 = s2
    Source = {s1, s2}
    Priority <- Priorities
    NormalPriority = 1
    HighPriority = 2
    UpdateOnStart = TRUE
    UpdateOnNetworkChange = TRUE
    MaxConcurrent = 1
    Network <- Roaming
    ReachableStatus = {"wifi", "cellular"}
    Calls <- AllCalls
    MaxBlocks = 2
    MaxNotices = 2
SYMMETRY Symmetry
INVARIANTS
    TypeOK
    PendingOnce
    PendingOrdered
    WorkConserving
PROPERTIES
    BegunOnlyWhenRunning
    IsAPool
CHECK_DEADLOCK FALSE
