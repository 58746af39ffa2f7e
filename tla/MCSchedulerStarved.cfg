SPECIFICATION Spec
CONSTANTS
    s1 = s1
    s2 = s2
    Source = {s1, s2}
    Priority <- Priorities
    NormalPriority = 1
    HighPriority = 2
    UpdateOnStart = TRUE
    UpdateOnNetworkChange = FALSE
    MaxConcurrent = 1
    Network <- Quiet
    ReachableStatus = {"wifi", "cellular"}
    Calls <- ManagerCalls
    MaxBlocks = 1
    MaxNotices = 1
INVARIANTS
    NoneStarved
CHECK_DEADLOCK FALSE
