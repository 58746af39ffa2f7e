CONSTANTS
    a = a
    b = b
    NoTransaction = NoTransaction
    Free = Free
    i1 = i1
    i2 = i2
    Name = {a, b}
    Import = {i1}
    Manifests <- MCFull
    Legacy <- MCNothing
    StartTables <- MCUsed
    TcpNames = {}
    BatchSize = 1
    MaxUserChanges = 1
    MaxNotices = 1
    MaxFaults = 0
SPECIFICATION Spec
INVARIANT AnswersFollowRules
