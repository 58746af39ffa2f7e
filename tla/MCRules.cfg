CONSTANTS
    a = a
    b = b
    NoTransaction = NoTransaction
    Free = Free
    i1 = i1
    i2 = i2
    Name = {a, b}
    Import = {i1, i2}
    Manifests <- MCAnyManifest
    Legacy <- MCBlocksB
    StartTables <- MCFreshOrUsed
    TcpNames = {}
    BatchSize = 1
    MaxUserChanges = 1
    MaxNotices = 1
    MaxFaults = 1
SPECIFICATION Spec
INVARIANTS
    TypeOK
    TransactionOwned
PROPERTY
    UserRulesSurvive
