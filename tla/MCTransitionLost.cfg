SPECIFICATION Spec
CONSTANTS
    u1 = u1
    u2 = u2
    u3 = u3
    u4 = u4
    t1 = t1
    UdpQuery = {u1, u2}
    TcpQuery = {t1}
    QueueLimit = 2
INVARIANTS
    NothingLost
CHECK_DEADLOCK FALSE
