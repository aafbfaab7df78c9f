CONSTANTS
    Clients = {c1}
    Targets = {t1, t2}
    SessionMax = 2
    QueueMax = 2
    IdleTimeout = 0
    RelayPort = 1028
    MaxSid = 3
    MaxDatagrams = 3
    MaxTime = 1
SPECIFICATION Spec
CHECK_DEADLOCK FALSE
INVARIANTS
    CountIsExact
    OneSessionPerFlow
    UnlistedIsClosed
    SentInOrder
PROPERTIES
    LeavesUntilReply
