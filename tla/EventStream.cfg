SPECIFICATION Spec
CONSTANTS
    worker = worker
    loop = loop
    Publishers <- MCPublishers
    OnLoop <- MCOnLoop
    QueueSize = 1
    BufferSize = 4
    Limit = 2
    Quota <- MCQuota
    MaxConnects = 2
    MaxAsks = 2
INVARIANTS
    OrderIsKept
    LossIsTold
    ClientCatchesUp
CHECK_DEADLOCK FALSE
