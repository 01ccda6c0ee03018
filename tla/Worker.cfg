SPECIFICATION WorkerSpec
CONSTANTS
    Ops <- MCOps
    ReadyLimit = 1
    CallLimit = 2
    MaxCalls = 3
    MaxUnread = 2
INVARIANTS
    CallsArePaired
PROPERTIES
    CallReturns
    NoOrphan
CHECK_DEADLOCK FALSE
