SPECIFICATION SupervisorSpec
CONSTANTS
    ReadyBudget = 2
    HealthInterval = 1
    ProbeTimeout = 1
    HealthFailures = 3
    HttpTimeout = 1
    ShutdownWait = 2
    KillGrace = 1
    Backoff <- MCBackoff
    RestartWindow = 8
    RestartLimit = 2
    ShellWait = 4
INVARIANTS
    RestartsAreBounded
    EngineIsAccountedFor
PROPERTIES
    KillIsLastResort
    LossIsNoticed
CHECK_DEADLOCK FALSE
