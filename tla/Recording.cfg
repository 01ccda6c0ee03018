SPECIFICATION Spec
CONSTANTS
    Kind <- MCKind
    Cards <- MCCards
    Samples <- MCSamples
    ResumeSamples = 3
    MaxTrouble = 2
    Unread = Unread
    BytesPerMib = 1024
    CacheTtl = 5
INVARIANTS
    WorkersHoldSlots
    NoOvertaking
PROPERTIES
    PauseHolds
    PlanIsFinished
