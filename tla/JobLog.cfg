SPECIFICATION Spec
CONSTANTS
    p1 = p1
    p2 = p2
    Nothing = Nothing
    Kind = "record"
    Progress <- MCProgress
    MaxSeq = 5
    MaxCrashes = 3
    PowerLoss = TRUE
INVARIANTS
    SeqDense
    SettledStateIsLogged
PROPERTIES
    ImplementsJob
CHECK_DEADLOCK FALSE
