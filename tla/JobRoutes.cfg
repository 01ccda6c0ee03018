SPECIFICATION Spec
CONSTANTS
    j1 = j1
    j2 = j2
    t1 = t1
    t2 = t2
    Absent = Absent
    Kind = "record"
    Jobs <- MCJobs
    Threads <- TwoThreads
    MaxLines = 4
    MaxCrashes = 1
SYMMETRY MCSymmetry
INVARIANTS
    LogComesFirst
    ReplayMissesNothing
CHECK_DEADLOCK FALSE
