SPECIFICATION Spec
CONSTANTS
    j1 = j1
    j2 = j2
    t1 = t1
    t2 = t2
    Absent = Absent
    Kind = "record"
    Jobs <- MCJobs
    Threads <- TwoThreads
    MaxLines = 2
    MaxCrashes = 0
INVARIANTS
    OneActiveJob
CHECK_DEADLOCK FALSE
