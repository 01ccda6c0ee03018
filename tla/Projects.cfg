SPECIFICATION Spec
CONSTANTS
    e1 = e1
    e2 = e2
    n1 = n1
    n2 = n2
    None = None
    Empty = Empty
    Linked = Linked
    Engines <- TwoEngines
    Names <- MCNames
    MaxRevision = 4
    MaxCrashes = 3
SYMMETRY MCSymmetry
CONSTRAINT Undisturbed
INVARIANTS
    LockIsKept
    ManifestNotBehind
CHECK_DEADLOCK FALSE
