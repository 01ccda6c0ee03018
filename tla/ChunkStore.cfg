SPECIFICATION FairSpec
CONSTANTS
    k1 = k1
    k2 = k2
    short = short
    long = long
    None = None
    Empty = Empty
    Keys <- MCKeys
    Takes <- MCTakes
    Measure <- MCMeasure
    MaxCrashes = 2
    MaxResets = 1
    PowerLoss = TRUE
INVARIANTS
    SidecarMeansReusable
    IndexIsSound
PROPERTIES
    CommittedSurvives
    ReopensIfReadable
