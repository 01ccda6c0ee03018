SPECIFICATION Spec
CHECK_DEADLOCK FALSE
CONSTANTS
    MaxEntry = 10
    MaxTotal = 20
    MinSpine = 3
    MinText = 3
    Library <- MCLibrary
    Suffix <- MCSuffix
    Shelf <- MCShelf
    Later <- MCLater
    Overlays <- MCOverlays
    t1 = t1
    t2 = t2
    Threads <- MCThreads
    MaxEdits = 1
    MaxSaves = 1
    MaxCrashes = 1
SYMMETRY Symmetry
CONSTRAINT RacesAreOfPlainBooks
INVARIANTS
    WorkingCopyKeepsTheBook
    BlocksHoldTheText
    ExportKeepsTheSpans
    FilesFollowTheStore
PROPERTIES
    EditedBookStays
