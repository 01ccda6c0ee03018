SPECIFICATION Spec
CONSTANTS
    t1 = t1
    t2 = t2
    Now = Now
    Book <- MCBook
    Drafts <- MCDrafts
    Replacements <- MCReplacements
    Similar <- MCSimilar
    Threads <- MCThreads
    MaxRevision = 3
    MaxChapters = 4
    MaxBeside = 1
    MaxCrashes = 1
SYMMETRY Symmetry
CONSTRAINT Apart
INVARIANTS
    TreeIsSound
PROPERTIES
    StructureKeepsText
    HistoryIsFixed
