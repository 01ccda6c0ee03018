SPECIFICATION Spec
CONSTANTS
    Lessons <- MCLessons
    Accepts <- MCChoices
    Clients = {c1}
    MaxRevision = 2
    Lexicon <- MCLexicon
    Titles = {}
    MaxLine = 4
    MaxEntry = 3
    MinToc = 2
    Mode = "gendered"
    Filled = {"narrator", "male"}
    Limit = 5
CHECK_DEADLOCK FALSE
INVARIANTS
    SpansAreTheReview
    ReadingsKeepTheirWords
    PlanSpeaksTheText
    DialogueIsTiled
    ReadsItsNumber
PROPERTIES
    CommittedOnItsText
