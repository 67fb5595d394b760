SPECIFICATION FairSpec
CONSTANTS
    Top = "top"
    Parent <- NestedParent
    Folders <- NestedFolders
    Fresh = {"n"}
    Unstorable = {}
    Answers = {"retry", "skip", "skipAll", "cancel"}
    MaxRepeats = 1
    MaxFaults = 2
    MaxEdits = 1
    LateEdits = FALSE
    FalseAbsence = FALSE
INVARIANTS
    TypeOK
    NoPartLands
    MovedOrKept
PROPERTIES
    RemovedWasCopied
    MoveEnds
CHECK_DEADLOCK FALSE
