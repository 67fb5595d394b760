SPECIFICATION Spec
CONSTANTS
    Top = "top"
    Parent <- FlatParent
    Folders <- FlatFolders
    Fresh = {}
    Unstorable = {"u"}
    Answers = {"retry", "skip", "skipAll", "cancel", "elevate"}
    MaxRepeats = 2
    MaxFaults = 2
    MaxEdits = 1
    LateEdits = FALSE
    FalseAbsence = FALSE
INVARIANTS
    DoneIsComplete
PROPERTIES
    LeftOutStays
CHECK_DEADLOCK FALSE
