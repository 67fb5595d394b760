SPECIFICATION Spec
CONSTANTS
    Top = "top"
    Parent <- NestedParent
    Folders <- NestedFolders
    Fresh = {"n"}
    Unstorable = {}
    Answers = {"retry", "skip", "skipAll", "cancel", "elevate"}
    MaxRepeats = 1
    MaxFaults = 1
    MaxEdits = 0
    LateEdits = FALSE
    FalseAbsence = FALSE
PROPERTIES
    CancelStops
CHECK_DEADLOCK FALSE
