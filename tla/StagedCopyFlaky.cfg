SPECIFICATION FairSpec
CONSTANTS
    Layouts = {"payload", "sibling", "sameDevice", "native"}
    MaxMishaps = 6
    FalseMissing = "apart"
    IntruderNames = {"backup", "final"}
INVARIANTS
    TypeOK
    OldFileKept
    HiddenOldReported
    OnlyCompleteItemsPublished
    MovedItemKept
    DoneIsTrue
    LeftoverReported
PROPERTIES
    
    
    RunEnds
CHECK_DEADLOCK FALSE
