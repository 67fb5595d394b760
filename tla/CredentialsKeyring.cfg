SPECIFICATION FairSpec
CONSTANTS
    Windows = {"w1"}
    Endpoints = {"p1"}
    Mounts = {"m1", "m2"}
    SignOuts = {"s1"}
    Kinds = {"list", "mapAs"}
    MaxAttempts = 1
    KeyringFails = TRUE
    DeadlinePasses = TRUE
    ClearOverlaps = TRUE
    OtherProcesses = TRUE
INVARIANTS
    TypeOK
    ForgottenNeverSaved
PROPERTIES
    SignOutEnds
CHECK_DEADLOCK FALSE
