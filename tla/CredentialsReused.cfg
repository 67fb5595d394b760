SPECIFICATION Spec
CONSTANTS
    Windows = {"w1"}
    Endpoints = {"p1"}
    Mounts = {"m1", "m2"}
    SignOuts = {"s1"}
    Kinds = {"map"}
    MaxAttempts = 2
    KeyringFails = FALSE
    DeadlinePasses = FALSE
    ClearOverlaps = TRUE
    OtherProcesses = FALSE
INVARIANTS
    ForgottenNeverReused
CHECK_DEADLOCK FALSE
