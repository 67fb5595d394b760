SPECIFICATION Spec
CONSTANTS
    Windows = {w1, w2}
    Endpoints = {p1, p2}
    Mounts = {m1, m2}
    SignOuts = {s1}
    Kinds = {"read"}
    MaxAttempts = 1
    KeyringFails = FALSE
    DeadlinePasses = FALSE
    ClearOverlaps = FALSE
    OtherProcesses = FALSE
INVARIANTS
    ForgottenNeverReused
    LastSavedIsPreferred
SYMMETRY Symmetry
CHECK_DEADLOCK FALSE
