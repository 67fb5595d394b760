SPECIFICATION Spec
CONSTANTS
    target = target
    inner = inner
    Processes = {p1, p2}
    Runs = {r1, r2}
    Dest <- MCDest
    Merged <- WithInner
    MaxLaunches = 3
    MarksOverlap = FALSE
    EndsOverlap = FALSE
    DiesBeforeShown = FALSE
    Unreachable = {}
SYMMETRY Symmetry
INVARIANTS
    LeftoversNamed
CHECK_DEADLOCK FALSE
