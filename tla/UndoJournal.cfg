SPECIFICATION Spec
CONSTANTS
    Copy = copy
    Trash = trash
    Rename = rename
    Windows = {w1, w2}
    Operations = {copy, trash, rename}
    Items <- MCItems
    Walks = {k1, k2}
    Exclusive = {trash}
    Jobs = {copy}
    Lists <- MCLists
    NoWindow = NoWindow
    NoStep = NoStep
    UndoLimit = 2
SYMMETRY Symmetry
INVARIANTS
    TypeOK
    OneHolder
    StepsAreTrue
    InOrder
PROPERTIES
    NothingForgotten
CHECK_DEADLOCK FALSE
