SPECIFICATION Spec
CONSTANTS
    Assets = {a1, a2}
    Reports = {r1}
    Calls = {c1, c2}
    Operations = {"request", "confirm"}
    Faults = {"overlap"}
    Kind <- OneKind
    Size <- Sizes
    MaxCount <- CountLimitTwo
    MaxBytes = 2
    PendingTtl = 0
    NULL = NULL
SYMMETRY Symmetry
INVARIANT ReadyAssetHasObject
CHECK_DEADLOCK FALSE
