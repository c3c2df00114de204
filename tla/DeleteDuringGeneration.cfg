SPECIFICATION Spec
CONSTANTS
    Assets = {a1}
    Reports = {r1}
    Calls = {c1}
    Operations = {"request", "confirm", "delete", "generate"}
    Faults = {}
    Kind <- OneKind
    Size <- Sizes
    MaxCount <- CountLimit
    MaxBytes = 2
    PendingTtl = 0
    NULL = NULL
SYMMETRY Symmetry
INVARIANT SourcesKept
CHECK_DEADLOCK FALSE
