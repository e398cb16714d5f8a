SPECIFICATION Spec
CONSTANTS
    PGSIZE = 2
    KERNBASE = 14
    NPT = 3
    KTABS = 1
    KMapped = {7, 8, 13}
    End = 1
    PHYSTOP = 34
    NPROC = 2
    MAXARG = 3
    Programs <- MCPrograms
    PtrSize = 1
    StatSize = 2
    Values = {"x"}
    NoSpace = NoSpace
    MinUnits = 2
    Requests = {2, 3}
    App = 1
    Deltas <- MCDeltas
    Budgets <- MCBudgets
INVARIANTS
    PagesOwnedOnce
    SizeMapped
    VmNeverPanics
    HeapTiled
PROPERTIES
    SpacesArePrivate
CHECK_DEADLOCK FALSE
