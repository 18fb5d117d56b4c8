CONSTANTS
    PageWords = 28
    NumBuckets = 2
    Prefetch = 10
    IntMax = 10000
    MaxPages = 1
    OsRefuses = TRUE
    Placements = {"hint"}
    StackBytes = 10000
    Requests = {8}
    Data = 9
SPECIFICATION Spec
INVARIANTS
    ListsExact
PROPERTIES
    ImplementsBlockHeap
CHECK_DEADLOCK FALSE
