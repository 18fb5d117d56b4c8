CONSTANTS
    PageWords = 15
    NumBuckets = 5
    Prefetch = 10
    IntMax = 10000
    MaxPages = 3
    OsRefuses = FALSE
    Placements = {"hint"}
    StackBytes = 10000
    Requests = {0, 24, 41}
SPECIFICATION Spec
INVARIANTS
    TypeOK
    Tiling
    NoAdjacentFree
    CapacityHolds
PROPERTIES
    KeepsPromise
CHECK_DEADLOCK FALSE
