CONSTANTS
    PageWords = 14
    NumBuckets = 5
    Prefetch = 2
    IntMax = 10000
    MaxPages = 5
    OsRefuses = TRUE
    Placements = {"hint"}
    StackBytes = 10000
    Requests = {48, 70}
SPECIFICATION Spec
INVARIANTS
    NeverPlacesNull
    Backed
CHECK_DEADLOCK FALSE
