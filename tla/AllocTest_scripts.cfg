CONSTANTS
    PageWords = 14
    NumBuckets = 4
    Prefetch = 10
    IntMax = 180
    MaxPages = 2
    OsRefuses = FALSE
    Placements = {"hint"}
    StackBytes = 10000
    Ids = {1, 2}
    Sizes = {0, 24, 41}
SPECIFICATION TestSpec
INVARIANTS
    OnlyLargeBlocksFail
    UtilizationSound
CHECK_DEADLOCK FALSE
