CONSTANTS
    PageWords = 13
    NumBuckets = 4
    Prefetch = 10
    IntMax = 150
    MaxPages = 2
    OsRefuses = TRUE
    Placements = {"hint", "elsewhere"}
    StackBytes = 10000
    Requests = {0, 16, 41}
    Data = 9
SPECIFICATION Spec
INVARIANTS
    TagsAgree
    ValidatorExact
    HeldIffAllocated
PROPERTIES
    ImplementsBlockHeap
CHECK_DEADLOCK FALSE
