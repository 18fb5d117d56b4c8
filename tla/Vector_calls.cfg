CONSTANTS
    ElemSize = 4
    DefaultCapacity = 2
    PointerSize = 8
    Vals = {1, 2, 3}
    Hints = {0, 1, 3}
    MaxCount = 4
SPECIFICATION Spec
INVARIANTS
    ElementsFit
PROPERTIES
    ImplementsSequence
    IterationComplete
    IterationEnds
CHECK_DEADLOCK FALSE
