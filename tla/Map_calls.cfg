CONSTANTS
    DefaultBuckets = 3
    Multiplier = 7
    WordMod = 16
    Keys <- ApartKeys
    Vals = {1, 2}
    Hints = {0, 2}
SPECIFICATION Spec
INVARIANTS
    NextFindsItself
    FreesEachOnce
PROPERTIES
    ImplementsMap
    IterationEnds
CHECK_DEADLOCK FALSE
