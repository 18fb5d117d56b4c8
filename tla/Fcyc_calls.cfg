CONSTANTS
    KBest = 3
    MaxSamples = 5
    Epsilon = 2
    HalfMod = 4
    Times = {1, 3, 4, 6}
    Readings = {0, 3, 5, 9}
SPECIFICATION FcycSpec
INVARIANTS
    ReadingExact
    KBestKept
PROPERTIES
    ReturnsConvergedMinimum
    CallEnds
CHECK_DEADLOCK FALSE
