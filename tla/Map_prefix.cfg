CONSTANTS
    DefaultBuckets = 3
    Multiplier = 7
    WordMod = 16
    Keys <- PrefixKeys
    Vals = {1, 2}
    Hints = {1}
SPECIFICATION Spec
PROPERTIES
    ImplementsMap
CHECK_DEADLOCK FALSE
