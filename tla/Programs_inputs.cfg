CONSTANTS
    Patterns <- MCPatterns
    Lines <- MCLines
    BufferSize = 5
    OldBytes = {1, 2}
    PathLists <- MCPathLists
    Names = {"ls", "cc", "ed"}
    MaxNames = 2
    Readable <- MCReadable
    Top = 8
    UsedSets <- MCUsedSets
    Displacements = {0, 8, 116, 255}
    FileLines <- MCFileLines
    MaxLines = 4
    Chunk = 2
    MaxInt = 7
    HeapStart = 8
    HeapEnd = 40
    NewPtrs = {0, 4, 8, 16, 24, 32, 40}
    NewSizes = {0, 1, 8, 9, 16, 24}
    OldPtrs = {0, 8, 16}
    OldSizes = {0, 5, 16}
    NUM_SYNONYMS = 1
    NUM_HEADWORDS = 2
    Multiplier = 7
    WordMod = 16
    Base = 40
    TextLines <- MCTextLines
    MaxText = 3
    Responses <- MCResponses
    Addresses = {1, 2, 3, 4, 5, 6, 7, 8}
    NumCells = 4
SPECIFICATION Spec
INVARIANTS
    ShowsFirstMatch
    FindsFirst
    BitsRight
    ParsedExactly
    JudgedRightly
    AnswersFromFile
    ListOwnsHeap
CHECK_DEADLOCK FALSE
