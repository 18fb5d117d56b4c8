CONSTANTS
    root = root
    sub = sub
    low = low
    f = f
    g = g
    gone = gone
    Root = root
    Gone = gone
    Dirs <- MCDirs
    Files <- MCFiles
    DateOf <- MCDateOf
    SearchStrs <- MCSearchStrs
    Dot <- DotChar
    Slash <- SlashChar
    Trees <- MCTrees
SPECIFICATION Spec
INVARIANTS
    DirsOnce
    PrintsMatches
    AnswersTrue
PROPERTIES
    GatheringEnds
CHECK_DEADLOCK FALSE
