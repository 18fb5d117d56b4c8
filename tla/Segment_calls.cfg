CONSTANTS
    MaxPages = 6
    OsRefuses = TRUE
    Placements = {"hint", "elsewhere"}
    Increments = {0, 1, 2, 3}
SPECIFICATION Spec
INVARIANTS
    OpenPagesWithinExtent
PROPERTIES
    ExtendOnlyAdds
