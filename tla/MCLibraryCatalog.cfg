CONSTANTS
    Process = {1, 2}
    None = None
    FirstVersions = {0, 1, 2, 4}
    NoRows <- EmptyRows
    OldRows <- MCOldRows
    Asset = {1, 2}
    Name <- MCName
    Folded <- MCFolded
    TagList <- MCTagList
    Search = {1}
    MaxEdits = 3
SPECIFICATION FairSpec
CHECK_DEADLOCK FALSE
INVARIANTS
    SchemaSound
    TagsAgree
PROPERTIES
    FailsForAReason
    EditsAreExact
    CommandEnds
