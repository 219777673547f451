CONSTANTS
    p1 = p1
    p2 = p2
    x = x
    y = y
    Process = {p1, p2}
    None = None
    Path = {1, 2, 3}
    Content = {x, y}
    WalkOrder <- MCWalkOrder
    Kind <- MCKind
    SizeOf <- MCSizeOf
    FirstPaths = {1, 2}
    Command <- MCCommand
    Unreachable <- MCUnreachable
    MaxChanges = 1
SPECIFICATION Spec
SYMMETRY Symmetry
CHECK_DEADLOCK FALSE
INVARIANT DuplicatesAreIdentical
