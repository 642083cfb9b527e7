CONSTANTS
    p1 = p1
    p2 = p2
    p3 = p3
    Package = {p1, p2}
    DepId = {d1, d2}
    Harness = "opencode"
    Name <- MCName
    Edited = edited
    Nothing = nothing
    MaxIdent = 3
    MaxEdits = 2
    MaxCrashes = 0
SPECIFICATION Spec
SYMMETRY Symmetry
PROPERTIES
    RemovalDeletesOnlyOwned
CHECK_DEADLOCK FALSE
