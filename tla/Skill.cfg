SPECIFICATION SharedSpec
CONSTANTS
    h1 = h1
    h2 = h2
    q1 = q1
    q2 = q2
    d1 = d1
    d2 = d2
    Harness <- Harnesses
    Request <- Pair
    Doc <- Docs
    MaxEdits = 2
    MaxFaults = 1
SYMMETRY Symm
CHECK_DEADLOCK FALSE
INVARIANTS StoreConsistent LinksLead
PROPERTIES CopiesKept StopManagingRestores SetAllHolds
