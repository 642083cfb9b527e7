SPECIFICATION SharedSpec
CONSTANTS
    t1 = t1
    t2 = t2
    q1 = q1
    q2 = q2
    none = none
    None = none
    Unhashed = unhashed
    Target <- Targets
    Request <- Pair
    Body <- Bodies
    Text <- Texts
    Render <- RenderFn
    Parse <- ParseFn
    MaxEdits = 2
    MaxCrashes = 1
SYMMETRY Symm
CHECK_DEADLOCK FALSE
INVARIANTS RecordsAgree
PROPERTIES UserDocsKept SyncIsComplete
