SPECIFICATION MCSpec
CONSTANTS
    c1 = c1
    c2 = c2
    c3 = c3
    server = server
    other = other
    Caller <- Callers
    Process = {server, other}
    Runs <- RunsFn
    Key = {e1, e2}
    Value = {v1}
    Nothing = none
    MaxCrashes = 1
    Pid = {p1, p2}
    Port = {w1, w2}
    Preferred = w1
    Command = {c1, c2}
    NoState = nostate
    Torn = torn
    Nobody = nobody
    MaxCommands = 3
    MaxMishaps = 2
    Id = {1, 2}
    ApiKey = {k1, k2}
    Rest = {unset, set}
    Default = unset
    Bodies <- BodySet
    Column = {x1, x2}
    Request = {q1, q2}
    NoRow = norow
    NoKey = nokey
    MaxRequests = 5
    MaxStops = 1
    ConsensusRuns = {1, 2, 3}
    MaxRetries = 2
    MaxRead = 15
    MaxInstruction = 5
    MaxCodeFile = 5
    MaxReferenced = 4
    MaxTotal = 12
    Overhead = 1
CHECK_DEADLOCK FALSE
INVARIANTS
    NoOrphan ConfigsKept ReportSound
PROPERTIES
    CommandsHeed StopEnds EditIsWhole IsKeyedDocument LockReleased
