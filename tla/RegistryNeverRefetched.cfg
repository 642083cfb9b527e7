SPECIFICATION MCSpec
CONSTANTS
    low = low
    high = high
    n1 = n1
    n2 = n2
    q1 = q1
    q2 = q2
    File <- Files
    Rank <- RankFn
    Name = {n1, n2}
    Def = {d1}
    NoObject = noobject
    Request = {q1, q2}
    Mechanism = {"reload", "manual"}
    Nothing = none
    Missing = missing
    Torn = torn
    MaxRequests = 2
    MaxMishaps = 1
    Nobody = nobody
    None = nothing
    NoFile = nofile
    Damaged = damaged
    MaxMoves = 1
    MaxAnswers = 4
    MaxFaults = 3
    Ttl = 1
    Retention = 2
    FailureTtl = 0
    ClientTtl = 1
    MaxTime = 4
    MaxAsked = 3
    MaxOutages = 1
SYMMETRY Symmetry
CHECK_DEADLOCK FALSE
INVARIANTS RegistryServed
