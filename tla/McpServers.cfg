SPECIFICATION Spec
CONSTANTS
    plain = plain
    opencode = opencode
    q1 = q1
    q2 = q2
    c1 = c1
    c2 = c2
    none = none
    Nothing = none
    Harness <- Harnesses
    Resolved <- Merged
    Writable <- Harnesses
    Request <- Pair
    Serves <- ServesFn
    Named <- Naming
    Config <- Configs
    Offered = {c1}
    MaxMishaps = 1
CHECK_DEADLOCK FALSE
INVARIANTS CacheSound
PROPERTIES UninstallComplete AnswersHold AdoptLosesNoConfig
