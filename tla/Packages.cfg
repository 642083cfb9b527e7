SPECIFICATION PartsSpec
CONSTANTS
    p1 = p1
    p2 = p2
    p3 = p3
    Package = {p1, p2}
    DepId = {d1, d2}
    Harness = "claude"
    Name <- MCName
    Edited = edited
    Nothing = nothing
    MaxIdent = 4
    MaxEdits = 2
    MaxCrashes = 1
    Skill = {d1, d2}
    Revision = {r1, r2}
    Branch = {main, tag}
    Thread = {t1, t2}
    NoEntry = noentry
    NoSource = nosource
    NoLink = nolink
    Nobody = nobody
    MaxCalls = 3
    MaxMoves = 2
    MaxMishaps = 1
    MaxTouches = 1
SYMMETRY SkillsAndThreads
CHECK_DEADLOCK FALSE
INVARIANTS
    ClaudeNothingUnclaimed
    ManifestHolds
PROPERTIES
    IsOwnership
    UserFilesKept
    RecordedCopyKept
    UpdateKeepsEnablement
    ClaudeRemovesOnlyOwned
    FailedUpdateRestores
    NothingForgotten
