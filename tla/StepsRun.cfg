SPECIFICATION FairSpec
CONSTANTS
    None = None
    k1 = k1
    k2 = k2
    k3 = k3
    v1 = v1
    v2 = v2
    p1 = p1
    p2 = p2
    p3 = p3
    Empty = Empty
    Workflows <- AllWorkflows
    Keys = {k1, k2, k3}
    Values = {v1, v2, Empty}
    SecretKeys = {k2}
    Paths = {p1, p2, p3}
    Ids = {"first", "a", "b", "c", "package", "inner", "innerDown", "last", "down", "down2"}
    VarOverrides <- LockK3
    ExtraEnv <- ExtraK3
    MaxInterrupts = 1
CHECK_DEADLOCK FALSE
INVARIANTS
    MembersAreIsolated
    TeardownWaits
    TeardownBegins
    FirstExitCodeSurvives
PROPERTIES
    LastWriterWins
    OutputsAreUsedOnce
    RunEnds
