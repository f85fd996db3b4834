SPECIFICATION FairSpec
CONSTANTS
    None = None
    n1 = n1  r1 = r1  r2 = r2  p1 = p1  p2 = p2  p3 = p3
    JobIds = {j1, j2}
    Nodes = {n1}
    Sessions = {s1, s2}
    Profiles = {a}
    Bundles = {b}
    Approved = {a}
    Times = {1}
    MaxJobs = 2
    Roots = {r1}
    Procs = {p1}
    RootNode <- SameNode
    RootOf <- SharedRoot
    MaxTries = 1
    MaxFaults = 1
INVARIANTS
    ServingIsDurable
    PayloadBeforeMetadata
    CancelWasRequested
PROPERTIES
    ImplementsLedger
    JobsSettle
