SPECIFICATION Spec
CONSTANTS
    None = None
    n1 = n1  r1 = r1  r2 = r2  p1 = p1  p2 = p2  p3 = p3
    JobIds = {j1}
    Nodes = {n1}
    Sessions = {s1, s2, s3}
    Profiles = {a}
    Bundles = {}
    Approved = {a}
    Times = {1}
    MaxJobs = 1
    Roots = {r1, r2}
    Procs = {p1, p2, p3}
    RootNode <- SameNode
    RootOf <- TwoRoots
    MaxTries = 2
    MaxFaults = 2
SYMMETRY SessionSymmetry
INVARIANTS
    TypeOK
    Ownership
    AtMostOnce
    DeliveryNeverConflicts
PROPERTIES
    JournalIsFinal
    OwnersAreFinal
