SPECIFICATION Spec
CONSTANTS
    None = None
    n1 = n1
    Nodes = {n1}
    Workers = {w1, w2}
    WorkerNode <- SameName
    Tokens = {t1, t2, t3}
    Codes = {c1, c2}
    Secrets = {i1}
    Window = 1
    RateWindow = 1
    RateLimit = 1
    MaxPairings = 2
    MaxNodes = 1
    MaxTime = 2
    MaxFaults = 1
SYMMETRY Symmetry
INVARIANTS
    TypeOK
    PairingIsDurable
    OneRequestPerCredential
PROPERTY
    EnrolledUntilRevoked
