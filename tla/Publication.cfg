SPECIFICATION Spec
CONSTANTS
    None = None
    Foreign = Foreign
    Paths = {f1, f2}
    Contents = {a, b}
    Requests = {r1}
    Committers = {p1}
    Publishers = {q1}
    MaxCommits = 4
    MaxEdits = 3
    MaxFaults = 2
CHECK_DEADLOCK FALSE
INVARIANTS
    OneCommitPerRequest
    PushedIsApproved
    PublicationsAgree
PROPERTIES
    RecoveryCompletes
