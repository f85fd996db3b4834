SPECIFICATION Spec
CONSTANTS
    None = None
    Foreign = Foreign
    Paths = {f1, f2}
    Contents = {a, b}
    Requests = {r1, r2}
    Committers = {p1, p2}
    Publishers = {}
    MaxCommits = 3
    MaxEdits = 3
    MaxFaults = 1
SYMMETRY Symmetry
CHECK_DEADLOCK FALSE
INVARIANTS
    ReceiptIsExact
PROPERTIES
    ReceiptsAreFinal
