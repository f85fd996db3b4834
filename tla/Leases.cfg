SPECIFICATION Spec
CONSTANTS
    None = None
    Base = Base
    WorkerIds = {w1, w2}
    Procs = {p1, p2}
    Lifetimes = {0, 1}
    MaxTime = 2
CHECK_DEADLOCK FALSE
INVARIANT
    OneWriter
