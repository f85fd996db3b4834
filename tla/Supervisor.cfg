SPECIFICATION Spec
CONSTANTS
    Workers = {"reader", "op"}
    MaxSequence = 5
    MaxFaults = 1
    EventCap = 2
    HastyShutdown = FALSE
    ConsumerLeaves = TRUE
INVARIANTS
    OneDisconnect
PROPERTIES
    ChildIsStopped
    ShutdownReturns
CHECK_DEADLOCK FALSE
