SPECIFICATION Spec
CONSTANTS
    MaxTurns = 1
    MaxAsks = 1
    MaxSent = 4
    PipeCap = 1
    Orderly = TRUE
CHECK_DEADLOCK FALSE
PROPERTY
    DenyIsFinal
