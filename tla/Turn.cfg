SPECIFICATION Spec
CONSTANTS
    MaxTurns = 2
    MaxAsks = 2
    MaxSent = 4
    PipeCap = 1
    Orderly = FALSE
INVARIANTS
    AnswersAreDecided
PROPERTIES
    DisconnectedIsFinal
    CancelledIsConfirmed
CHECK_DEADLOCK FALSE
