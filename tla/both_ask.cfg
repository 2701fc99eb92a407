SPECIFICATION Spec
CONSTANTS
    MaxTurn     = 2
    MaxCall     = 1
    MaxRequest  = 2
    Gated       = {1}
    Uses       <- AllCalls
    Attempts   <- EveryTurn
    MaxCrash    = 0
    MaxCancel   = 0
    MaxDeadline = 0
    MaxExpiry   = 0
PROPERTIES
    TurnsAdvance
CHECK_DEADLOCK FALSE
