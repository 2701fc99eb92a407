SPECIFICATION Spec
CONSTANTS
    MaxTurn     = 2
    MaxCall     = 1
    MaxRequest  = 2
    Gated       = {}
    Uses       <- FirstOnly
    Attempts   <- EveryTurn
    MaxCrash    = 0
    MaxCancel   = 1
    MaxDeadline = 0
    MaxExpiry   = 0
INVARIANTS
    OneResultPerCall
CHECK_DEADLOCK FALSE
