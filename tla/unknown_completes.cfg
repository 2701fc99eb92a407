SPECIFICATION Spec
CONSTANTS
    MaxTurn     = 1
    MaxCall     = 2
    MaxRequest  = 2
    Gated       = {2}
    Uses       <- AllCalls
    Attempts   <- EveryTurn
    MaxCrash    = 2
    MaxCancel   = 0
    MaxDeadline = 0
    MaxExpiry   = 0
INVARIANTS
    UnknownFailsTurn
CHECK_DEADLOCK FALSE
