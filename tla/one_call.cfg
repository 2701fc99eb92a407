SPECIFICATION FairSpec
CONSTANTS
    MaxTurn     = 1
    MaxCall     = 1
    MaxRequest  = 2
    Gated       = {1}
    Uses       <- AllCalls
    Attempts   <- EveryTurn
    MaxCrash    = 2
    MaxCancel   = 1
    MaxDeadline = 1
    MaxExpiry   = 1
INVARIANTS
    TypeOK
    GateHolds
    CheckpointFollowsLedger
    FactsWrittenOnce
    StartedOnce
PROPERTIES
    PromisesKept
    TerminalStays
    SettledIsQuiet
    TurnsEnd
    CheckpointCatchesUp
    RunsEnd
CHECK_DEADLOCK FALSE
