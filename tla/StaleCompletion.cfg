SPECIFICATION ChainSpec
CONSTANTS
    Executor = {e1, e2}
    MaxSessions = 1
    MaxTurns = 1
    MaxRecoveries = 1
    MaxChainFaults = 2
INVARIANT CompletedChainValid
CHECK_DEADLOCK FALSE
