SPECIFICATION FairChainSpec
CONSTANTS
    Executor = {e1}
    MaxSessions = 2
    MaxTurns = 2
    MaxRecoveries = 1
    MaxChainFaults = 1
PROPERTIES HandoffContinues
CHECK_DEADLOCK FALSE
