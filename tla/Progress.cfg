SPECIFICATION ProgressSpec
CONSTANTS
    Dispatcher = {d1}
    Models = 1
    ClaimLimit = 2
    ActivityAttempts = 2
    MaxCommands = 3
    MaxFaults = 1
    Builder = {b1, b2}
    Own = {b1}
    MaxNews = 1
    MaxSeen = 0
    MaxConcurrency = 1
    MaxTasks = 1
    MaxMishaps = 1
    r1 = r1
    r2 = r2
    Requester = {r1, r2}
    Estimate <- RequestEstimate
    Priority <- RequestPriority
    Capacity = 2
    Limit = 1
    MaxAge = 4
    MaxPause = 1
    MaxThrottles = 1
    Executor = {e1}
    MaxSessions = 2
    MaxTurns = 2
    MaxRecoveries = 0
    MaxChainFaults = 2
    Mail = Mail
    NoSession = NoSession
    Topic = {t1}
    Session = {x1}
    BatchLimit = 1
    ScanLimit = 1
    TopicLimit = 1
    MaxEvents = 2
INVARIANTS
    TeamSound
    GovernorSound
    LoneChainSound
PROPERTIES
    IdleStopMissedNothing
    WakesArrive
    NoTokensLost
    NothingStarves
    HandoffContinuesUnlessStale
    WorkflowFollows
    UpdatesArrive
CHECK_DEADLOCK FALSE
