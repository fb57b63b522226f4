SPECIFICATION SchedulingSpec
CONSTANTS
    j1 = j1
    j2 = j2
    j3 = j3
    p1 = p1
    p2 = p2
    h = h
    None = None
    Task = {j1, j2, j3}
    Proc = {p1, p2}
    Holder = {h}
    HolderOf <- OneName
    LeaseTTL = 1
    TotalCap = 3
    PendingCap = 2
    RecoveryLimit = 0
    Overlap = FALSE
    MaxFence = 2
    MaxAmendments = 0
    d1 = d1
    d2 = d2
    Dispatcher = {d1, d2}
    Models = 2
    ClaimLimit = 2
    ActivityAttempts = 2
    MaxCommands = 3
    MaxFaults = 1
SYMMETRY Symmetry
INVARIANTS
    JoinsSound
    DispatchSound
PROPERTY ImplementsFencedOwnership
CHECK_DEADLOCK FALSE
