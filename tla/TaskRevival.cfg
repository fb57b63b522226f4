SPECIFICATION Spec
CONSTANTS
    t1 = t1
    t2 = t2
    t3 = t3
    p1 = p1
    p2 = p2
    h = h
    None = None
    Task = {t1, t2, t3}
    Proc = {p1, p2}
    Holder = {h}
    HolderOf <- OneName
    LeaseTTL = 1
    TotalCap = 3
    PendingCap = 2
    RecoveryLimit = 0
    Overlap = TRUE
    MaxFence = 2
    MaxAmendments = 0
INVARIANT JoinedWorkSettled
CHECK_DEADLOCK FALSE
