SPECIFICATION RunningSpec
CONSTANTS
    h = h
    None = None
    Task = {j1, j2}
    Proc = {p1, p2}
    Holder = {h}
    HolderOf <- OneName
    LeaseTTL = 2
    TotalCap = 2
    PendingCap = 2
    RecoveryLimit = 1
    Overlap = TRUE
    MaxFence = 2
    MaxAmendments = 1
    Preparer = {q1, q2}
    Launcher = {l1}
    Version = {1, 2}
    MaxRevisions = 1
    MaxDecisions = 2
    RecBranch = {b1, b2}
    Lister = {b1}
    ListedKind = {"artifact"}
    RecId = {1, 2, 3}
    PageLimit = 1
    ScanLimit = 2
    MaxDecided = 2
SYMMETRY Symmetry
INVARIANTS
    LeasesSound
    PreparationSound
    ListingsSound
CHECK_DEADLOCK FALSE
