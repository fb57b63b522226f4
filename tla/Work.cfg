SPECIFICATION WorkSpec
CONSTANTS
    b1 = b1
    b2 = b2
    b3 = b3
    k1 = k1
    k2 = k2
    None = None
    Execution = {x1, x2}
    Command = {m1}
    MaxConcurrency = 1
    Path = {1, 2, 4}
    Width = 2
    Content <- FileContents
    Quota = 3
    MaxWrites = 1
    MaxRestores = 2
    Call = {c1, c2}
    Op = {o1, o2}
    Sandbox = {v1, v2}
    MaxCrashes = 1
    Bench = {b1, b2, b3}
    Capacity <- BenchCapacity
    Checker = {k1, k2}
    Request <- ProofRequests
    KernelPinned = TRUE
    MaxChanges = 1
SYMMETRY Symmetry
INVARIANTS
    WorkspacesSound
    ExportSound
    ProviderSound
    BenchSound
    VerifierSound
PROPERTY LostVMNotReused
CHECK_DEADLOCK FALSE
