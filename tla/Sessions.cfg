SPECIFICATION SessionsSpec
CONSTANTS
    e1 = e1
    e2 = e2
    Executor = {e1, e2}
    MaxSessions = 2
    MaxTurns = 1
    MaxRecoveries = 1
    MaxChainFaults = 1
    c1 = c1
    c2 = c2
    Execution = {e1, e2}
    Chunk = {c1, c2}
    State = {{c1}, {c1, c2}}
    MaxRows = 4
    Rec = {1, 2}
    Writer = {w1, w2}
    PageSize = 1
    MaxLineage = 2
    MaxChanges = 2
    MaxCheckpoints = 2
    k1 = k1
    k2 = k2
    k3 = k3
    ha = ha
    hb = hb
    CallId = {k1, k2, k3}
    Long = {k1}
    ElideAfter = 1
    ElideEvery = 1
    MaxItems = 2
    MaxResponses = 3
    MaxDeaths = 2
    Client = {k1, k2, k3}
    Header <- ClientHeader
    MaxEnvs = 4
    MaxFailures = 3
    LeanCheck = {l1, l2}
    Sources <- CheckedSources
    Statements = {1, 2}
    MaxMessages = 2
    ReplBinary = TRUE
    Background = TRUE
    MaxLosses = 2
SYMMETRY Symmetry
INVARIANTS
    ChainSound
    CheckpointsSound
    MemorySound
    TranscriptWhole
    LeanSessionSound
    LeanHostSound
CHECK_DEADLOCK FALSE
