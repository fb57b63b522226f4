SPECIFICATION EvidenceSpec
CONSTANTS
    a1 = a1
    a2 = a2
    k1 = k1
    k2 = k2
    k3 = k3
    None = None
    Receipt = {r1}
    Checker = {k1, k2, k3}
    Actor = {a1, a2}
    ActorOf <- CheckerActor
    MaxReviews = 3
    Suite = {"basic"}
    Mode = {"kernel", "independent"}
    Reports <- ReportLists
    Boundary <- BoundaryReports
    Regression <- RegressionReports
    Res = {s1, s2}
    Limit <- Envelope
    Limited = {"cost", "tokens"}
    MaxConcurrency = 1
    Charge = {0, 1}
    d1 = d1
    d2 = d2
    d3 = d3
    i1 = i1
    i2 = i2
    i3 = i3
    LitCall = {c1, c2, c3}
    Document = {d1, d2, d3}
    WorkId = {i1, i2, i3}
    Identity <- CopyIds
    UrlIds <- CopyUrls
    Mentions <- CopyMentions
    BlockedPages = {}
    Titled = {d1}
    Overlapping = {}
    Listing = {d2}
    BlockedIds = {}
    Fetcher = {f1, f2}
    HostQueue = {q1, q2}
    Interval = 1
    MaxWait = 1
    Delays = {1, 2}
    MaxRetryWait = 1
    RetryAttempts = 2
    MaxRedirects = 1
    Threads = 2
    MaxClock = 4
    Mail = Mail
    NoSession = NoSession
    Topic = {t1}
    Session = {x1, x2}
    BatchLimit = 1
    ScanLimit = 2
    TopicLimit = 1
    MaxEvents = 2
SYMMETRY Symmetry
INVARIANTS
    AcceptanceSound
    QualificationSound
    LedgerSound
    LiteratureSound
    LimiterSound
    InboxSound
CHECK_DEADLOCK FALSE
