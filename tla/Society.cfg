SPECIFICATION SocietySpec
CONSTANTS
    n1 = n1
    n2 = n2
    n3 = n3
    p = p
    q = q
    fa = fa
    fb = fb
    fc = fc
    fd = fd
    CNode = {n1, n2, n3}
    Branch = {p, q}
    Author <- NodeAuthor
    File = {fa, fb, fc, fd}
    Imports <- FileImports
    Clean = {fa, fb, fc, fd}
    NoFile = NoFile
    Existing = {n1, n2}
    MaxCommands = 4
    Candidates <- FileCandidates
    v1 = v1
    v2 = v2
    mx = mx
    my = my
    text = text
    RNode = {v1, v2}
    Text <- NodeText
    Models <- ModelFamilies
    AuthorModel <- NodeModel
    PanelLimit = 2
    MaxReferees = 4
    Topic = {ta, tb}
    Poster = {o1, o2}
    BatchSize = 2
    SampleSize = 2
    Interval = {0, 3}
    MaxPosts = 4
    r1 = r1
    r2 = r2
    Recruit = {r1, r2}
    Recruiter <- RecruitedBy
    Team = Team
    FocusNode = {node}
    Statement = {s1, s2}
    NoStatement = NoStatement
    Price = 1
    MaxCost = 2
    Floor = 0
    MaxEdits = 3
    Member = {b1, b2}
    ProfileId = {1, 2, 3, 4}
    TeamName = {t1, t2, t3}
    TeamLimit = 2
    DirectoryLimit = 1
    DirectoryScan = 2
    Writer = {w1, w2}
    MaxRevision = 3
    MaxJoins = 4
INVARIANTS
    CommonsSound
    ReviewsSound
    SynthesisSound
    RecruitingSound
    DirectorySound
PROPERTY ProofKeepsItsPlace
CHECK_DEADLOCK FALSE
