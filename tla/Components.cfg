SPECIFICATION Spec
CONSTANTS
    r1 = r1
    r2 = r2
    e1 = e1
    m1 = m1
    m2 = m2
    x = x
    y = y
    c1 = c1
    c2 = c2
    c3 = c3
    v1 = v1
    v2 = v2
    a = a
    b = b
    k1 = k1
    k2 = k2
    k3 = k3
    s1 = s1
    s2 = s2
    Path = {1, 2}
    File = {x, y}
    NoState = NoState
    Process = {m1, m2}
    NoProcess = NoProcess
    Restorer = {r1, r2}
    Editor = {e1}
    ProcessOf <- MCProcessOf
    Live <- MCLive
    Saved <- MCSaved
    Foreign = {"private", "absent"}
    MaxOutside = 1
    Claimant = {c1, c2, c3}
    Archive = {v1, v2}
    ArchiveOf <- MCArchiveOf
    MaxFree = 2
    CallId = {a, b}
    Rounds <- MCRounds
    Reply = {yes, dismissed}
    NoReply = NoReply
    NoCall = NoCall
    MaxRounds = 2
    MaxRuns = 3
    Asker = {k1, k2}
    Owner = {k3}
    Session = {s1, s2}
    SessionOf <- MCSessionOf
    NoCaller = NoCaller
    MaxTokens = 3
SYMMETRY MCSymmetry
INVARIANTS
    UndoFits
    NobodyWaitsInACircle
    EstimateIsSound
    ResultsAreHonest
    RefusedOnlyIfLost
PROPERTIES
    OverwritesSaved
    AnsweredOnce
    GivenIsStored
\* Every call may have returned.
CHECK_DEADLOCK FALSE
