SPECIFICATION FairSpec
CONSTANTS
    Process = {p1}
    NoProcess = NoProcess
    Call = {c1, c2}
    Reader = {r1}
    Retained = 1
    MaxReleases = 1
INVARIANTS
    TypeOK
    WaitersCounted
PROPERTIES
    EndingsStay
    WaitsReturn
\* Processes end, and a closed conversation starts no more of them.
CHECK_DEADLOCK FALSE
