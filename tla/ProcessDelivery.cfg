SPECIFICATION FairDeliverySpec
CONSTANTS
    Process = {p1, p2}
    NoProcess = NoProcess
    Call = {c1}
    Reader = {}
    Retained = 1
    MaxReleases = 0
INVARIANTS
    NewsIsKept
PROPERTIES
    NewsRefined
    EndingReachesModel
\* Processes end, and a closed conversation starts no more of them.
CHECK_DEADLOCK FALSE
