SPECIFICATION Spec
CONSTANTS
    Process = {p1, p2, p3}
    NoProcess = NoProcess
    Call = {c1}
    Reader = {r1}
    Retained = 2
    MaxReleases = 0
SYMMETRY Symmetry
INVARIANTS
    NoEndingLost
    CursorSeparates
    NumbersAreDense
    OwedStaysListed
\* Processes end, and a closed conversation starts no more of them.
CHECK_DEADLOCK FALSE
