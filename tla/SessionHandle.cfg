SPECIFICATION HandleSpec
CONSTANTS
    Prompt = {p1, p2}
    MaxMessages = 3
    MaxFaults = 1
SYMMETRY Symmetry
INVARIANTS
    SavedIsTrue
    InputIsKept
\* The user may stop writing.
CHECK_DEADLOCK FALSE
