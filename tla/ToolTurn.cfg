SPECIFICATION FairSpec
CONSTANTS
    Calls = 3
    MaxParallel = 2
    MaxFaults = 2
    MaxCrashes = 1
INVARIANTS
    AnsweredInOrder
    AlwaysValid
PROPERTIES
    HonestOutcomes
    TurnEnds
\* The turn ends.
CHECK_DEADLOCK FALSE
