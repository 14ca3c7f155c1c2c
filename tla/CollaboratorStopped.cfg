SPECIFICATION CollaboratorSpec
CONSTANTS
    MaxVersion = 2
    QueueLimit = 8
    MaxFaults = 0
    MaxCrashes = 0
INVARIANTS
    StopIsKept
CHECK_DEADLOCK FALSE
