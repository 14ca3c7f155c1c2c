SPECIFICATION Spec
CONSTANTS
    Capacity = 2
    PollLimit = 3
    MaxEvents = 4
    MaxVersion = 4
    QueueLimit = 2
    MaxFaults = 1
    MaxCrashes = 1
INVARIANTS
    EventsShown
    ReportsAreTrue
PROPERTIES
    AllEventsArrive
    ChildrenAreReached
\* or whose collaborator is closed, may end.
CHECK_DEADLOCK FALSE
