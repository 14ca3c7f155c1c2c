SPECIFICATION Spec
CONSTANTS
    a = a
    b = b
    null = null
    x = x
    y = y
    Item <- Items
    State <- Saved
    Atom <- Atoms
    Character <- Characters
    Key <- Keys
    Missing = Missing
    Depth = 2
    NoDocument = NoDocument
    NoPosition = NoPosition
    NoRecord = NoRecord
    MaxHistory = 2
    MaxRecords = 3
PROPERTY SavedIsReplayed
\* A session that crashes before its first save leaves nothing to open.
CHECK_DEADLOCK FALSE
