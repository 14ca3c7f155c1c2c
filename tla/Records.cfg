SPECIFICATION RecordsSpec
CONSTANTS
    a = a
    b = b
    null = null
    x = x
    y = y
    q1 = q1
    q2 = q2
    f1 = f1
    f2 = f2
    Item <- Items
    State <- Saved
    Atom <- Atoms
    Character <- Characters
    Key <- Keys
    Missing = Missing
    Depth = 2
    NoDocument = NoDocument
    NoPosition = NoPosition
    NoRecord = NoRecord
    MaxHistory = 2
    MaxRecords = 3
    RemoteCall = {q1, q2}
    Form = {f1, f2}
    Client = {1, 2, 3}
    Noone = Noone
    NoClient = 0
    Endpoint = {1, 2}
    Registration = {1}
    MaxGrants = 3
    MaxEdits = 2
    Bounds <- MCBounds
SYMMETRY MCSymmetry
INVARIANTS
    GrantsAreKept
    CallsAreTrue
PROPERTIES
    NothingIsCut
    Stores
\* A session that crashes before its first save leaves nothing to open,
\* and every call and form may be done.
CHECK_DEADLOCK FALSE
