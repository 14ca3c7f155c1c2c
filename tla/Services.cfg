SPECIFICATION Spec
CONSTANTS
    Request = {post, get}
    Safe = {get}
    Adapter = {a1, a2}
    NoAdapter = NoAdapter
    NoRequest = NoRequest
    MaxIdle = 1
    StaleRetries = 1
    MaxBroken = 1
    Sample = {s1, s2}
    NoSample = NoSample
    NoWire = NoWire
    MaxUnread = 1
    EmptyLimit = 2
    Query = {q1, q2}
    Entry = {e1}
    NoEntry = NoEntry
    NoQuery = NoQuery
    Text = {t1, t2}
    NoText = NoText
    Fingerprint = {f1}
    Off = Off
    MaxFailures = 2
    MaxUser = 2
INVARIANTS
    RepeatedSafely
    ReusedClean
    OneAnswer
    InstancesAreTrue
PROPERTIES
    NeverStale
    CallsReturn
    RetiredSoon
\* Every request may have returned.
CHECK_DEADLOCK FALSE
