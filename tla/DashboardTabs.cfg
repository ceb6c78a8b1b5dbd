SPECIFICATION Spec
CONSTANTS
    Tabs = {a, b}
    Startup = {a}
    Unknown = {a}
    Managed = {a, b}
    OwnBar = {b}
    Workers = {w1, w2}
    Panels = {p1, p2}
    MaxVersion = 1
    Empty = {}
    Reconnect = FALSE
    Failures = {malformed}
    Retryable = {}
    None = None
SYMMETRY Interchangeable
CHECK_DEADLOCK TRUE
INVARIANT TabKeysAreSafe
INVARIANT WaitsAreAttended
