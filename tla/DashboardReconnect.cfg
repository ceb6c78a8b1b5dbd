SPECIFICATION Spec
CONSTANTS
    Tabs = {a}
    Startup = {a}
    Unknown = {}
    Managed = {a}
    OwnBar = {}
    Workers = {w1, w2}
    Panels = {p1, p2}
    MaxVersion = 1
    Empty = {}
    Reconnect = TRUE
    Failures = {unavailable, malformed}
    Retryable = {unavailable}
    None = None
SYMMETRY Interchangeable
CHECK_DEADLOCK TRUE
INVARIANT LoadingIsAttended
