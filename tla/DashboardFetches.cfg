SPECIFICATION FairSpec
CONSTANTS
    Tabs = {a}
    Startup = {a}
    Unknown = {}
    Managed = {a}
    OwnBar = {}
    Workers = {w1, w2}
    Panels = {p1}
    MaxVersion = 2
    Empty = {2}
    Reconnect = FALSE
    Failures = {unavailable, malformed}
    Retryable = {unavailable}
    None = None
CHECK_DEADLOCK TRUE
INVARIANT PanelIsHonest
PROPERTY RewindsOnlyWhenCrossed
PROPERTY WaitsEnd
