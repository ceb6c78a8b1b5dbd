SPECIFICATION FairSpec
CONSTANTS
    Ids = {x}
    Workers = {w1, w2, w3}
    Refreshable = {x}
    Rotating = {x}
    PerEntry = TRUE
    Outsiders = TRUE
    Faults = TRUE
    MaxToken = 4
    None = None
CHECK_DEADLOCK FALSE
INVARIANT NeverReplays
INVARIANT StoredIsLive
INVARIANT RefreshedOnce
INVARIANT StaysRemoved
PROPERTY EveryCallEnds
