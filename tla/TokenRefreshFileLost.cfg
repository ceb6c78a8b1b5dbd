SPECIFICATION Spec
CONSTANTS
    Ids = {x, y}
    Workers = {w1, w2, w3}
    Refreshable = {x, y}
    Rotating = {x, y}
    PerEntry = FALSE
    Outsiders = FALSE
    Faults = FALSE
    MaxToken = 3
    None = None
SYMMETRY WorkersAreAlike
CHECK_DEADLOCK FALSE
INVARIANT NeverReplays
