SPECIFICATION Spec
CONSTANTS
    Ids = {x, y}
    Commands = {c1, c2}
    Ui = ui
    Overlap = FALSE
    Faults = TRUE
    None = None
SYMMETRY Interchangeable
CHECK_DEADLOCK TRUE
INVARIANT TokenAndTabGoTogether
INVARIANT RemovedStaysRemoved
INVARIANT TabsShownAreConfigured
