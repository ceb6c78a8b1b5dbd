SPECIFICATION MCSpec
CONSTANTS
    Writers = {w1, w2}
    Readers = {r1}
    Values = {a, b}
    Inodes = {i1, i2, i3, i4, i5}
    None = None
    Partial = Partial
    Locked = TRUE
    Faults = TRUE
SYMMETRY Interchangeable
CHECK_DEADLOCK TRUE
INVARIANT NeverTorn
INVARIANT UnlockedTornOnlyWhileWriting
PROPERTY ImplementsAtomicFile
