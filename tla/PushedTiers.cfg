SPECIFICATION MCSpec
CONSTANTS
    N = 2
    Workers = {w1, w2}
    Failing = {1}
    None = None
CHECK_DEADLOCK TRUE
INVARIANT RecordIsEvidence
PROPERTY LearnedIsKept
PROPERTY PushIsFound
