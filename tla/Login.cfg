SPECIFICATION FairSpec
CONSTANTS
    Logins = {m, c}
    Modal = {m}
    Fixed = {m, c}
    FixedPort = 8765
    MaxQueue = 2
    None = None
CHECK_DEADLOCK FALSE
INVARIANT UserDecides
INVARIANT StopsListening
INVARIANT TokenIsKept
INVARIANT ModalIsUnderWay
PROPERTY LoginEnds
