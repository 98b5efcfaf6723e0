SPECIFICATION Spec
CONSTANTS
    p1 = p1
    p2 = p2
    p3 = p3
    NoPid = NoPid
    NoFile = NoFile
    Processes = {p1, p2, p3}
INVARIANTS
    SettledLockIsRespected
PROPERTIES
    StaleLockIsReclaimed
CHECK_DEADLOCK FALSE
