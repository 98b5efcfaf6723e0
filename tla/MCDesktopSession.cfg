SPECIFICATION LiveSpec
CONSTANTS
    Programs = {"job", "diagnostic"}
    Processes = {1, 2}
    MaxFaults = 1
    Titled = TRUE
    Quiet = TRUE
INVARIANTS
    NothingLeftOpen
    SecretsReachTheirLogin
    RoutineReachesWinThor
PROPERTIES
    ClosesOnlyItsOwn
    SessionEnds
