SPECIFICATION Spec
CONSTANTS
    a1 = a1
    a2 = a2
    Agents = {a1, a2}
    NoAgent = NoAgent
    Runs = {1, 2}
    Length <- MCLength
    CandidateLimit = 1
    MaxFaults = 2
INVARIANTS
    TypeOK
PROPERTIES
    EveryRunEnds
    OrphansAreReclaimed
