SPECIFICATION FleetSpec
CONSTANTS
    a1 = a1
    a2 = a2
    r1 = r1
    s1 = s1
    s2 = s2
    i1 = i1
    h1 = h1
    h2 = h2
    NoAgent = NoAgent
    NoHandler = NoHandler
    NoStep = NoStep
    Agents = {a1, a2}
    Runs = {r1}
    Steps = {s1, s2}
    RunOf <- MCRunOf
    SequenceNumber <- MCSequenceNumber
    AgentInstance <- MCAgentInstance
    RunInstance <- MCRunInstance
    Handlers = {h1}
    LeaseTime = 1
    HeartbeatInterval = 1
    RequestTimeout = 1
    CandidateLimit = 2
    MaxClock = 1
    MaxAttempts = 2
    Punctual = FALSE
    MaxLate = 1
SYMMETRY Symmetry
INVARIANTS
    WorkIsInOrder
