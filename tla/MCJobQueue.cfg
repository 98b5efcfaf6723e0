SPECIFICATION Spec
CONSTANTS
    a1 = a1
    a2 = a2
    b1 = b1
    r1 = r1
    s1 = s1
    s2 = s2
    i1 = i1
    i2 = i2
    h1 = h1
    h2 = h2
    NoAgent = NoAgent
    Agents = {a1, a2, b1}
    Runs = {r1}
    Steps = {s1, s2}
    RunOf <- MCRunOf
    SequenceNumber <- MCSequenceNumber
    AgentInstance <- MCAgentInstance
    RunInstance <- MCRunInstance
    Handlers = {h1, h2}
    LeaseTime = 1
    CandidateLimit = 2
    MaxClock = 2
    MaxAttempts = 2
SYMMETRY Symmetry
INVARIANTS
    SequentialExecution
    RunMatchesSteps
    RunsCanProceed
PROPERTIES
    LiveClaimsAreKept
    OutcomesAreFinal
    ImplementsSequentialRuns
