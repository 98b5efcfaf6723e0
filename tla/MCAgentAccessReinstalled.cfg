SPECIFICATION Spec
CONSTANTS
    a1 = a1
    a2 = a2
    m1 = m1
    m2 = m2
    r1 = r1
    r2 = r2
    e1 = e1
    e2 = e2
    NoAgent = NoAgent
    NoMachine = NoMachine
    Agents = {a1}
    Machines = {m1, m2}
    Requests = {r1}
    Editors = {}
    MaxCodes = 2
    MaxTokens = 2
    MaxFaults = 0
    Careful = FALSE
SYMMETRY Symmetry
INVARIANTS
    SeenFromThisInstallation
