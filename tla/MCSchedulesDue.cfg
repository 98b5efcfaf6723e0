SPECIFICATION LiveSpec
CONSTANTS
    p1 = p1
    p2 = p2
    e1 = e1
    s1 = s1
    s2 = s2
    NoSchedule = NoSchedule
    Processes = {p1, p2}
    Editors = {}
    EditKinds = {}
    Schedules = {s1, s2}
    Periods = {1, 2}
    ListLimit = 1
    Unstable = FALSE
    MaxClock = 3
    MaxManual = 0
INVARIANTS
    NoOccurrenceSkipped
PROPERTIES
    DispatchedWhileActive
    OccurrencesAreRun
