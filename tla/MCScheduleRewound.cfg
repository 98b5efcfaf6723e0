SPECIFICATION LiveSpec
CONSTANTS
    p1 = p1
    p2 = p2
    e1 = e1
    s1 = s1
    s2 = s2
    NoSchedule = NoSchedule
    Processes = {p1, p2}
    Editors = {e1}
    EditKinds = {"rename"}
    Schedules = {s1}
    Periods = {1}
    ListLimit = 1
    Unstable = FALSE
    MaxClock = 2
    MaxManual = 0
PROPERTIES
    OccurrencesAreRun
