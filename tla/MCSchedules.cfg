SPECIFICATION Spec
CONSTANTS
    p1 = p1
    p2 = p2
    e1 = e1
    s1 = s1
    s2 = s2
    NoSchedule = NoSchedule
    Processes = {p1, p2}
    Editors = {e1}
    EditKinds = {"create", "rename", "cron", "enable", "disable", "trigger"}
    Schedules = {s1}
    Periods = {1, 2}
    ListLimit = 1
    Unstable = TRUE
    MaxClock = 2
    MaxManual = 1
SYMMETRY Symmetry
INVARIANTS
    OneRunPerOccurrence
    LastRunExists
