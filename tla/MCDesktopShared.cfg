SPECIFICATION LiveSpec
CONSTANTS
    Programs = {"job"}
    Processes = {1, 2}
    MaxFaults = 1
    Titled = FALSE
    Quiet = FALSE
PROPERTIES
    ClosesOnlyItsOwn
