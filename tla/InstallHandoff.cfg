CONSTANTS
    Installs = {g1, g2}
    Content = {}
    Callers = {c1, c2}
    Others = TRUE
    None = None
    MaxFaults = 0
    MaxCrashes = 0
    Shutdowns = FALSE
    ClockSteps = FALSE
    Overlaps = {}
SPECIFICATION FairSpec
CHECK_DEADLOCK FALSE
PROPERTY QueueKeepsMoving
