CONSTANTS
    Installs = {i1}
    Content = {i1}
    Callers = {c1, c2}
    Others = FALSE
    None = None
    MaxFaults = 0
    MaxCrashes = 0
    Shutdowns = FALSE
    ClockSteps = FALSE
    Overlaps = {"claim"}
SPECIFICATION Spec
CHECK_DEADLOCK FALSE
PROPERTY TerminalIsFinal
