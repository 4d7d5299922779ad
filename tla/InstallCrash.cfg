CONSTANTS
    Installs = {i1, i2}
    Content = {i1, i2}
    Callers = {c1}
    Others = FALSE
    None = None
    MaxFaults = 0
    MaxCrashes = 1
    Shutdowns = FALSE
    ClockSteps = TRUE
    Overlaps = {}
SPECIFICATION FairSpec
CHECK_DEADLOCK FALSE
INVARIANTS TypeOK  OrderSurvives OutcomeHonest
PROPERTY QueueMovesAlone
