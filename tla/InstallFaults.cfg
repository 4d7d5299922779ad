CONSTANTS
    Installs = {g1}
    Content = {}
    Callers = {c1}
    Others = TRUE
    None = None
    MaxFaults = 2
    MaxCrashes = 0
    Shutdowns = TRUE
    ClockSteps = TRUE
    Overlaps = {"join", "retain"}
SPECIFICATION FairSpec
CHECK_DEADLOCK FALSE
INVARIANTS  EffectsFenced ReleasedIsQuiet OutcomeHonest
PROPERTY ObserversJoin
