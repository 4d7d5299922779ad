CONSTANTS
    Requests = {r1, r2, r3}
    None = None
    Drain = Drain
SPECIFICATION FairSpec
CHECK_DEADLOCK FALSE
INVARIANTS ReportIsTrue EffectsOwned DrainLeavesNothing
PROPERTIES DrainSettles
