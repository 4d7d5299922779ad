CONSTANTS
    Jobs = {j1, j2}
    Requests <- AllRequests
    Limits <- MCLimits
    UnitBytes = 2
    MaxCancels = 1
    Drains = TRUE
SPECIFICATION WorkingSpec
CHECK_DEADLOCK FALSE
INVARIANTS TypeOK PhysicalBound CancelledNeverRan DrainedIsQuiet
PROPERTIES DrainReturns AdmissionServed
