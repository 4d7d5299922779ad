CONSTANTS
    Jobs = {j1, j2}
    Requests <- CancelRequests
    Limits <- MCLimits
    UnitBytes = 2
    MaxCancels = 1
    Drains = FALSE
SPECIFICATION FairSpec
CHECK_DEADLOCK FALSE
PROPERTY CancelReachesQueued
