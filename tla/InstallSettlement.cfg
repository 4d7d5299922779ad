CONSTANTS
    HasBase = TRUE
    MaxPublications = 3
    MaxFaults = 3
    MaxCrashes = 2
SPECIFICATION FairSpec
CHECK_DEADLOCK FALSE
INVARIANTS PublicationsAccounted ReadyIsAcknowledged OutcomeIsTrue
PROPERTIES Settles
