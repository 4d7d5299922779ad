CHECK_DEADLOCK FALSE
SPECIFICATION FairSpec
CONSTANTS
    Publishers = {p1, p2}
    Observers = {o1, o2}
    Values = {v1, v2}
    InitialValue = v1
    MaxRevision = 4
INVARIANTS
    ViewsAreCurrent
PROPERTIES
    RevisionsAdvance
    TerminalDelivered
