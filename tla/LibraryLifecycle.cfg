CONSTANTS
    Ops = {o1, o2}
    Switchers = {s1}
    Closers = {c1}
    MaxGen = 2
    MaxRevision = 2
SPECIFICATION FairSpec
INVARIANTS PinnedRootUsable OpenIsUsable NeverStranded TransferAfterRetirement
PROPERTIES ClosureIsFinal WaitReturns
