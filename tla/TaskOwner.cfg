SPECIFICATION FairSpec
CONSTANTS
    Tasks = {t1, t2}
    Capacity = 1
    Closers = {w1}
    Clients = {c1}
INVARIANTS GuardsOutliveWork GuardsWithinCapacity ReceiptMeansReleased NoLostSlot
PROPERTIES ShutdownReturns
