SPECIFICATION Spec
CONSTANTS
    Leases = {l1, l2, l3}
    Targets = {t1, bad}
    Artifacts = {a1, a2}
    Invalid = {bad}
    MaxKeys = 2
    MaxRequest = 3
    MaxReaders = 2
    MaxClones = 2
SYMMETRY Symmetry
INVARIANTS
    MutualExclusion
PROPERTIES
    ImplementsLeaseTable
