SPECIFICATION Spec
CONSTANTS
    Devices = {r1, r2}
    NoPeer = NoPeer
    QueueSize = 4
    MaxStats = 1
    MaxOpens = 3
    MaxSyncs = 2
    MaxResends = 1
    MaxLosses = 1
    MaxFaults = 1
SYMMETRY Symmetry
CONSTRAINT FewMishaps
INVARIANTS
    TypeOK
    SyncedIsMutual
PROPERTIES
    RecordsOnlyAdvance
CHECK_DEADLOCK FALSE
