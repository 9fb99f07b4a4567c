CONSTANTS
    t1 = t1
    t2 = t2
    f1 = f1
    f2 = f2
    Tags = {t1, t2}
    Fids = {f1, f2}
    Requests <- HandleRequests
    MaxInFlightTags = 2
    MaxFids = 2
    MaxQueuedEffects = 2
    MaxPendingWriteBytes = 2
    MaxOperationId = 20
    MaxRequests = 6
SPECIFICATION Spec
SYMMETRY Symmetry
INVARIANTS
    NoHandleLost

