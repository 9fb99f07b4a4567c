CONSTANTS
    t1 = t1
    f1 = f1
    Tags = {t1}
    Fids = {f1}
    Requests <- FlushRequests
    MaxInFlightTags = 1
    MaxFids = 1
    MaxQueuedEffects = 2
    MaxPendingWriteBytes = 2
    MaxOperationId = 20
    MaxRequests = 6
SPECIFICATION Spec
INVARIANTS
    OutstandingWorkBounded

