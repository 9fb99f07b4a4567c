CONSTANTS
    t1 = t1
    t2 = t2
    t3 = t3
    f1 = f1
    f2 = f2
    Tags = {t1, t2, t3}
    Fids = {f1, f2}
    Requests <- FlushRequests
    MaxInFlightTags = 3
    MaxFids = 2
    MaxQueuedEffects = 2
    MaxPendingWriteBytes = 2
    MaxOperationId = 20
    MaxRequests = 5
SPECIFICATION Spec
SYMMETRY Symmetry
INVARIANTS
    IndexesAgree
    OperationsTracked
    FlushForest
    FlushedNeverAnswered
    RflushAfterTarget
    RepliesWellOrdered
    CancelFollowsOperation

