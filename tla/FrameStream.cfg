CONSTANTS
    Streams <- ShortStreams
    SizeBytes = 2
    HeaderSize = 3
    HardMaximum = 5
    MaximumRetained = 5
    Garbage = 0
    MaxQueuedEffects = 3
    Pipelined = FALSE
    Backpressure = FALSE
SPECIFICATION Spec
CHECK_DEADLOCK FALSE
INVARIANTS
    EachFrameOnce
    RetainsTailOnly
    WellFormedAccepted
