CONSTANTS
    Streams <- ValidStreams
    SizeBytes = 2
    HeaderSize = 3
    HardMaximum = 5
    MaximumRetained = 5
    Garbage = 0
    MaxQueuedEffects = 3
    Pipelined = TRUE
    Backpressure = FALSE
SPECIFICATION Spec
CHECK_DEADLOCK FALSE
INVARIANT EachFrameOnce
