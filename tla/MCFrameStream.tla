--------------------------- MODULE MCFrameStream ---------------------------
(* Short streams of frames with a two-byte size field.                     *)
EXTENDS FrameStream

Version(size, msize) == [kind |-> "version", size |-> size, msize |-> msize]
Unknown(size) == [kind |-> "unknown", size |-> size, msize |-> 4]
Request(size) == [kind |-> "request", size |-> size, msize |-> 0]

Frames == {Version(4, 5), Version(3, 4), Unknown(3)} \cup {Request(n) : n \in 2..6}
ShortStreams == {<<a, b, c>> : a \in Frames, b \in Frames, c \in Frames}

ValidFrames == {Version(4, 5), Version(3, 4)} \cup {Request(n) : n \in 3..4}
ValidStreams == {<<a, b, c>> : a \in ValidFrames, b \in ValidFrames, c \in ValidFrames}
=============================================================================
