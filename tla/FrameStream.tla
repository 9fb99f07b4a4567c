----------------------------- MODULE FrameStream -----------------------------
(***************************************************************************)
(* Stream input of a session: FrameDecoder::push (protocol/frame.rs) and   *)
(* Session::receive_bytes, which cut the chunks of a byte stream into      *)
(* frames and dispatch them.                                               *)
(*                                                                         *)
(* A byte is <<i, k>>, the k-th byte of the i-th frame the client sends;   *)
(* only the size field at the head of a frame has a meaning.  A request    *)
(* queues one effect.  A Tversion clears the decoder and replaces the      *)
(* maximum frame size.                                                     *)
(***************************************************************************)
EXTENDS Naturals, Sequences, SequencesExt

CONSTANTS
    Streams,         \* the sequences of frames the client may send
    SizeBytes,       \* width of the size field (4 on the wire)
    HeaderSize,      \* smallest frame (HEADER_SIZE, 7 on the wire)
    HardMaximum,     \* Limits::max_frame_size
    MaximumRetained, \* Limits::max_buffered_input_bytes
    Garbage,         \* the size spelled by bytes that are not a size field
    MaxQueuedEffects,\* Limits::max_queued_effects
    Pipelined,       \* TRUE: the client does not wait for Rversion
    Backpressure     \* TRUE: the host may deliver input to a full session

(* "unknown" is a Tversion whose dialect is not accepted.                  *)
FrameType == [kind : {"version", "unknown", "request"}, size : Nat, msize : Nat]

ASSUME StreamAssumption ==
    /\ Streams \subseteq Seq(FrameType)
    /\ SizeBytes \in Nat \ {0} /\ HeaderSize \in Nat /\ SizeBytes <= HeaderSize
    /\ HardMaximum \in Nat /\ MaximumRetained \in Nat /\ HardMaximum <= MaximumRetained
    /\ Garbage \in Nat /\ MaxQueuedEffects \in Nat
    /\ Pipelined \in BOOLEAN /\ Backpressure \in BOOLEAN

VARIABLES
    stream,     \* the frames the client sends
    position,   \* how many of their bytes were delivered
    retained,   \* FrameDecoder::retained
    active,     \* active_msize()
    queued,     \* effects.len()
    terminal,   \* terminal_reason.is_some()
    dispatched  \* history: the byte strings dispatched, in order

vars == <<stream, position, retained, active, queued, terminal, dispatched>>

FrameBytes(s, i) == [k \in 1..s[i].size |-> <<i, k>>]
Bytes(s) == FlattenSeq([i \in DOMAIN s |-> FrameBytes(s, i)])

Lesser(m, n) == IF m < n THEN m ELSE n
Drop(s, n) == SubSeq(s, n + 1, Len(s))

Init ==
    /\ stream \in Streams
    /\ position = 0 /\ retained = <<>> /\ active = HardMaximum /\ queued = 0
    /\ terminal = FALSE /\ dispatched = <<>>

-----------------------------------------------------------------------------
(* FrameDecoder.                                                           *)

(* The little-endian size field at the head of some bytes.                 *)
Declared(s, bytes) ==
    IF \E i \in DOMAIN s : SubSeq(bytes, 1, SizeBytes) = SubSeq(FrameBytes(s, i), 1, SizeBytes)
    THEN s[bytes[1][1]].size ELSE Garbage

(* Faulty variant: a frame as large as the maximum is refused.             *)
ValidStrict(declared, maximum) == declared >= HeaderSize /\ declared < maximum

(* validate_declared.                                                      *)
Valid(declared, maximum) ==
    declared >= HeaderSize /\ declared <= maximum /\ declared <= MaximumRetained

Decoded(kept, frames) == [ok |-> TRUE, retained |-> kept, frames |-> frames]
DecodeError == [ok |-> FALSE, retained |-> <<>>, frames |-> <<>>]

(* Move bytes from the input until `kept` has n of them.                   *)
Fill(kept, input, n) ==
    LET moved == IF n < Len(kept) THEN 0 ELSE Lesser(n - Len(kept), Len(input))
    IN  [kept |-> kept \o SubSeq(input, 1, moved), input |-> Drop(input, moved)]

RECURSIVE Scan(_, _, _, _, _)

(* The loop of push.  Since a declared size never exceeds MaximumRetained, *)
(* the overflow check in retain does not fire.                             *)
Scan(s, kept, input, frames, maximum) ==
    IF input = <<>> THEN Decoded(kept, frames)
    ELSE IF kept = <<>> /\ Len(input) >= SizeBytes
    THEN LET size == Declared(s, input)
         IN  IF ~Valid(size, maximum) THEN DecodeError
             ELSE IF Len(input) < size THEN Decoded(input, frames)
             ELSE Scan(s, <<>>, Drop(input, size), Append(frames, SubSeq(input, 1, size)), maximum)
    ELSE LET header == Fill(kept, input, SizeBytes)
             size == Declared(s, header.kept)
             body == Fill(header.kept, header.input, size)
         IN  IF Len(header.kept) < SizeBytes THEN Decoded(header.kept, frames)
             ELSE IF ~Valid(size, maximum) THEN DecodeError
             ELSE IF Len(body.kept) < size THEN Decoded(body.kept, frames)
             ELSE Scan(s, <<>>, body.input, Append(frames, body.kept), maximum)

(* Faulty variant: the tail of the previous chunk is thrown away.          *)
PushFresh(s, kept, input, maximum) == Scan(s, <<>>, input, <<>>, Lesser(HardMaximum, maximum))

Push(s, kept, input, maximum) == Scan(s, kept, input, <<>>, Lesser(HardMaximum, maximum))

-----------------------------------------------------------------------------
(* Session.                                                                *)

Negotiations == {"version", "unknown"}
Whole(s, frame) == \E i \in DOMAIN s : frame = FrameBytes(s, i)

(* receive_decoded_frame: a frame that does not decode (one cut at the     *)
(* wrong place never does), or is larger than the msize now in force,      *)
(* terminates the session; Tversion resets the decoder; a reply that does  *)
(* not fit in the queue is an error.                                       *)
DispatchFrame(s, st, frame) ==
    LET request == s[frame[1][1]]
        full == st.queued = MaxQueuedEffects
        next == [st EXCEPT !.error = full, !.dispatched = Append(@, frame),
                           !.queued = IF full THEN @ ELSE @ + 1]
    IN  IF ~Whole(s, frame) \/ Len(frame) > st.active
        THEN [st EXCEPT !.error = TRUE, !.terminal = TRUE, !.retained = <<>>]
        ELSE IF request.kind \in Negotiations
        THEN [next EXCEPT !.retained = <<>>,
                          !.active = IF request.kind = "version"
                                     THEN Lesser(request.msize, HardMaximum) ELSE HardMaximum]
        ELSE next

RECURSIVE DispatchAll(_, _, _)

(* The loop of receive_bytes: the first error leaves it.                   *)
DispatchAll(s, st, frames) ==
    IF frames = <<>> \/ st.error \/ st.terminal THEN st
    ELSE DispatchAll(s, DispatchFrame(s, st, Head(frames)), Tail(frames))

(* What the client may have sent: all of it, or nothing past a Tversion    *)
(* that is still unanswered.                                               *)
Available ==
    LET total == Len(Bytes(stream))
        sentBy(i) == Len(Bytes(SubSeq(stream, 1, i)))
        barriers == {sentBy(i) : i \in {j \in DOMAIN stream : stream[j].kind \in Negotiations}}
    IN  IF Pipelined THEN total
        ELSE LET ahead == {b \in barriers : b > position} \cup {total}
             IN  CHOOSE b \in ahead : \A c \in ahead : b <= c

ReceiveBytes ==
    /\ ~terminal
    /\ Backpressure \/ queued = 0
    /\ Pipelined \/ queued = 0
    /\ \E n \in 1..(Available - position) :
          LET input == SubSeq(Bytes(stream), position + 1, position + n)
              result == Push(stream, retained, input, active)
              start == [retained |-> result.retained, active |-> active, queued |-> queued,
                        error |-> FALSE, terminal |-> ~result.ok, dispatched |-> dispatched]
              after == DispatchAll(stream, start, result.frames)
          IN  /\ Backpressure \/ Len(result.frames) <= MaxQueuedEffects
              /\ position' = position + n
              /\ retained' = after.retained
              /\ active' = after.active
              /\ queued' = after.queued
              /\ terminal' = after.terminal
              /\ dispatched' = after.dispatched
    /\ UNCHANGED stream

(* The host sends one queued effect.                                       *)
PollEffect ==
    /\ queued > 0
    /\ queued' = queued - 1
    /\ UNCHANGED <<stream, position, retained, active, terminal, dispatched>>

Next == ReceiveBytes \/ PollEffect

Spec == Init /\ [][Next]_vars

-----------------------------------------------------------------------------
(* Properties.                                                             *)

Complete(s, n) == {i \in DOMAIN s : Len(Bytes(SubSeq(s, 1, i))) <= n}

(* "dispatches each complete frame exactly once": while the session is     *)
(* active, what it has dispatched is exactly the frames that were          *)
(* delivered in full, in order, however the stream was cut into chunks.    *)
EachFrameOnce ==
    ~terminal => dispatched = [i \in Complete(stream, position) |-> FrameBytes(stream, i)]

(* "the decoder retains only the bounded incomplete tail": what is kept    *)
(* between chunks is the delivered part of the next frame and nothing of   *)
(* the frames already dispatched.                                          *)
RetainsTailOnly ==
    ~terminal =>
        LET consumed == Len(Bytes(SubSeq(stream, 1, Len(dispatched))))
        IN  /\ Len(retained) < Lesser(HardMaximum, MaximumRetained) + SizeBytes
            /\ retained = SubSeq(Bytes(stream), consumed + 1, position)

(* A well-formed stream within the limits never terminates the session.    *)
WellFormedAccepted ==
    (\A i \in DOMAIN stream : stream[i].size \in HeaderSize..HardMaximum
        /\ \A j \in 1..(i - 1) : stream[j].kind = "version" => stream[i].size <= stream[j].msize)
    => ~terminal

=============================================================================
