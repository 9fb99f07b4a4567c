------------------------------ MODULE Session ------------------------------
(***************************************************************************)
(* One Sans-I/O 9P2000.L session (crates/w9pt/src/session): tags, fids,    *)
(* operation identifiers, Tflush, Tversion resets, resource accounting and *)
(* the explicit close/drain protocol.                                      *)
(*                                                                         *)
(* The peers of the session are part of the specification: a client that   *)
(* sends any frame of Requests at any time, and a host that polls effects, *)
(* executes operations in any order and reports exactly one terminal       *)
(* result for each (the obligation stated in effect.rs).                   *)
(*                                                                         *)
(* Data is abstracted: names, qids, attributes and payloads are left out.  *)
(* A check on such data (a capability, ENOTDIR, EXDEV, a bad offset) is a  *)
(* choice of the handler between Refuse and going on.  A handle granted by *)
(* the backend is named by the operation that granted it, and 0 is "none". *)
(***************************************************************************)
EXTENDS Naturals, FiniteSets, Sequences, Functions

CONSTANTS
    Tags,                 \* client tags, NOTAG excluded
    Fids,                 \* fid numbers, NOFID excluded
    Requests,             \* the frames the client may send
    MaxInFlightTags,      \* Limits::max_in_flight_tags
    MaxFids,              \* Limits::max_fids
    MaxQueuedEffects,     \* Limits::max_queued_effects
    MaxPendingWriteBytes, \* Limits::max_pending_write_bytes
    MaxOperationId,       \* last value of OperationIdAllocator (u64::MAX)
    MaxRequests           \* bound: frames the client sends in a behaviour

NoFid == 0
NOTAG == 0

Kinds == {"version", "auth", "attach", "flush", "clone", "walk", "open",
          "xattrwalk", "xattrcreate", "read", "write", "file", "attr",
          "namespace", "clunk", "remove"}

(* A decoded request: kind, tag, the fid it names, the second fid it names *)
(* (afid, newfid), the tag to flush, and one number n: bytes to write,     *)
(* xattr size, or 1/0 for a supported/unknown dialect in Tversion.         *)
RequestType == [kind : Kinds, tag : Tags \cup {NOTAG}, fid : Fids \cup {NoFid},
                other : Fids \cup {NoFid}, old : Tags \cup {NOTAG}, n : Nat]

ASSUME SessionAssumption ==
    /\ NoFid \notin Fids /\ NOTAG \notin Tags
    /\ IsFiniteSet(Tags) /\ IsFiniteSet(Fids)
    /\ Requests \subseteq RequestType
    /\ MaxInFlightTags \in Nat \ {0} /\ MaxFids \in Nat \ {0}
    /\ MaxQueuedEffects \in Nat \ {0} /\ MaxPendingWriteBytes \in Nat \ {0}
    /\ MaxOperationId \in Nat \ {0} /\ MaxRequests \in Nat

VARIABLES
    negotiated,     \* negotiated_msize.is_some()
    effects,        \* effects: replies, operations and cancellations
    inFlightTags,   \* accounting.in_flight_tags
    fidCount,       \* accounting.fids
    writeBytes,     \* accounting.pending_write_bytes
    nextOp,         \* operation_ids; last_issued_operation_id is nextOp - 1
    pending,        \* pending_by_tag
    flushes,        \* flushes
    tagOf,          \* tag_by_operation
    abandoned,      \* abandoned_operations
    fids,           \* fids
    cleanup,        \* cleanup: batches, each in the order of a HashMap walk
    cleanupStarted, \* cleanup_started
    terminal,       \* terminal_reason.is_some()
    delivered,      \* terminal_effect_delivered
    host,           \* operations polled by the host and not yet completed
    received,       \* history: frames received; also names the requests
    answered,       \* history: replies queued, in order
    flushed,        \* history: <<request, flush>> pairs of accepted flushes
    granted,        \* history: handles delivered to the session
    consumed,       \* history: handles some emitted operation gave back
    dropped,        \* history: handles the session held and forgot
    discarded       \* history: handles granted to abandoned operations

tagVars == <<pending, flushes, tagOf, inFlightTags, writeBytes>>
fidVars == <<fids, fidCount>>
lifeVars == <<cleanupStarted, terminal, delivered>>
handleVars == <<granted, consumed, dropped, discarded>>
vars == <<negotiated, effects, nextOp, abandoned, cleanup, host, received,
          answered, flushed, tagVars, fidVars, lifeVars, handleVars>>

-----------------------------------------------------------------------------
(* Values.                                                                 *)

FidState == [kind : {"Gone", "Pending", "Auth", "Object"}, auth : Nat,
             open : Nat, xattr : Nat, mode : {"none", "read", "write"},
             left : Nat]

BareFid(kind) == [kind |-> kind, auth |-> 0, open |-> 0, xattr |-> 0,
                  mode |-> "none", left |-> 0]
Gone == BareFid("Gone")          \* a rollback to Gone retires the fid
PendingFid == BareFid("Pending")
ObjectFid == BareFid("Object")

Handles(st) == {st.auth, st.open, st.xattr} \ {0}

ContKinds == {"Auth", "Attach", "Walk", "Open", "XattrWalk", "XattrCreate",
              "XattrWrite", "Release", "NoState"}
Granting == {"Auth", "Open", "XattrWalk", "XattrCreate"}

Continuation ==
    {c \in [kind : ContKinds, fid : Fids \cup {NoFid}, original : FidState, n : Nat] :
        c.kind = "NoState" <=> c.fid = NoFid}
PendingOperation == [op : Nat, cont : Continuation, suppressed : BOOLEAN,
                     cancelled : BOOLEAN, waiters : Seq(Tags), bytes : Nat,
                     rid : Nat]
FlushState == [suppressed : BOOLEAN, waiters : Seq(Tags), rid : Nat]

Reply(rid, tag, body) == [type |-> "reply", rid |-> rid, tag |-> tag,
                          body |-> body, op |-> 0, grants |-> FALSE]
Operation(op, kind) == [type |-> "operation", rid |-> 0, tag |-> NOTAG,
                        body |-> "none", op |-> op, grants |-> kind \in Granting]
Cancel(op) == [type |-> "cancel", rid |-> 0, tag |-> NOTAG,
               body |-> "none", op |-> op, grants |-> FALSE]
Effect == [type : {"reply", "operation", "cancel"}, rid : Nat,
           tag : Tags \cup {NOTAG}, body : {"none", "result", "flush", "version"},
           op : Nat, grants : BOOLEAN]

CancelAction(op) == [type |-> "cancel", op |-> op, fid |-> NoFid, handles |-> {}]
ReleaseAction(f, st) == [type |-> "release", op |-> 0, fid |-> f, handles |-> Handles(st)]
CleanupAction == [type : {"cancel", "release"}, op : Nat,
                  fid : Fids \cup {NoFid}, handles : SUBSET Nat]

Empty == [x \in {} |-> x]
Put(f, k, v) == [x \in DOMAIN f \cup {k} |-> IF x = k THEN v ELSE f[x]]
Without(f, S) == [x \in DOMAIN f \ S |-> f[x]]

(* Accounting::release is a saturating subtraction.                        *)
Release(used, n) == IF n < used THEN used - n ELSE 0

(* The bytes held by a set of pending writes, as the size of a disjoint    *)
(* union: one element per pending byte.                                    *)
BytesOf(p) == Cardinality(UNION {{t} \X (1..p[t].bytes) : t \in DOMAIN p})

Batch(S) == IF S = {} THEN <<>> ELSE <<S>>

-----------------------------------------------------------------------------
Init ==
    /\ negotiated = FALSE
    /\ effects = <<>>
    /\ inFlightTags = 0 /\ fidCount = 0 /\ writeBytes = 0
    /\ nextOp = 1
    /\ pending = Empty /\ flushes = Empty /\ tagOf = Empty
    /\ abandoned = {}
    /\ fids = Empty
    /\ cleanup = <<>>
    /\ cleanupStarted = FALSE /\ terminal = FALSE /\ delivered = FALSE
    /\ host = Empty
    /\ received = 0 /\ answered = <<>> /\ flushed = {}
    /\ granted = {} /\ consumed = {} /\ dropped = {} /\ discarded = {}

-----------------------------------------------------------------------------
(* Cleanup.                                                                *)

Cancels(p) == {CancelAction(p[t].op) : t \in DOMAIN p}
Uncancelled(p) == Restrict(p, {t \in DOMAIN p : ~p[t].cancelled})

(* drain_fids_to_cleanup: one release per Auth or Object fid; a fid in     *)
(* transition belongs to its operation and is only forgotten.              *)
Releases(table) ==
    {ReleaseAction(f, table[f]) : f \in {g \in DOMAIN table : table[g].kind # "Pending"}}

SuppressPending(p) ==
    [t \in DOMAIN p |-> [p[t] EXCEPT !.suppressed = TRUE, !.cancelled = TRUE]]
SuppressFlushes(w) == [t \in DOMAIN w |-> [w[t] EXCEPT !.suppressed = TRUE]]

(* begin_close, fail_decode and fail_protocol: record a terminal reason    *)
(* and run start_cleanup, which acts once.                                 *)
StartCleanup ==
    /\ terminal' = TRUE
    /\ cleanupStarted' = TRUE
    /\ IF cleanupStarted
       THEN UNCHANGED <<pending, flushes, cleanup, fidVars>>
       ELSE /\ pending' = SuppressPending(pending)
            /\ flushes' = SuppressFlushes(flushes)
            /\ cleanup' = cleanup \o Batch(Cancels(Uncancelled(pending)))
                                  \o Batch(Releases(fids))
            /\ fids' = Empty
            /\ fidCount' = Release(fidCount, Cardinality(DOMAIN fids))
    /\ UNCHANGED <<negotiated, effects, nextOp, abandoned, answered, flushed,
                   tagOf, inFlightTags, writeBytes, handleVars>>

BeginClose ==
    /\ ~(terminal /\ cleanupStarted)
    /\ StartCleanup
    /\ UNCHANGED <<delivered, host, received>>

-----------------------------------------------------------------------------
(* Queueing a reply and emitting an operation while handling a request.    *)

Rid == received + 1
NewFlush == [suppressed |-> FALSE, waiters |-> <<>>, rid |-> Rid]

QueueResponse(tag, body) ==
    IF Len(effects) < MaxQueuedEffects
    THEN /\ effects' = Append(effects, Reply(Rid, tag, body))
         /\ answered' = Append(answered, <<Rid, body>>)
    ELSE UNCHANGED <<effects, answered>>

(* Answer from protocol state alone: an Rlerror, or an immediate result.   *)
Refuse(req) ==
    /\ QueueResponse(req.tag, "result")
    /\ UNCHANGED <<negotiated, nextOp, abandoned, cleanup, cleanupStarted, terminal,
                   flushed, tagVars, fidVars, handleVars>>

(* claim_fid followed by emit_operation.  An error of either leaves the    *)
(* fid as it was, but an identifier already allocated stays burned.        *)
Emit(req, cont, bytes) ==
    LET claims == cont.fid # NoFid /\ cont.fid \notin DOMAIN fids
        refused == \/ claims /\ fidCount + 1 > MaxFids
                   \/ inFlightTags + 1 > MaxInFlightTags
                   \/ writeBytes + bytes > MaxPendingWriteBytes
                   \/ nextOp > MaxOperationId
        queued == ~refused /\ Len(effects) < MaxQueuedEffects
    IN  /\ nextOp' = IF refused THEN nextOp ELSE nextOp + 1
        /\ IF queued
           THEN /\ effects' = Append(effects, Operation(nextOp, cont.kind))
                /\ inFlightTags' = inFlightTags + 1
                /\ writeBytes' = writeBytes + bytes
                /\ pending' = Put(pending, req.tag,
                                  [op |-> nextOp, cont |-> cont, suppressed |-> FALSE,
                                   cancelled |-> FALSE, waiters |-> <<>>,
                                   bytes |-> bytes, rid |-> Rid])
                /\ tagOf' = Put(tagOf, nextOp, req.tag)
                /\ fids' = IF cont.fid = NoFid THEN fids ELSE Put(fids, cont.fid, PendingFid)
                /\ fidCount' = IF claims THEN fidCount + 1 ELSE fidCount
                /\ consumed' = IF cont.kind = "Release"
                               THEN consumed \cup Handles(fids[cont.fid]) ELSE consumed
           ELSE UNCHANGED <<effects, inFlightTags, writeBytes, pending, tagOf, fidVars, consumed>>
        /\ UNCHANGED <<negotiated, abandoned, flushes, cleanup, cleanupStarted, terminal,
                       answered, flushed, granted, dropped, discarded>>

Cont(kind, fid, original, n) ==
    [kind |-> kind, fid |-> fid, original |-> original, n |-> n]
NoState == Cont("NoState", NoFid, Gone, 0)

-----------------------------------------------------------------------------
(* Request handlers.                                                       *)

(* Faulty variant: a fid in transition passes for an object.               *)
IsObjectOrPending(f) == f \in DOMAIN fids /\ fids[f].kind # "Auth"

IsAuth(f) == f \in DOMAIN fids /\ fids[f].kind = "Auth"
IsObject(f) == f \in DOMAIN fids /\ fids[f].kind = "Object"
IsPlain(f) == IsObject(f) /\ fids[f].mode = "none"     \* object_fid
IsOpen(f) == IsPlain(f) /\ fids[f].open # 0
IsUnopened(f) == IsPlain(f) /\ fids[f].open = 0

HandleAuth(req) ==
    IF req.fid \in Fids \ DOMAIN fids
    THEN Emit(req, Cont("Auth", req.fid, Gone, 0), 0)
    ELSE Refuse(req)

HandleAttach(req) ==
    IF /\ req.fid \in Fids \ DOMAIN fids
       /\ req.other = NoFid \/ IsAuth(req.other)
    THEN Emit(req, Cont("Attach", req.fid, Gone, 0), 0)
    ELSE Refuse(req)

(* Twalk without names: the new fid is installed before the reply is       *)
(* queued, and stays when the reply cannot be.                             *)
HandleWalkClone(req) ==
    LET accepted == IsUnopened(req.fid) /\ req.other \in Fids
                    /\ (req.other = req.fid \/ req.other \notin DOMAIN fids)
        claims == accepted /\ req.other # req.fid
    IN  /\ IF claims /\ fidCount + 1 > MaxFids
           THEN UNCHANGED <<effects, answered, fidVars>>
           ELSE /\ QueueResponse(req.tag, "result")
                /\ fids' = IF claims THEN Put(fids, req.other, ObjectFid) ELSE fids
                /\ fidCount' = IF claims THEN fidCount + 1 ELSE fidCount
        /\ UNCHANGED <<negotiated, nextOp, abandoned, cleanup, cleanupStarted, terminal,
                       flushed, tagVars, handleVars>>

HandleWalk(req) ==
    \/ Refuse(req)
    \/ /\ IsUnopened(req.fid)
       /\ \/ /\ req.other = req.fid
             /\ Emit(req, Cont("Walk", req.fid, fids[req.fid], 0), 0)
          \/ /\ req.other \in Fids \ DOMAIN fids
             /\ Emit(req, Cont("Walk", req.other, Gone, 0), 0)

(* Tlopen and Tlcreate.                                                    *)
HandleOpen(req) ==
    \/ Refuse(req)
    \/ /\ IsUnopened(req.fid)
       /\ Emit(req, Cont("Open", req.fid, fids[req.fid], 0), 0)

HandleXattrWalk(req) ==
    \/ Refuse(req)
    \/ /\ IsPlain(req.fid)
       /\ req.other \in Fids \ DOMAIN fids
       /\ Emit(req, Cont("XattrWalk", req.other, Gone, 0), 0)

HandleXattrCreate(req) ==
    \/ Refuse(req)
    \/ /\ IsUnopened(req.fid)
       /\ Emit(req, Cont("XattrCreate", req.fid, fids[req.fid], req.n), 0)

(* Tread on an auth fid, an xattr fid or an open file.                     *)
HandleRead(req) ==
    \/ ~IsAuth(req.fid) /\ Refuse(req)
    \/ /\ \/ IsAuth(req.fid)
          \/ IsObject(req.fid) /\ fids[req.fid].mode = "read"
          \/ IsOpen(req.fid)
       /\ Emit(req, NoState, 0)

(* Twrite on an auth fid, an open file or an xattr being written.          *)
HandleWrite(req) ==
    \/ ~IsAuth(req.fid) /\ Refuse(req)
    \/ IsAuth(req.fid) /\ Emit(req, NoState, req.n)
    \/ IsOpen(req.fid) /\ Emit(req, NoState, req.n)
    \/ /\ IsObject(req.fid) /\ fids[req.fid].mode = "write"
       /\ req.n <= fids[req.fid].left
       /\ Emit(req, Cont("XattrWrite", req.fid, fids[req.fid], req.n), req.n)

(* Tfsync, Tlock, Tgetlock, Treaddir.                                      *)
HandleFile(req) ==
    \/ Refuse(req)
    \/ IsOpen(req.fid) /\ Emit(req, NoState, 0)

(* Tstatfs, Tgetattr, Tsetattr.                                            *)
HandleAttr(req) ==
    \/ Refuse(req)
    \/ IsObject(req.fid) /\ Emit(req, NoState, 0)

(* Tmkdir, Tmknod, Tsymlink, Tlink, Trename, Trenameat, Tunlinkat and      *)
(* Treadlink; some name a second fid.                                      *)
HandleNamespace(req) ==
    \/ Refuse(req)
    \/ /\ IsPlain(req.fid)
       /\ req.other = NoFid \/ IsPlain(req.other)
       /\ Emit(req, NoState, 0)

(* Tclunk releases an object or an auth fid; an xattr being written is     *)
(* committed when complete and aborted otherwise, and both give it back.   *)
HandleClunk(req) ==
    \/ /\ \/ ~(IsAuth(req.fid) \/ IsObject(req.fid))
          \/ IsObject(req.fid) /\ fids[req.fid].mode = "write"
       /\ Refuse(req)
    \/ /\ IsAuth(req.fid) \/ IsObject(req.fid)
       /\ Emit(req, Cont("Release", req.fid, Gone, 0), 0)

HandleRemove(req) ==
    \/ Refuse(req)
    \/ IsPlain(req.fid) /\ Emit(req, Cont("Release", req.fid, Gone, 0), 0)

(* Faulty variants: the reply of the target is not suppressed; the         *)
(* cancellation overtakes the operation in the queue.                      *)
MarkFlushedAnswering(target, waiter) ==
    [target EXCEPT !.cancelled = TRUE, !.waiters = Append(@, waiter)]
QueueCancelFirst(op) == <<Cancel(op)>> \o effects

MarkFlushed(target, waiter) ==
    [target EXCEPT !.suppressed = TRUE, !.cancelled = TRUE, !.waiters = Append(@, waiter)]
QueueCancel(op) == Append(effects, Cancel(op))

(* Tflush of an active request: its reply is suppressed, its operation is  *)
(* cancelled once, and Rflush waits for it.                                *)
FlushPending(req) ==
    LET target == pending[req.old]
        fails == \/ inFlightTags + 1 > MaxInFlightTags
                 \/ ~target.cancelled /\ Len(effects) + 1 > MaxQueuedEffects
    IN  IF fails
        THEN UNCHANGED <<effects, inFlightTags, pending, flushes, flushed>>
        ELSE /\ effects' = IF target.cancelled THEN effects ELSE QueueCancel(target.op)
             /\ inFlightTags' = inFlightTags + 1
             /\ pending' = Put(pending, req.old, MarkFlushed(target, req.tag))
             /\ flushes' = Put(flushes, req.tag, NewFlush)
             /\ flushed' = flushed \cup {<<target.rid, Rid>>}

(* Tflush of an active Tflush.                                             *)
FlushFlush(req) ==
    LET target == flushes[req.old]
        nested == [target EXCEPT !.suppressed = TRUE, !.waiters = Append(@, req.tag)]
    IN  IF inFlightTags + 1 > MaxInFlightTags
        THEN UNCHANGED <<inFlightTags, flushes, flushed>>
        ELSE /\ inFlightTags' = inFlightTags + 1
             /\ flushes' = Put(Put(flushes, req.tag, NewFlush), req.old, nested)
             /\ flushed' = flushed \cup {<<target.rid, Rid>>}

HandleFlush(req) ==
    /\ \/ /\ req.old \in DOMAIN pending
          /\ FlushPending(req)
          /\ UNCHANGED answered
       \/ /\ req.old \in DOMAIN flushes \ DOMAIN pending
          /\ FlushFlush(req)
          /\ UNCHANGED <<effects, answered, pending>>
       \/ /\ req.old \notin DOMAIN flushes \cup DOMAIN pending
          /\ QueueResponse(req.tag, "flush")
          /\ UNCHANGED <<inFlightTags, pending, flushes, flushed>>
    /\ UNCHANGED <<negotiated, nextOp, abandoned, cleanup, cleanupStarted, terminal,
                   tagOf, writeBytes, fidVars, handleVars>>

(* The handles a set of pending operations keeps on behalf of its fids.    *)
Held(p) == UNION {Handles(p[t].cont.original) : t \in DOMAIN p}

(* Faulty variants: an operation already asked to cancel is not tracked    *)
(* after a reset; a reset keeps the pending requests.                      *)
AbandonedByUncancelled(p) == {p[t].op : t \in DOMAIN Uncancelled(p)}
ResetKeepsRequests ==
    /\ flushes' = Empty
    /\ inFlightTags' = Release(inFlightTags, Cardinality(DOMAIN flushes))
    /\ cleanup' = cleanup \o Batch(Releases(fids))
    /\ fids' = Empty
    /\ fidCount' = Release(fidCount, Cardinality(DOMAIN fids))
    /\ UNCHANGED <<pending, tagOf, writeBytes, abandoned, dropped>>

AbandonedBy(p) == {p[t].op : t \in DOMAIN p}

(* reset_for_version: every request and flush is forgotten, the operations *)
(* become abandoned work whose results are discarded, fids are drained.    *)
ResetForVersion ==
    /\ flushes' = Empty /\ pending' = Empty /\ tagOf' = Empty
    /\ inFlightTags' = Release(Release(inFlightTags, Cardinality(DOMAIN flushes)),
                               Cardinality(DOMAIN pending))
    /\ writeBytes' = Release(writeBytes, BytesOf(pending))
    /\ abandoned' = abandoned \cup AbandonedBy(pending)
    /\ cleanup' = cleanup \o Batch(Cancels(pending)) \o Batch(Releases(fids))
    /\ fids' = Empty
    /\ fidCount' = Release(fidCount, Cardinality(DOMAIN fids))
    /\ dropped' = dropped \cup Held(pending)

HandleVersion(req) ==
    IF req.tag # NOTAG
    THEN Refuse(req)
    ELSE /\ ResetForVersion
         /\ negotiated' = (req.n = 1)
         /\ QueueResponse(NOTAG, "version")
         /\ UNCHANGED <<nextOp, cleanupStarted, terminal, flushed, granted, consumed, discarded>>

Handle(req) ==
    \/ req.kind = "auth" /\ HandleAuth(req)
    \/ req.kind = "attach" /\ HandleAttach(req)
    \/ req.kind = "flush" /\ HandleFlush(req)
    \/ req.kind = "clone" /\ HandleWalkClone(req)
    \/ req.kind = "walk" /\ HandleWalk(req)
    \/ req.kind = "open" /\ HandleOpen(req)
    \/ req.kind = "xattrwalk" /\ HandleXattrWalk(req)
    \/ req.kind = "xattrcreate" /\ HandleXattrCreate(req)
    \/ req.kind = "read" /\ HandleRead(req)
    \/ req.kind = "write" /\ HandleWrite(req)
    \/ req.kind = "file" /\ HandleFile(req)
    \/ req.kind = "attr" /\ HandleAttr(req)
    \/ req.kind = "namespace" /\ HandleNamespace(req)
    \/ req.kind = "clunk" /\ HandleClunk(req)
    \/ req.kind = "remove" /\ HandleRemove(req)

(* Faulty variant: dispatch looks for a duplicate tag among requests only. *)
TagActiveRequest(tag) == tag \in DOMAIN pending

TagActive(tag) == tag \in DOMAIN pending \cup DOMAIN flushes

(* dispatch: the tag is checked before anything else, so that the second   *)
(* duplicate-tag check in emit_operation never fires.                      *)
Dispatch(req) ==
    \/ /\ req.kind = "version"
       /\ HandleVersion(req)
    \/ /\ req.kind # "version" /\ req.tag = NOTAG
       /\ StartCleanup
    \/ /\ req.kind # "version" /\ req.tag \in Tags
       /\ TagActive(req.tag) \/ ~negotiated
       /\ Refuse(req)
    \/ /\ req.kind # "version" /\ req.tag \in Tags
       /\ ~TagActive(req.tag) /\ negotiated
       /\ Handle(req)

(* receive_frame / receive_bytes for one frame: decoded, or malformed.     *)
ReceiveFrame ==
    /\ ~terminal
    /\ received < MaxRequests
    /\ received' = received + 1
    /\ \E req \in Requests : Dispatch(req)
    /\ UNCHANGED <<delivered, host>>

ReceiveMalformed ==
    /\ ~terminal
    /\ received < MaxRequests
    /\ received' = received + 1
    /\ StartCleanup
    /\ UNCHANGED <<delivered, host>>

-----------------------------------------------------------------------------
(* The host polls effects: queued ones first, then cleanup, then closure.  *)

PollQueued ==
    /\ effects # <<>>
    /\ effects' = Tail(effects)
    /\ host' = IF Head(effects).type = "operation"
               THEN Put(host, Head(effects).op, Head(effects).grants)
               ELSE host
    /\ UNCHANGED <<negotiated, nextOp, abandoned, cleanup, received, answered, flushed,
                   tagVars, fidVars, lifeVars, handleVars>>

(* A cleanup release allocates its identifier when polled; when identifiers *)
(* are exhausted the action is lost and the session becomes terminal.      *)
PollCleanup ==
    /\ effects = <<>>
    /\ cleanup # <<>>
    /\ \E action \in Head(cleanup) :
          /\ cleanup' = Batch(Head(cleanup) \ {action}) \o Tail(cleanup)
          /\ \/ /\ action.type = "cancel"
                /\ UNCHANGED <<nextOp, abandoned, host, terminal, consumed, dropped>>
             \/ /\ action.type = "release" /\ nextOp <= MaxOperationId
                /\ nextOp' = nextOp + 1
                /\ abandoned' = abandoned \cup {nextOp}
                /\ host' = Put(host, nextOp, FALSE)
                /\ consumed' = consumed \cup action.handles
                /\ UNCHANGED <<terminal, dropped>>
             \/ /\ action.type = "release" /\ nextOp > MaxOperationId
                /\ terminal' = TRUE
                /\ dropped' = dropped \cup action.handles
                /\ UNCHANGED <<nextOp, abandoned, host, consumed>>
    /\ UNCHANGED <<negotiated, effects, received, answered, flushed, tagVars, fidVars,
                   cleanupStarted, delivered, granted, discarded>>

PollClose ==
    /\ effects = <<>> /\ cleanup = <<>>
    /\ terminal /\ ~delivered
    /\ delivered' = TRUE
    /\ UNCHANGED <<negotiated, effects, nextOp, abandoned, cleanup, host, received,
                   answered, flushed, tagVars, fidVars, cleanupStarted, terminal, handleVars>>

-----------------------------------------------------------------------------
(* The host reports a terminal result.                                     *)

Retire(table, f) == Without(table, {f})

(* Faulty variants of RolledBack: a failed xattr write retires its fid     *)
(* instead of restoring it; a stateless continuation touches a fid.        *)
RolledBackRetires(cont) ==
    IF cont.fid = NoFid THEN fids ELSE Retire(fids, cont.fid)
RolledBackStateless(cont) ==
    IF cont.original = Gone /\ cont.fid # NoFid
    THEN Retire(fids, cont.fid) ELSE Put(fids, cont.fid, cont.original)

(* rollback_continuation: an error, a cancellation or an unusable result.  *)
RolledBack(cont) ==
    IF cont.fid = NoFid THEN fids
    ELSE IF cont.original = Gone THEN Retire(fids, cont.fid)
    ELSE Put(fids, cont.fid, cont.original)

(* finish_policy_success; op names the handle granted.                     *)
PolicySucceeded(cont, op) ==
    Put(fids, cont.fid, IF cont.kind = "Auth" THEN [BareFid("Auth") EXCEPT !.auth = op]
                                              ELSE ObjectFid)

(* finish_filesystem_success; count is the number of xattr bytes written.  *)
Succeeded(cont, op, count) ==
    CASE cont.kind = "NoState" -> fids
      [] cont.kind = "Release" -> Retire(fids, cont.fid)
      [] cont.kind \in {"Auth", "Attach"} -> PolicySucceeded(cont, op)
      [] cont.kind = "Walk" -> Put(fids, cont.fid, ObjectFid)
      [] cont.kind = "Open" -> Put(fids, cont.fid, [cont.original EXCEPT !.open = op])
      [] cont.kind = "XattrWalk" ->
            Put(fids, cont.fid, [ObjectFid EXCEPT !.xattr = op, !.mode = "read"])
      [] cont.kind = "XattrCreate" ->
            Put(fids, cont.fid, [cont.original EXCEPT !.xattr = op, !.mode = "write",
                                                      !.left = cont.n])
      [] cont.kind = "XattrWrite" ->
            Put(fids, cont.fid, [cont.original EXCEPT !.left = Release(@, count)])

(* Faulty variants: finish_flush does not recurse into nested flushes; a   *)
(* completion finishes every flush, not only those that wait for it.       *)
FlushOrderShallow(waiters) == waiters
FlushOrderEvery(waiters) ==
    CHOOSE s \in [1..Cardinality(DOMAIN flushes) -> DOMAIN flushes] : Range(s) = DOMAIN flushes

(* finish_flush visits the waiters of a request depth first: a flush is    *)
(* followed by the flushes that wait for it.                               *)
FlushOrder(waiters) ==
    LET visit[stack \in Seq(DOMAIN flushes)] ==
            IF stack = <<>> THEN <<>>
            ELSE <<Head(stack)>> \o visit[flushes[Head(stack)].waiters \o Tail(stack)]
    IN  visit[waiters]

(* Faulty variant: retire_fid without the matching Accounting::release.    *)
FidsReleasedOnDrain(after, draining) ==
    Cardinality(IF draining THEN DOMAIN fids \cup DOMAIN after ELSE {})

(* The fids given back to the accounting by retire_fid and, when the       *)
(* session is terminal, by drain_fids_to_cleanup.                          *)
FidsReleased(after, draining) ==
    Cardinality(IF draining THEN DOMAIN fids \cup DOMAIN after
                            ELSE DOMAIN fids \ DOMAIN after)

FlushReplies(order) ==
    [i \in 1..Len(order) |-> Reply(flushes[order[i]].rid, order[i], "flush")]

(* Retire a request whose fid table is now `after`, with the flushes       *)
(* `done` that waited for it: drain the fids if the session is terminal,   *)
(* then queue the replies.  The first one that cannot be queued terminates *)
(* the session, which suppresses the others.                               *)
Finish(op, after, done, replies, room) ==
    LET p == pending[tagOf[op]]
        others == Without(pending, {tagOf[op]})
        waiting == Without(flushes, done)
        fails == Len(replies) > room
        sent == IF fails THEN SubSeq(replies, 1, room) ELSE replies
    IN  /\ tagOf' = Without(tagOf, {op})
        /\ inFlightTags' = Release(Release(inFlightTags, 1), Cardinality(done))
        /\ writeBytes' = Release(writeBytes, p.bytes)
        /\ effects' = effects \o sent
        /\ answered' = answered \o [i \in 1..Len(sent) |-> <<sent[i].rid, sent[i].body>>]
        /\ pending' = IF fails THEN SuppressPending(others) ELSE others
        /\ flushes' = IF fails THEN SuppressFlushes(waiting) ELSE waiting
        /\ terminal' = (terminal \/ fails)
        /\ cleanupStarted' = (cleanupStarted \/ fails)
        /\ cleanup' = cleanup
              \o (IF terminal THEN Batch(Releases(after)) ELSE <<>>)
              \o (IF fails THEN Batch(Cancels(Uncancelled(others))) ELSE <<>>)
              \o (IF fails /\ ~terminal THEN Batch(Releases(after)) ELSE <<>>)
        /\ fids' = IF terminal \/ fails THEN Empty ELSE after
        /\ fidCount' = Release(fidCount, FidsReleased(after, terminal \/ fails))

(* complete for an operation of an active request: finish its continuation *)
(* and reply unless suppressed, then finish the flushes that wait for it,  *)
(* each once.  A result may be too large for msize.                        *)
CompletePending(op, ok, count, encodes) ==
    LET tag == tagOf[op]
        p == pending[tag]
        after == IF ok THEN Succeeded(p.cont, op, count) ELSE RolledBack(p.cont)
        visited == FlushOrder(p.waiters)
        done == {t \in DOMAIN flushes : t \in Range(visited)}
        answering == {t \in done : ~flushes[t].suppressed}
        own == IF p.suppressed THEN <<>> ELSE <<Reply(p.rid, tag, "result")>>
        room == IF encodes \/ p.suppressed THEN MaxQueuedEffects - Len(effects) ELSE 0
    IN  \E order \in Injection(1..Cardinality(answering), answering) :
        /\ order = SelectSeq(visited, LAMBDA t : t \in answering)
        /\ Finish(op, after, done, own \o FlushReplies(order), room)
        /\ granted' = IF ok /\ p.cont.kind \in Granting THEN granted \cup {op} ELSE granted
        /\ UNCHANGED <<negotiated, nextOp, abandoned, flushed, delivered, consumed, dropped,
                       discarded>>

(* complete for abandoned work: the result is dropped, and with it any     *)
(* handle it grants.                                                       *)
CompleteAbandoned(op, ok) ==
    /\ abandoned' = abandoned \ {op}
    /\ granted' = IF ok /\ host[op] THEN granted \cup {op} ELSE granted
    /\ discarded' = IF ok /\ host[op] THEN discarded \cup {op} ELSE discarded
    /\ UNCHANGED <<negotiated, effects, nextOp, cleanup, answered, flushed, tagVars, fidVars,
                   lifeVars, consumed, dropped>>

Complete(op) ==
    /\ op \in DOMAIN host
    /\ host' = Without(host, {op})
    /\ \/ /\ op \in DOMAIN tagOf
          /\ \E ok \in BOOLEAN, encodes \in BOOLEAN, count \in 0..pending[tagOf[op]].cont.n :
                CompletePending(op, ok, count, encodes)
       \/ /\ op \in abandoned \ DOMAIN tagOf
          /\ \E ok \in BOOLEAN : CompleteAbandoned(op, ok)
    /\ UNCHANGED received

(* Faulty variant: status forgets abandoned_operations.                    *)
DrainedEarly ==
    /\ terminal /\ delivered
    /\ effects = <<>> /\ cleanup = <<>>
    /\ pending = Empty /\ flushes = Empty

(* SessionStatus::Drained.                                                 *)
Drained ==
    /\ terminal /\ delivered
    /\ effects = <<>> /\ cleanup = <<>>
    /\ pending = Empty /\ flushes = Empty /\ abandoned = {}

(* A drained session does nothing more.                                    *)
Stopped == Drained /\ UNCHANGED vars

Next ==
    \/ ReceiveFrame
    \/ ReceiveMalformed
    \/ BeginClose
    \/ PollQueued
    \/ PollCleanup
    \/ PollClose
    \/ \E op \in DOMAIN host : Complete(op)
    \/ Stopped

Spec == Init /\ [][Next]_vars

(* The host drives the session as its contract requires: it keeps polling  *)
(* and gives each operation it holds a terminal result.                    *)
Fairness ==
    /\ WF_vars(PollQueued)
    /\ WF_vars(PollCleanup)
    /\ WF_vars(PollClose)
    /\ \A op \in 1..MaxOperationId : WF_vars(Complete(op))

FairSpec == Spec /\ Fairness

-----------------------------------------------------------------------------
(* Properties.                                                             *)

(* Every field of the session and of the histories has its type.           *)
TypeOK ==
    /\ negotiated \in BOOLEAN
    /\ effects \in Seq(Effect)
    /\ inFlightTags \in Nat /\ fidCount \in Nat /\ writeBytes \in Nat
    /\ nextOp \in Nat \ {0}
    /\ DOMAIN pending \subseteq Tags
    /\ \A t \in DOMAIN pending : pending[t] \in PendingOperation
    /\ DOMAIN flushes \subseteq Tags
    /\ \A t \in DOMAIN flushes : flushes[t] \in FlushState
    /\ DOMAIN tagOf \subseteq Nat
    /\ \A op \in DOMAIN tagOf : tagOf[op] \in Tags
    /\ abandoned \subseteq Nat
    /\ DOMAIN fids \subseteq Fids
    /\ \A f \in DOMAIN fids : fids[f] \in FidState
    /\ cleanup \in Seq(SUBSET CleanupAction)
    /\ cleanupStarted \in BOOLEAN /\ terminal \in BOOLEAN /\ delivered \in BOOLEAN
    /\ DOMAIN host \subseteq Nat
    /\ \A op \in DOMAIN host : host[op] \in BOOLEAN
    /\ received \in Nat

(* complete expects that the operation index and the tag index agree       *)
(* ("operation index and tag index remain synchronized"), and the host     *)
(* never holds an operation whose completion would be called unknown or    *)
(* duplicate: it is either the operation of exactly one tag or abandoned.  *)
IndexesAgree ==
    /\ \A op \in DOMAIN tagOf : tagOf[op] \in DOMAIN pending /\ pending[tagOf[op]].op = op
    /\ \A t \in DOMAIN pending : pending[t].op \in DOMAIN tagOf /\ tagOf[pending[t].op] = t
    /\ DOMAIN tagOf \cap abandoned = {}
    /\ DOMAIN host \subseteq DOMAIN tagOf \cup abandoned

(* The inductive strengthening of IndexesAgree: identifiers are issued in  *)
(* order and never reused, and an operation still in the queue is tracked, *)
(* queued once and not yet with the host.                                  *)
OperationsTracked ==
    /\ Len(effects) <= MaxQueuedEffects
    /\ DOMAIN tagOf \cup abandoned \subseteq 1..(nextOp - 1)
    /\ \A i \in DOMAIN effects : effects[i].type = "operation" =>
          /\ effects[i].op \in DOMAIN tagOf \cup abandoned
          /\ effects[i].op \notin DOMAIN host
    /\ \A i, j \in DOMAIN effects :
          effects[i].type = "operation" /\ effects[j].type = "operation"
          /\ effects[i].op = effects[j].op => i = j

(* The saturating counters of Accounting equal what they count after every *)
(* claim, retirement, rollback, reset and drain, and what they count stays *)
(* within the configured limits.                                           *)
AccountingExact ==
    /\ inFlightTags = Cardinality(DOMAIN pending) + Cardinality(DOMAIN flushes)
    /\ fidCount = Cardinality(DOMAIN fids)
    /\ writeBytes = BytesOf(pending)
    /\ inFlightTags <= MaxInFlightTags
    /\ fidCount <= MaxFids
    /\ writeBytes <= MaxPendingWriteBytes

(* While the session is active, a fid is in transition exactly when one    *)
(* pending operation will finish it, so a completion never overwrites a    *)
(* fid it does not own; once cleanup has started no fid is left.           *)
FidTransitionsOwned ==
    /\ cleanupStarted => fids = Empty
    /\ ~terminal =>
          /\ \A t \in DOMAIN pending : pending[t].cont.fid # NoFid =>
                /\ pending[t].cont.fid \in DOMAIN fids
                /\ fids[pending[t].cont.fid].kind = "Pending"
          /\ \A f \in DOMAIN fids : fids[f].kind = "Pending" =>
                \E t \in DOMAIN pending : pending[t].cont.fid = f
          /\ \A t, u \in DOMAIN pending :
                pending[t].cont.fid = pending[u].cont.fid /\ t # u
                    => pending[t].cont.fid = NoFid

HeldByFids == UNION {Handles(fids[f]) : f \in DOMAIN fids}
HeldByCleanup == UNION {action.handles : action \in UNION Range(cleanup)}

Lost == dropped \cup discarded

(* Every handle the backend granted is in one place only: a fid, the       *)
(* operation a fid is in transition with, a queued cleanup release, an     *)
(* operation that gives it back, or among those a Tversion lost.           *)
HandlesConserved ==
    /\ granted = HeldByFids \cup Held(pending) \cup HeldByCleanup \cup consumed \cup Lost
    /\ HeldByFids \cap (Held(pending) \cup HeldByCleanup \cup consumed \cup Lost) = {}
    /\ Held(pending) \cap (HeldByCleanup \cup consumed \cup Lost) = {}
    /\ HeldByCleanup \cap (consumed \cup Lost) = {}
    /\ consumed \cap Lost = {}
    /\ \A f, g \in DOMAIN fids : f # g => Handles(fids[f]) \cap Handles(fids[g]) = {}

WaiterSlots(table, w) ==
    {s \in (DOMAIN table) \X (1..Cardinality(Tags)) :
        s[2] \in DOMAIN table[s[1]].waiters /\ table[s[1]].waiters[s[2]] = w}

(* The flushes form a forest under the pending requests: each waits in     *)
(* exactly one waiter list, behind an older request, so that finish_flush  *)
(* reaches every one exactly once and none is left behind.                 *)
FlushForest ==
    /\ DOMAIN pending \cap DOMAIN flushes = {}
    /\ \A w \in DOMAIN flushes :
          LET inPending == WaiterSlots(pending, w)
              inFlushes == WaiterSlots(flushes, w)
          IN  /\ Cardinality(inPending) + Cardinality(inFlushes) = 1
              /\ \A s \in inPending : /\ pending[s[1]].suppressed
                                      /\ pending[s[1]].rid < flushes[w].rid
              /\ \A s \in inFlushes : /\ flushes[s[1]].suppressed
                                      /\ flushes[s[1]].rid < flushes[w].rid

AnsweredRids == {a[1] : a \in Range(answered)}

(* A request that was active when it was flushed is never answered, even   *)
(* when its operation later succeeds (Tflush suppresses the old reply).    *)
FlushedNeverAnswered == \A pair \in flushed : pair[1] \notin AnsweredRids

(* Rflush waits for the flushed request to become terminal: "no old        *)
(* response is emitted after its corresponding Rflush".                    *)
RflushAfterTarget ==
    \A pair \in flushed : pair[2] \in AnsweredRids =>
        /\ \A t \in DOMAIN pending : pending[t].rid # pair[1]
        /\ \A t \in DOMAIN flushes : flushes[t].rid # pair[1]

(* No request is answered twice, and nothing queued after an Rversion      *)
(* answers a request received before that Tversion.                        *)
RepliesWellOrdered ==
    \A i, j \in DOMAIN answered : i < j =>
        /\ answered[i][1] # answered[j][1]
        /\ answered[i][2] = "version" => answered[i][1] < answered[j][1]

(* The host sees the operation before the request to cancel it.            *)
CancelFollowsOperation ==
    \A i, j \in DOMAIN effects :
        effects[i].type = "cancel" /\ effects[j].type = "operation" /\ i < j
            => effects[i].op # effects[j].op

(* SessionStatus::Drained is only reported when no operation is left with  *)
(* the host and every granted handle was given back or lost to a Tversion. *)
DrainedIsClean ==
    Drained => /\ host = Empty /\ tagOf = Empty
               /\ cleanupStarted => granted = consumed \cup Lost
               /\ inFlightTags = 0 /\ writeBytes = 0

(* A closing session is eventually drained by a host that keeps polling    *)
(* and completing.                                                         *)
ClosingDrains == terminal ~> Drained

(* Every accepted flush is eventually finished.                            *)
FlushesFinish == \A t \in Tags : (t \in DOMAIN flushes) ~> (t \notin DOMAIN flushes)

(* "emits any required cancellation or release effects explicitly": a      *)
(* Tversion never loses a handle, neither one that the session holds nor   *)
(* one granted by an operation in flight when the session was reset.       *)
NoHandleLost == Lost = {}

(* "retained memory remains within the configured accounting bound": the   *)
(* external operations a session tracks number at most one per in-flight   *)
(* tag and one release per fid.                                            *)
OutstandingWorkBounded ==
    Cardinality(DOMAIN tagOf \cup abandoned) <= MaxInFlightTags + MaxFids

=============================================================================
