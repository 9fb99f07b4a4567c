---------------------------- MODULE SessionPolls ----------------------------
(* handle_flush, handle_version, the dispatch of receive_bytes and         *)
(* poll_effect preserve the inductive invariant of SessionFacts.           *)
EXTENDS SessionSteps

(* Tflush of a pending operation preserves the invariant.                  *)
LEMMA FlushPendingInv ==
    ASSUME IInv, Receiving, NEW req \in Requests, req.tag \in Tags, ~TagActive(req.tag),
           HandleFlush(req), req.old \in DOMAIN pending, FlushPending(req)
    PROVE  IInv'
<1> DEFINE target == pending[req.old]
<1>1. /\ UNCHANGED <<negotiated, nextOp, abandoned, cleanup, cleanupStarted, terminal, tagOf,
                     writeBytes, fids, fidCount, delivered, host>>
      /\ received' \in Nat
  BY SMTT(60) DEF HandleFlush, Receiving, fidVars, IInv, TypeOK
<1>2. CASE UNCHANGED <<effects, inFlightTags, pending, flushes>>
  BY <1>1, <1>2, SMTT(60) DEF IInv, TypeOK, IndexesAgree, OperationsTracked
<1>3. CASE /\ \/ effects' = effects
              \/ /\ effects' = QueueCancel(target.op)
                 /\ Len(effects) + 1 <= MaxQueuedEffects
           /\ inFlightTags' = inFlightTags + 1
           /\ pending' = Put(pending, req.old, MarkFlushed(target, req.tag))
           /\ flushes' = Put(flushes, req.tag, NewFlush)
  <2>1. target \in PendingOperation
    BY SMTT(60) DEF IInv, TypeOK
  <2>2. /\ DOMAIN pending' = DOMAIN pending
        /\ \A t \in DOMAIN pending : pending'[t] \in PendingOperation /\ pending'[t].op = pending[t].op
    <3> DEFINE marked == MarkFlushed(target, req.tag)
    <3>1. marked \in PendingOperation /\ marked.op = target.op
      BY <2>1, MarkFlushedFacts
    <3> HIDE DEF marked
    <3> QED BY <1>3, <3>1, ZenonT(60) DEF Put, IInv, TypeOK, marked
  <2>3. DOMAIN flushes' \subseteq Tags /\ \A t \in DOMAIN flushes' : flushes'[t] \in FlushState
    BY <1>3, NewFlushType, SMTT(60) DEF Put, IInv, TypeOK
  <2>4. /\ effects' \in Seq(Effect) /\ Len(effects') <= MaxQueuedEffects
        /\ \A i \in DOMAIN effects' : effects'[i].type = "operation" =>
              i \in DOMAIN effects /\ effects'[i] = effects[i]
    <3>1. CASE effects' = effects
      BY <3>1, SMTT(60) DEF IInv, TypeOK, OperationsTracked
    <3>2. CASE effects' = QueueCancel(target.op) /\ Len(effects) + 1 <= MaxQueuedEffects
      <4>1. Cancel(target.op) \in Effect /\ Cancel(target.op).type = "cancel"
        BY <2>1, SMTT(60) DEF PendingOperation, Cancel, Effect
      <4> QED BY <3>2, <4>1, AppendFacts, SMTT(60) DEF QueueCancel, IInv, TypeOK
    <3> QED BY <1>3, <3>1, <3>2, SMTT(60)
  <2>5. TypeOK'
    BY <1>1, <1>3, <2>2, <2>3, <2>4, SMTT(60) DEF IInv, TypeOK
  <2>6. IndexesAgree'
    BY <1>1, <2>2, SMTT(60) DEF IInv, IndexesAgree
  <2>7. OperationsTracked'
    BY <1>1, <2>4, SMTT(60) DEF IInv, OperationsTracked
  <2> QED BY <2>5, <2>6, <2>7, SMTT(60) DEF IInv
<1>4. CASE \/ inFlightTags + 1 > MaxInFlightTags
           \/ ~target.cancelled /\ Len(effects) + 1 > MaxQueuedEffects
  BY <1>2, <1>4, SMTT(60) DEF FlushPending
<1>5. CASE ~ \/ inFlightTags + 1 > MaxInFlightTags
             \/ ~target.cancelled /\ Len(effects) + 1 > MaxQueuedEffects
  <2>1. target.cancelled \/ Len(effects) + 1 <= MaxQueuedEffects
    BY <1>5, SessionAssumption, SMTT(60) DEF IInv, TypeOK
  <2> QED BY <1>3, <1>5, <2>1, SMTT(60) DEF FlushPending
<1> QED BY <1>4, <1>5, SMTT(60)

(* Tflush of a waiting flush preserves the invariant.                      *)
LEMMA FlushFlushInv ==
    ASSUME IInv, Receiving, NEW req \in Requests, req.tag \in Tags, ~TagActive(req.tag),
           HandleFlush(req), req.old \in DOMAIN flushes, FlushFlush(req),
           UNCHANGED <<effects, pending>>
    PROVE  IInv'
<1> DEFINE target == flushes[req.old]
           nested == [target EXCEPT !.suppressed = TRUE, !.waiters = Append(@, req.tag)]
<1>1. /\ UNCHANGED <<negotiated, nextOp, abandoned, cleanup, cleanupStarted, terminal, tagOf,
                     writeBytes, fids, fidCount, delivered, host, effects, pending>>
      /\ received' \in Nat
  BY DEF HandleFlush, Receiving, fidVars, IInv, TypeOK
<1>2. nested \in FlushState
  <2>1. target \in FlushState
    BY DEF IInv, TypeOK
  <2>2. Append(target.waiters, req.tag) \in Seq(Tags)
    BY <2>1, AppendFacts DEF FlushState
  <2> QED BY <2>1, <2>2, Zenon DEF FlushState
<1>3. /\ DOMAIN flushes' \subseteq Tags /\ \A t \in DOMAIN flushes' : flushes'[t] \in FlushState
      /\ inFlightTags' \in Nat
  <2>1. CASE UNCHANGED <<inFlightTags, flushes>>
    BY <2>1, SMTT(60) DEF IInv, TypeOK
  <2>2. CASE /\ inFlightTags' = inFlightTags + 1
             /\ flushes' = Put(Put(flushes, req.tag, NewFlush), req.old, nested)
    BY <1>2, <2>2, NewFlushType, SMTT(60) DEF Put, IInv, TypeOK
  <2> QED BY <2>1, <2>2, SMTT(60) DEF FlushFlush
<1>4. TypeOK'
  BY <1>1, <1>3, SMTT(60) DEF IInv, TypeOK
<1>5. IndexesAgree' /\ OperationsTracked'
  BY <1>1, SMTT(60) DEF IInv, IndexesAgree, OperationsTracked
<1> QED BY <1>4, <1>5, SMTT(60) DEF IInv

(* handle_flush preserves the invariant, whatever the old tag names.       *)
LEMMA HandleFlushInv ==
    ASSUME IInv, Receiving, NEW req \in Requests, req.tag \in Tags, ~TagActive(req.tag),
           HandleFlush(req)
    PROVE  IInv'
<1>1. CASE req.old \in DOMAIN pending /\ FlushPending(req)
  BY <1>1, FlushPendingInv, SMTT(60)
<1>2. CASE req.old \in DOMAIN flushes /\ FlushFlush(req) /\ UNCHANGED <<effects, pending>>
  BY <1>2, FlushFlushInv, SMTT(60)
<1>3. CASE QueueResponse(req.tag, "flush") /\ UNCHANGED <<inFlightTags, pending, flushes>>
  <2>1. /\ effects' \in Seq(Effect)
        /\ Len(effects') <= MaxQueuedEffects
        /\ \A i \in DOMAIN effects' : effects'[i].type = "operation" =>
              i \in DOMAIN effects /\ effects'[i] = effects[i]
    BY <1>3, QueueResponseInv, SMTT(60)
  <2>2. TypeOK'
    BY <1>3, <2>1, SMTT(60) DEF IInv, TypeOK, HandleFlush, Receiving, fidVars
  <2>3. IndexesAgree'
    BY <1>3, ZenonT(60) DEF IInv, IndexesAgree, HandleFlush, Receiving
  <2>4. OperationsTracked'
    BY <1>3, <2>1 DEF IInv, OperationsTracked, HandleFlush, Receiving
  <2> QED BY <2>2, <2>3, <2>4, SMTT(60) DEF IInv
<1> QED
  BY <1>1, <1>2, <1>3, ZenonT(60) DEF HandleFlush

(* handle_version, the session reset included, preserves the invariant.    *)
LEMMA HandleVersionInv ==
    ASSUME IInv, Receiving, NEW req \in Requests, HandleVersion(req)
    PROVE  IInv'
<1>1. CASE req.tag # NOTAG
  BY <1>1, RefuseInv, SMTT(60) DEF HandleVersion
<1>2. CASE req.tag = NOTAG
  <2>1. /\ effects' \in Seq(Effect)
        /\ Len(effects') <= MaxQueuedEffects
        /\ \A i \in DOMAIN effects' : effects'[i].type = "operation" =>
              i \in DOMAIN effects /\ effects'[i] = effects[i]
    BY <1>2, QueueResponseInv, SMTT(60) DEF HandleVersion
  <2>2. inFlightTags' \in Nat /\ fidCount' \in Nat /\ writeBytes' \in Nat
    <3>1. BytesOf(pending) \in Nat
      BY DomainsFinite, BytesFinite DEF IInv, TypeOK, PendingOperation
    <3> QED BY <1>2, <3>1, DomainsFinite, ReleaseType, ZenonT(60)
            DEF HandleVersion, ResetForVersion, IInv, TypeOK
  <2>3. cleanup' \in Seq(SUBSET CleanupAction)
    <3>1. Batch(Cancels(pending)) \in Seq(SUBSET CleanupAction)
      BY CancelsType, BatchType, SMTT(60) DEF IInv, TypeOK
    <3>2. Batch(Releases(fids)) \in Seq(SUBSET CleanupAction)
      BY ReleasesType, BatchType, SMTT(60) DEF IInv, TypeOK
    <3>3. cleanup \o Batch(Cancels(pending)) \in Seq(SUBSET CleanupAction)
      BY <3>1, ConcatFacts, SMTT(60) DEF IInv, TypeOK
    <3>4. cleanup' = (cleanup \o Batch(Cancels(pending))) \o Batch(Releases(fids))
      BY <1>2, SMTT(60) DEF HandleVersion, ResetForVersion
    <3> QED BY <3>2, <3>3, <3>4, ConcatFacts, SMTT(60)
  <2>4. /\ DOMAIN flushes' = {} /\ DOMAIN pending' = {} /\ DOMAIN tagOf' = {} /\ DOMAIN fids' = {}
        /\ abandoned' = abandoned \cup {pending[t].op : t \in DOMAIN pending}
        /\ UNCHANGED <<nextOp, cleanupStarted, terminal, delivered, host>>
        /\ negotiated' \in BOOLEAN /\ received' \in Nat
    BY <1>2, SMTT(60) DEF HandleVersion, ResetForVersion, Empty, AbandonedBy, Receiving, IInv, TypeOK
  <2>5. abandoned' = abandoned \cup DOMAIN tagOf
    <3>1. ASSUME NEW t \in DOMAIN pending PROVE pending[t].op \in DOMAIN tagOf
      BY DEF IInv, IndexesAgree
    <3>2. ASSUME NEW op \in DOMAIN tagOf
          PROVE  \E t \in DOMAIN pending : pending[t].op = op
      BY DEF IInv, IndexesAgree
    <3>3. {pending[t].op : t \in DOMAIN pending} = DOMAIN tagOf
      BY <3>1, <3>2, Zenon
    <3> QED BY <2>4, <3>3, Zenon
  <2>6. TypeOK'
    BY <2>1, <2>2, <2>3, <2>4, <2>5, Zenon DEF IInv, TypeOK
  <2>7. IndexesAgree'
    BY <2>4, <2>5 DEF IInv, IndexesAgree
  <2>8. OperationsTracked'
    BY <2>1, <2>4, <2>5, SMTT(60) DEF IInv, OperationsTracked
  <2> QED BY <2>6, <2>7, <2>8 DEF IInv
<1> QED BY <1>1, <1>2

(* Every frame receive_bytes dispatches preserves the invariant.           *)
LEMMA ReceiveFrameInv ==
    ASSUME IInv, ReceiveFrame
    PROVE  IInv'
<1>1. Receiving /\ received' \in Nat
  BY DEF ReceiveFrame, Receiving, IInv, TypeOK
<1>2. PICK req \in Requests : Dispatch(req)
  BY DEF ReceiveFrame
<1>3. CASE HandleVersion(req)
  BY <1>1, <1>3, HandleVersionInv
<1>4. CASE StartCleanup
  BY <1>1, <1>4, StartCleanupInv, SMTT(60) DEF Receiving
<1>5. CASE Refuse(req)
  BY <1>1, <1>5, RefuseInv
<1>6. CASE req.tag \in Tags /\ ~TagActive(req.tag) /\ Handle(req)
  BY <1>1, <1>5, <1>6, HandleCases, HandleFlushInv, HandleWalkCloneInv, EmitInv, SMTT(60) DEF IInv
<1> QED BY <1>2, <1>3, <1>4, <1>5, <1>6, SMTT(60) DEF Dispatch

(* poll_effect handing out a queued effect preserves the invariant.        *)
LEMMA PollQueuedInv ==
    ASSUME IInv, PollQueued
    PROVE  IInv'
<1>1. /\ UNCHANGED <<negotiated, nextOp, abandoned, cleanup, received, pending, flushes, tagOf,
                     inFlightTags, writeBytes, fids, fidCount, cleanupStarted, terminal, delivered>>
  BY SMTT(60) DEF PollQueued, tagVars, fidVars, lifeVars
<1>2. /\ effects' \in Seq(Effect) /\ Head(effects) \in Effect /\ Head(effects) = effects[1]
      /\ Len(effects') = Len(effects) - 1 /\ 1 \in DOMAIN effects
      /\ \A i \in DOMAIN effects' : i \in Nat /\ i + 1 \in DOMAIN effects /\ i + 1 # 1
                                    /\ effects'[i] = effects[i + 1]
  BY DEF PollQueued, IInv, TypeOK
<1>3. CASE Head(effects).type # "operation"
  <2>1. UNCHANGED host
    BY <1>3, SMTT(60) DEF PollQueued
  <2>2. TypeOK'
    BY <1>1, <1>2, <2>1, SMTT(60) DEF IInv, TypeOK
  <2>3. IndexesAgree'
    BY <1>1, <2>1, SMTT(60) DEF IInv, IndexesAgree
  <2>4. OperationsTracked'
    BY <1>1, <1>2, <2>1, SessionAssumption, SMTT(60) DEF IInv, OperationsTracked, TypeOK
  <2> QED BY <2>2, <2>3, <2>4 DEF IInv
<1>4. CASE Head(effects).type = "operation"
  <2> DEFINE op == Head(effects).op
  <2>1. /\ DOMAIN host' = DOMAIN host \cup {op}
        /\ \A o \in DOMAIN host' : host'[o] \in BOOLEAN
        /\ op \in Nat /\ op \in DOMAIN tagOf \cup abandoned
    BY <1>2, <1>4, SMTT(60) DEF PollQueued, Put, Effect, IInv, TypeOK, OperationsTracked
  <2>2. TypeOK'
    BY <1>1, <1>2, <2>1, SMTT(60) DEF IInv, TypeOK
  <2>3. IndexesAgree'
    BY <1>1, <2>1, Zenon DEF IInv, IndexesAgree
  <2>4. \A i \in DOMAIN effects' : effects'[i].type = "operation" => effects'[i].op # op
    BY <1>2, <1>4, SMTT(60) DEF IInv, OperationsTracked
  <2>5. Len(effects') <= MaxQueuedEffects
    BY <1>2, SessionAssumption, SMTT(60) DEF IInv, OperationsTracked, TypeOK
  <2>6. \A i \in DOMAIN effects' : effects'[i].type = "operation" =>
           effects'[i].op \in DOMAIN tagOf' \cup abandoned' /\ effects'[i].op \notin DOMAIN host'
    BY <1>1, <1>2, <2>1, <2>4, SMTT(60) DEF IInv, OperationsTracked
  <2>7. \A i, j \in DOMAIN effects' :
           effects'[i].type = "operation" /\ effects'[j].type = "operation"
           /\ effects'[i].op = effects'[j].op => i = j
    BY <1>2, SMTT(60) DEF IInv, OperationsTracked
  <2>8. OperationsTracked'
    BY <1>1, <2>5, <2>6, <2>7, SMTT(60) DEF IInv, OperationsTracked
  <2> QED BY <2>2, <2>3, <2>8 DEF IInv
<1> QED BY <1>3, <1>4, SMTT(60)

(* poll_effect generating a cleanup operation preserves the invariant.     *)
LEMMA PollCleanupInv ==
    ASSUME IInv, PollCleanup
    PROVE  IInv'
<1>1. UNCHANGED <<negotiated, effects, received, pending, flushes, tagOf, inFlightTags,
                  writeBytes, fids, fidCount, cleanupStarted, delivered>>
  BY DEF PollCleanup, tagVars, fidVars
<1>2. cleanup' \in Seq(SUBSET CleanupAction)
  <2>1. PICK action \in Head(cleanup) : cleanup' = Batch(Head(cleanup) \ {action}) \o Tail(cleanup)
    BY ZenonT(60) DEF PollCleanup
  <2>2. Head(cleanup) \in SUBSET CleanupAction /\ Tail(cleanup) \in Seq(SUBSET CleanupAction)
    BY DEF PollCleanup, IInv, TypeOK
  <2>3. Batch(Head(cleanup) \ {action}) \in Seq(SUBSET CleanupAction)
    BY <2>2, BatchType
  <2> QED BY <2>1, <2>2, <2>3, ConcatFacts, Zenon
<1>3. CASE UNCHANGED <<nextOp, abandoned, host>> /\ terminal' \in BOOLEAN
  <2>1. TypeOK'
    BY <1>1, <1>2, <1>3, SMTT(60) DEF IInv, TypeOK
  <2> QED BY <1>1, <1>3, <2>1 DEF IInv, IndexesAgree, OperationsTracked
<1>4. CASE /\ nextOp' = nextOp + 1 /\ abandoned' = abandoned \cup {nextOp}
           /\ host' = Put(host, nextOp, FALSE) /\ UNCHANGED terminal
  <2>0. DOMAIN host' = DOMAIN host \cup {nextOp} /\ \A o \in DOMAIN host' : host'[o] \in BOOLEAN
    BY <1>4, Zenon DEF Put, IInv, TypeOK
  <2>1. nextOp \notin DOMAIN tagOf /\ nextOp \in Nat /\ nextOp + 1 \in Nat \ {0}
    BY DEF IInv, TypeOK, OperationsTracked
  <2>2. TypeOK'
    BY <1>1, <1>2, <1>4, <2>0, <2>1, Zenon DEF IInv, TypeOK
  <2>3. IndexesAgree'
    <3>1. abandoned' = abandoned \cup {nextOp} /\ UNCHANGED <<tagOf, pending>>
      BY <1>1, <1>4, SMTT(60)
    <3> QED BY <2>0, <2>1, <3>1 DEF IInv, IndexesAgree
  <2>4. effects = <<>>
    BY SMTT(60) DEF PollCleanup
  <2>5. OperationsTracked'
    BY <1>1, <1>4, <2>1, <2>4, SMTT(60) DEF IInv, OperationsTracked, TypeOK
  <2> QED BY <2>2, <2>3, <2>5 DEF IInv
<1>5. terminal' \in BOOLEAN
  BY Zenon DEF PollCleanup, IInv, TypeOK
<1> QED BY <1>3, <1>4, <1>5, Zenon DEF PollCleanup

(* A new session satisfies the invariant.                                  *)
LEMMA InitInv == Init => IInv
<1> SUFFICES ASSUME Init PROVE IInv
  OBVIOUS
<1>1. DOMAIN Empty = {}
  BY DEF Empty
<1>2. TypeOK
  <2>1. effects \in Seq(Effect) /\ cleanup \in Seq(SUBSET CleanupAction)
    BY DEF Init
  <2>2. negotiated \in BOOLEAN /\ cleanupStarted \in BOOLEAN /\ terminal \in BOOLEAN
        /\ delivered \in BOOLEAN
    BY Zenon DEF Init
  <2> HIDE DEF Empty
  <2> QED BY <1>1, <2>1, <2>2 DEF Init, TypeOK
<1>3. IndexesAgree
  BY <1>1 DEF Init, IndexesAgree
<1>4. OperationsTracked
  BY <1>1, SessionAssumption DEF Init, OperationsTracked
<1> QED BY <1>2, <1>3, <1>4 DEF IInv
=============================================================================
