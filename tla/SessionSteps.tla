---------------------------- MODULE SessionSteps ----------------------------
(* emit_operation, begin_close, responses and a cloning walk preserve the  *)
(* inductive invariant of SessionFacts.                                    *)
EXTENDS SessionFacts

(* emit_operation preserves the invariant: the new operation id is fresh   *)
(* and enters both indexes.                                                *)
LEMMA EmitInv ==
    ASSUME IInv, Receiving, NEW req \in Requests, req.tag \in Tags, ~TagActive(req.tag),
           NEW cont \in Continuation, NEW bytes \in Nat, Emit(req, cont, bytes)
    PROVE  IInv'
<1> DEFINE op == Operation(nextOp, cont.kind)
           entry == [op |-> nextOp, cont |-> cont, suppressed |-> FALSE, cancelled |-> FALSE,
                     waiters |-> <<>>, bytes |-> bytes, rid |-> Rid]
<1>1. /\ nextOp \in Nat \ {0} /\ nextOp' \in Nat \ {0} /\ nextOp <= nextOp'
      /\ UNCHANGED <<negotiated, abandoned, flushes, cleanup, cleanupStarted, terminal>>
      /\ UNCHANGED <<delivered, host>> /\ received' \in Nat
  BY SMTT(60) DEF IInv, TypeOK, Emit, Receiving
<1>2. CASE UNCHANGED <<effects, inFlightTags, writeBytes, pending, tagOf, fids, fidCount>>
  <2>1. TypeOK'
    BY <1>1, <1>2, SMTT(60) DEF IInv, TypeOK
  <2>2. IndexesAgree'
    BY <1>1, <1>2, SMTT(60) DEF IInv, IndexesAgree
  <2>3. OperationsTracked'
    BY <1>1, <1>2, SMTT(60) DEF IInv, TypeOK, OperationsTracked
  <2> QED BY <2>1, <2>2, <2>3 DEF IInv
<1>3. CASE /\ Len(effects) < MaxQueuedEffects
           /\ nextOp' = nextOp + 1
           /\ effects' = Append(effects, op)
           /\ inFlightTags' = inFlightTags + 1
           /\ writeBytes' = writeBytes + bytes
           /\ pending' = Put(pending, req.tag, entry)
           /\ tagOf' = Put(tagOf, nextOp, req.tag)
           /\ fids' = IF cont.fid = NoFid THEN fids ELSE Put(fids, cont.fid, PendingFid)
           /\ fidCount' \in Nat
  <2>1. entry \in PendingOperation /\ entry.op = nextOp
    BY <1>1, SMTT(60) DEF PendingOperation, IInv, TypeOK, Rid
  <2>2. op \in Effect /\ op.op = nextOp
    BY <1>1, OperationType, SMTT(60) DEF Operation
  <2> HIDE DEF op, entry
  <2>3. /\ effects' \in Seq(Effect) /\ Len(effects') <= MaxQueuedEffects
        /\ DOMAIN effects' = DOMAIN effects \cup {Len(effects) + 1}
        /\ effects'[Len(effects) + 1] = op
        /\ \A i \in DOMAIN effects : effects'[i] = effects[i]
        /\ Len(effects) + 1 \notin DOMAIN effects
    BY <1>3, <2>2, AppendFacts, SessionAssumption, SMTT(60) DEF IInv, TypeOK
  <2>4. /\ DOMAIN pending' = DOMAIN pending \cup {req.tag}
        /\ pending'[req.tag] = entry
        /\ \A t \in DOMAIN pending : t # req.tag /\ pending'[t] = pending[t]
    BY <1>3, SMTT(60) DEF Put, TagActive
  <2>5. /\ DOMAIN tagOf' = DOMAIN tagOf \cup {nextOp}
        /\ tagOf'[nextOp] = req.tag
        /\ \A o \in DOMAIN tagOf : o # nextOp /\ tagOf'[o] = tagOf[o]
        /\ nextOp \notin abandoned /\ nextOp \notin DOMAIN host
    BY <1>1, <1>3, SMTT(60) DEF Put, IInv, OperationsTracked, IndexesAgree
  <2>6. DOMAIN fids' \subseteq Fids /\ \A f \in DOMAIN fids' : fids'[f] \in FidState
    BY <1>3, BareFidType, SMTT(60) DEF Put, PendingFid, IInv, TypeOK, Continuation
  <2>7. TypeOK'
    BY <1>1, <1>3, <2>1, <2>3, <2>4, <2>5, <2>6, SMTT(60) DEF IInv, TypeOK
  <2>8. IndexesAgree'
    BY <1>1, <2>1, <2>4, <2>5, SMTT(60) DEF IInv, IndexesAgree
  <2>9. OperationsTracked'
    <3>1. \A i \in DOMAIN effects : effects[i].type = "operation" =>
             effects[i].op \in DOMAIN tagOf \cup abandoned /\ effects[i].op # nextOp
      BY <1>1, SMTT(60) DEF IInv, OperationsTracked
    <3>2. DOMAIN tagOf' \cup abandoned' \subseteq 1..(nextOp' - 1)
      BY <1>1, <1>3, <2>5, SMTT(60) DEF IInv, OperationsTracked
    <3>3. \A i \in DOMAIN effects' : effects'[i].type = "operation" =>
             effects'[i].op \in DOMAIN tagOf' \cup abandoned' /\ effects'[i].op \notin DOMAIN host'
      BY <1>1, <2>2, <2>3, <2>5, SMTT(60) DEF IInv, OperationsTracked
    <3>4. \A i, j \in DOMAIN effects' :
             effects'[i].type = "operation" /\ effects'[j].type = "operation"
             /\ effects'[i].op = effects'[j].op => i = j
      BY <2>2, <2>3, <3>1, SMTT(60) DEF IInv, OperationsTracked
    <3> QED BY <2>3, <3>2, <3>3, <3>4, SMTT(60) DEF OperationsTracked
  <2> QED BY <2>7, <2>8, <2>9 DEF IInv
<1>4. fidCount' \in Nat
  BY SMTT(60) DEF Emit, fidVars, IInv, TypeOK
<1> QED
  BY <1>2, <1>3, <1>4, SMTT(60) DEF Emit, fidVars

(* begin_close and a protocol failure preserve the invariant.              *)
LEMMA StartCleanupInv ==
    ASSUME IInv, StartCleanup, UNCHANGED <<delivered, host>>, received' \in Nat
    PROVE  IInv'
<1>1. CASE cleanupStarted
  BY <1>1 DEF IInv, TypeOK, IndexesAgree, OperationsTracked, StartCleanup, fidVars
<1>2. CASE ~cleanupStarted
  <2>1. /\ DOMAIN pending' = DOMAIN pending
        /\ \A t \in DOMAIN pending : pending'[t] \in PendingOperation /\ pending'[t].op = pending[t].op
    <3>1. pending' = SuppressPending(pending)
      BY <1>2, Zenon DEF StartCleanup
    <3> QED BY <3>1, SuppressPendingFacts, Zenon DEF IInv, TypeOK
  <2>2. DOMAIN flushes' = DOMAIN flushes /\ \A t \in DOMAIN flushes : flushes'[t] \in FlushState
    <3>1. flushes' = SuppressFlushes(flushes)
      BY <1>2, Zenon DEF StartCleanup
    <3> QED BY <3>1, SuppressFlushesFacts, Zenon DEF IInv, TypeOK
  <2>3. cleanup' \in Seq(SUBSET CleanupAction)
    <3>1. Batch(Cancels(Uncancelled(pending))) \in Seq(SUBSET CleanupAction)
      BY UncancelledFacts, CancelsType, BatchType, Zenon DEF IInv, TypeOK
    <3>2. Batch(Releases(fids)) \in Seq(SUBSET CleanupAction)
      BY ReleasesType, BatchType DEF IInv, TypeOK
    <3>3. cleanup \o Batch(Cancels(Uncancelled(pending))) \in Seq(SUBSET CleanupAction)
      BY <3>1, ConcatFacts DEF IInv, TypeOK
    <3>4. cleanup' = (cleanup \o Batch(Cancels(Uncancelled(pending)))) \o Batch(Releases(fids))
      BY <1>2 DEF StartCleanup
    <3> QED BY <3>2, <3>3, <3>4, ConcatFacts, SMTT(60)
  <2>4. TypeOK'
    <3>1. fidCount' \in Nat
      BY <1>2, DomainsFinite, ReleaseType, ZenonT(60) DEF StartCleanup, IInv, TypeOK
    <3> QED
      BY <1>2, <2>1, <2>2, <2>3, <3>1, SMTT(60) DEF IInv, TypeOK, StartCleanup, Empty
  <2>5. IndexesAgree'
    BY <1>2, <2>1 DEF IInv, IndexesAgree, StartCleanup
  <2>6. OperationsTracked'
    BY <1>2, SMTT(60) DEF IInv, OperationsTracked, StartCleanup
  <2> QED BY <2>4, <2>5, <2>6, SMTT(60) DEF IInv
<1> QED BY <1>1, <1>2, SMTT(60)

(* An immediate response (an error or a local answer) preserves the        *)
(* invariant.                                                              *)
LEMMA QueueResponseInv ==
    ASSUME IInv, Receiving, NEW tag \in Tags \cup {NOTAG},
           NEW body \in {"none", "result", "flush", "version"},
           QueueResponse(tag, body)
    PROVE  /\ effects' \in Seq(Effect)
           /\ Len(effects') <= MaxQueuedEffects
           /\ \A i \in DOMAIN effects' : effects'[i].type = "operation" =>
                 i \in DOMAIN effects /\ effects'[i] = effects[i]
<1>1. CASE Len(effects) < MaxQueuedEffects
  <2>1. Reply(Rid, tag, body) \in Effect /\ Reply(Rid, tag, body).type = "reply"
    <3>1. Rid \in Nat
      BY DEF IInv, TypeOK, Rid
    <3> QED BY <3>1, ReplyType
  <2>2. effects \in Seq(Effect) /\ effects' = Append(effects, Reply(Rid, tag, body))
    BY <1>1 DEF QueueResponse, IInv, TypeOK
  <2> QED
    BY <1>1, <2>1, <2>2, AppendFacts, SessionAssumption, SMTT(60)
<1>2. CASE ~(Len(effects) < MaxQueuedEffects)
  BY <1>2 DEF QueueResponse, IInv, TypeOK, OperationsTracked
<1> QED BY <1>1, <1>2

(* Answering a request with an error and no operation preserves the        *)
(* invariant.                                                              *)
LEMMA RefuseInv ==
    ASSUME IInv, Receiving, NEW req \in Requests, Refuse(req)
    PROVE  IInv'
<1>1. req.tag \in Tags \cup {NOTAG}
  BY SessionAssumption DEF RequestType
<1>2. /\ effects' \in Seq(Effect)
      /\ Len(effects') <= MaxQueuedEffects
      /\ \A i \in DOMAIN effects' : effects'[i].type = "operation" =>
            i \in DOMAIN effects /\ effects'[i] = effects[i]
  BY <1>1, QueueResponseInv DEF Refuse
<1>3. TypeOK'
  BY <1>2 DEF IInv, TypeOK, Refuse, Receiving, tagVars, fidVars
<1>4. IndexesAgree'
  BY DEF IInv, IndexesAgree, Refuse, Receiving, tagVars
<1>5. OperationsTracked'
  BY <1>2 DEF IInv, OperationsTracked, Refuse, Receiving, tagVars
<1> QED BY <1>3, <1>4, <1>5 DEF IInv

(* A walk of no names, answered inside the session, preserves the          *)
(* invariant.                                                              *)
LEMMA HandleWalkCloneInv ==
    ASSUME IInv, Receiving, NEW req \in Requests, HandleWalkClone(req)
    PROVE  IInv'
<1>1. req.tag \in Tags \cup {NOTAG} /\ req.other \in Fids \cup {NoFid}
  BY SessionAssumption, SMTT(60) DEF RequestType
<1>2. /\ effects' \in Seq(Effect)
      /\ Len(effects') <= MaxQueuedEffects
      /\ \A i \in DOMAIN effects' : effects'[i].type = "operation" =>
            i \in DOMAIN effects /\ effects'[i] = effects[i]
  <2>1. CASE QueueResponse(req.tag, "result")
    BY <1>1, <2>1, QueueResponseInv, SMTT(60)
  <2>2. CASE UNCHANGED effects
    BY <2>2, SMTT(60) DEF IInv, TypeOK, OperationsTracked
  <2> QED BY <2>1, <2>2 DEF HandleWalkClone
<1>3. /\ DOMAIN fids' \subseteq Fids /\ \A f \in DOMAIN fids' : fids'[f] \in FidState
      /\ fidCount' \in Nat
  BY <1>1, BareFidType, SMTT(60) DEF HandleWalkClone, fidVars, Put, ObjectFid, IInv, TypeOK
<1>4. TypeOK'
  BY <1>2, <1>3, SMTT(60) DEF IInv, TypeOK, HandleWalkClone, Receiving, tagVars
<1>5. IndexesAgree'
  BY SMTT(60) DEF IInv, IndexesAgree, HandleWalkClone, Receiving, tagVars
<1>6. OperationsTracked'
  BY <1>2 DEF IInv, OperationsTracked, HandleWalkClone, Receiving, tagVars
<1> QED BY <1>4, <1>5, <1>6 DEF IInv
=============================================================================
