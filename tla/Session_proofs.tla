-------------------------- MODULE Session_proofs --------------------------
(* Proofs about Session, for every set of tags and fids, every request mix *)
(* and every value of the limits.                                          *)
EXTENDS SessionPolls

(* Completing an abandoned or cleanup operation preserves the invariant.   *)
LEMMA CompleteAbandonedInv ==
    ASSUME IInv, NEW op \in DOMAIN host, host' = Without(host, {op}), UNCHANGED received,
           op \notin DOMAIN tagOf, NEW ok \in BOOLEAN, CompleteAbandoned(op, ok)
    PROVE  IInv'
<1>1. /\ UNCHANGED <<negotiated, effects, nextOp, cleanup, received, pending, flushes, tagOf,
                     inFlightTags, writeBytes, fids, fidCount, cleanupStarted, terminal, delivered>>
      /\ abandoned' = abandoned \ {op}
  BY DEF CompleteAbandoned, tagVars, fidVars, lifeVars
<1>2. DOMAIN host' = DOMAIN host \ {op} /\ \A o \in DOMAIN host' : host'[o] \in BOOLEAN
  BY DEF Without, IInv, TypeOK
<1>3. TypeOK'
  BY <1>1, <1>2, Zenon DEF IInv, TypeOK
<1>4. IndexesAgree'
  BY <1>1, <1>2 DEF IInv, IndexesAgree
<1>5. OperationsTracked'
  BY <1>1, <1>2 DEF IInv, OperationsTracked
<1> QED BY <1>3, <1>4, <1>5 DEF IInv

(* Finishing a pending operation (index removal, replies, fid table)       *)
(* preserves the invariant.                                                *)
LEMMA FinishInv ==
    ASSUME IInv, NEW op \in DOMAIN host, host' = Without(host, {op}), op \in DOMAIN tagOf,
           NEW after, DOMAIN after \subseteq Fids, \A f \in DOMAIN after : after[f] \in FidState,
           NEW done \in SUBSET DOMAIN flushes, NEW replies \in Seq(Effect),
           \A i \in DOMAIN replies : replies[i].type = "reply",
           NEW room \in 0..(MaxQueuedEffects - Len(effects)),
           Finish(op, after, done, replies, room),
           UNCHANGED <<negotiated, nextOp, abandoned, delivered, received>>
    PROVE  IInv'
<1> DEFINE tag == tagOf[op]
           p == pending[tag]
           others == Without(pending, {tag})
           waiting == Without(flushes, done)
           fails == Len(replies) > room
           sent == IF fails THEN SubSeq(replies, 1, room) ELSE replies
<1>1. tag \in DOMAIN pending /\ p \in PendingOperation /\ p.op = op
  BY DEF IInv, IndexesAgree, TypeOK
<1>2. sent \in Seq(Effect) /\ Len(sent) <= room /\ \A i \in DOMAIN sent : sent[i].type = "reply"
  <2>1. CASE fails
    BY <2>1, PrefixFacts, SessionAssumption, SMTT(60) DEF IInv, TypeOK
  <2>2. CASE ~fails
    BY <2>2, SessionAssumption, SMTT(60) DEF IInv, TypeOK
  <2> QED BY <2>1, <2>2
<1>3. /\ effects' \in Seq(Effect) /\ Len(effects') <= MaxQueuedEffects
      /\ \A i \in DOMAIN effects' : effects'[i].type = "operation" =>
            i \in DOMAIN effects /\ effects'[i] = effects[i]
  <2> HIDE DEF sent, fails
  <2>1. effects' = effects \o sent
    BY DEF Finish, sent, fails
  <2>2. effects \in Seq(Effect)
    BY DEF IInv, TypeOK
  <2>3. /\ effects' \in Seq(Effect) /\ Len(effects') = Len(effects) + Len(sent)
        /\ \A i \in DOMAIN effects : i \in DOMAIN effects' /\ effects'[i] = effects[i]
        /\ \A i \in DOMAIN effects' : i \notin DOMAIN effects =>
              i - Len(effects) \in DOMAIN sent /\ effects'[i] = sent[i - Len(effects)]
    BY <1>2, <2>1, <2>2, ConcatFacts, SMTT(60)
  <2> QED BY <1>2, <2>2, <2>3, SessionAssumption, SMTT(60)
<1>4. /\ DOMAIN others = DOMAIN pending \ {tag}
      /\ \A t \in DOMAIN others : others[t] = pending[t] /\ others[t] \in PendingOperation
      /\ DOMAIN waiting = DOMAIN flushes \ done
      /\ \A t \in DOMAIN waiting : waiting[t] = flushes[t] /\ waiting[t] \in FlushState
  BY DEF Without, IInv, TypeOK
<1>5. /\ DOMAIN pending' = DOMAIN pending \ {tag}
      /\ \A t \in DOMAIN pending' : pending'[t] \in PendingOperation /\ pending'[t].op = pending[t].op
      /\ DOMAIN flushes' = DOMAIN flushes \ done
      /\ \A t \in DOMAIN flushes' : flushes'[t] \in FlushState
  <2> HIDE DEF others, waiting, fails
  <2>1. /\ pending' = IF fails THEN SuppressPending(others) ELSE others
        /\ flushes' = IF fails THEN SuppressFlushes(waiting) ELSE waiting
    BY DEF Finish, others, waiting, fails
  <2>2. CASE fails
    BY <1>4, <2>1, <2>2, SuppressPendingFacts, SuppressFlushesFacts, SMTT(60)
  <2>3. CASE ~fails
    BY <1>4, <2>1, <2>3, SMTT(60)
  <2> QED BY <2>2, <2>3, SMTT(60)
<1>6. DOMAIN fids' \subseteq Fids /\ \A f \in DOMAIN fids' : fids'[f] \in FidState
  BY DEF Finish, Empty
<1>7. cleanup' \in Seq(SUBSET CleanupAction)
  <2> DEFINE c1 == IF terminal THEN Batch(Releases(after)) ELSE <<>>
             c2 == IF fails THEN Batch(Cancels(Uncancelled(others))) ELSE <<>>
             c3 == IF fails /\ ~terminal THEN Batch(Releases(after)) ELSE <<>>
  <2>1. Batch(Releases(after)) \in Seq(SUBSET CleanupAction)
    BY ReleasesType, BatchType
  <2>2. Batch(Cancels(Uncancelled(others))) \in Seq(SUBSET CleanupAction)
    <3> HIDE DEF others
    <3>1. \A t \in DOMAIN Uncancelled(others) : Uncancelled(others)[t] \in PendingOperation
      BY <1>4, UncancelledFacts, ZenonT(60)
    <3> QED BY <3>1, CancelsType, BatchType, SMTT(60)
  <2>3. <<>> \in Seq(SUBSET CleanupAction)
    OBVIOUS
  <2>4. /\ c1 \in Seq(SUBSET CleanupAction) /\ c2 \in Seq(SUBSET CleanupAction)
        /\ c3 \in Seq(SUBSET CleanupAction)
    BY <2>1, <2>2, <2>3
  <2>5. cleanup' = ((cleanup \o c1) \o c2) \o c3
    BY DEF Finish
  <2> HIDE DEF c1, c2, c3
  <2>6. cleanup \o c1 \in Seq(SUBSET CleanupAction)
    BY <2>4, ConcatFacts DEF IInv, TypeOK
  <2>7. (cleanup \o c1) \o c2 \in Seq(SUBSET CleanupAction)
    BY <2>4, <2>6, ConcatFacts, SMTT(60)
  <2> QED BY <2>4, <2>5, <2>7, ConcatFacts, SMTT(60)
<1>8. inFlightTags' \in Nat /\ writeBytes' \in Nat /\ fidCount' \in Nat
  <2>1. Cardinality(done) \in Nat
    BY DomainsFinite, FS_Subset, FS_CardinalityType, SMTT(60) DEF IInv
  <2>2. inFlightTags' \in Nat
    BY <2>1, ReleaseType, Zenon DEF Finish, IInv, TypeOK
  <2>3. writeBytes' \in Nat
    BY <1>1, ReleaseType DEF Finish, IInv, TypeOK, PendingOperation
  <2>4. \A b \in BOOLEAN : FidsReleased(after, b) \in Nat
    <3>1. IsFiniteSet(DOMAIN fids) /\ IsFiniteSet(DOMAIN after)
      BY DomainsFinite, FS_Subset, SessionAssumption, SMTT(60) DEF IInv
    <3>2. Cardinality(DOMAIN fids \cup DOMAIN after) \in Nat
          /\ Cardinality(DOMAIN fids \ DOMAIN after) \in Nat
      BY <3>1, FS_Union, FS_Difference, FS_CardinalityType, Zenon
    <3> QED BY <3>2 DEF FidsReleased
  <2>5. fidCount' \in Nat
    BY <2>4, ReleaseType, Zenon DEF Finish, IInv, TypeOK
  <2> QED BY <2>2, <2>3, <2>5, SMTT(60)
<1>9. DOMAIN host' = DOMAIN host \ {op} /\ \A o \in DOMAIN host' : host'[o] \in BOOLEAN
  BY DEF Without, IInv, TypeOK
<1>10. DOMAIN tagOf' = DOMAIN tagOf \ {op} /\ \A o \in DOMAIN tagOf' : tagOf'[o] = tagOf[o]
  BY DEF Finish, Without
<1>11. terminal' \in BOOLEAN /\ cleanupStarted' \in BOOLEAN
  <2> HIDE DEF fails
  <2>1. terminal' = (terminal \/ fails) /\ cleanupStarted' = (cleanupStarted \/ fails)
    BY DEF Finish, fails
  <2> QED BY <2>1, Zenon
<1>12. TypeOK'
  BY <1>3, <1>5, <1>6, <1>7, <1>8, <1>9, <1>10, <1>11, Zenon DEF IInv, TypeOK
<1>13. IndexesAgree'
  <2> HIDE DEF tag
  <2>1. \A t \in DOMAIN pending : t # tag => pending[t].op # op
    BY <1>1 DEF IInv, IndexesAgree, tag
  <2>2. \A o \in DOMAIN tagOf : o # op => tagOf[o] # tag
    BY <1>1 DEF IInv, IndexesAgree
  <2>3. \A o \in DOMAIN tagOf' : tagOf'[o] \in DOMAIN pending' /\ pending'[tagOf'[o]].op = o
    BY <1>5, <1>10, <2>2, SMTT(60) DEF IInv, IndexesAgree
  <2>4. \A t \in DOMAIN pending' : pending'[t].op \in DOMAIN tagOf' /\ tagOf'[pending'[t].op] = t
    BY <1>5, <1>10, <2>1, SMTT(60) DEF IInv, IndexesAgree
  <2>5. DOMAIN tagOf' \cap abandoned' = {} /\ DOMAIN host' \subseteq DOMAIN tagOf' \cup abandoned'
    BY <1>9, <1>10, SMTT(60) DEF IInv, IndexesAgree
  <2> QED BY <2>3, <2>4, <2>5, Zenon DEF IndexesAgree
<1>14. OperationsTracked'
  BY <1>3, <1>9, <1>10, SMTT(60) DEF IInv, OperationsTracked
<1> QED BY <1>12, <1>13, <1>14 DEF IInv

(* A completion is one Finish step, with its reply and those of flushes    *)
(* that waited for it, in some order and each once.                        *)
CompletesWith(op, ok, count, after, own, done, answering, order, room) ==
    LET p == pending[tagOf[op]]
    IN  /\ after = IF ok THEN Succeeded(p.cont, op, count) ELSE RolledBack(p.cont)
        /\ own = IF p.suppressed THEN <<>> ELSE <<Reply(p.rid, tagOf[op], "result")>>
        /\ done \subseteq DOMAIN flushes
        /\ answering = {t \in done : ~flushes[t].suppressed}
        /\ order \in Injection(1..Cardinality(answering), answering)
        /\ room \in 0..(MaxQueuedEffects - Len(effects))
        /\ Finish(op, after, done, own \o FlushReplies(order), room)

(* Completing a pending operation is one of the outcomes of CompletesWith. *)
LEMMA CompletePendingFacts ==
    ASSUME IInv, NEW op \in DOMAIN tagOf, NEW ok \in BOOLEAN, NEW encodes \in BOOLEAN,
           NEW count \in 0..pending[tagOf[op]].cont.n, CompletePending(op, ok, count, encodes)
    PROVE  \E after, own, done, answering, order, room :
              CompletesWith(op, ok, count, after, own, done, answering, order, room)
<1> DEFINE p == pending[tagOf[op]]
           after == IF ok THEN Succeeded(p.cont, op, count) ELSE RolledBack(p.cont)
           own == IF p.suppressed THEN <<>> ELSE <<Reply(p.rid, tagOf[op], "result")>>
           done == {t \in DOMAIN flushes : t \in Range(FlushOrder(p.waiters))}
           answering == {t \in done : ~flushes[t].suppressed}
           room == IF encodes \/ p.suppressed THEN MaxQueuedEffects - Len(effects) ELSE 0
<1>1. PICK order \in Injection(1..Cardinality(answering), answering) :
        Finish(op, after, done, own \o FlushReplies(order), room)
  BY Zenon DEF CompletePending
<1>2. room \in 0..(MaxQueuedEffects - Len(effects))
  BY SessionAssumption DEF IInv, TypeOK, OperationsTracked
<1>3. done \subseteq DOMAIN flushes /\ answering = {t \in done : ~flushes[t].suppressed}
  OBVIOUS
<1> HIDE DEF after, own, done, answering, room
<1>4. CompletesWith(op, ok, count, after, own, done, answering, order, room)
  BY <1>1, <1>2, <1>3 DEF CompletesWith, p, after, own
<1> QED BY <1>4, SMTT(60)

(* The replies of a completion: at most one of its own, then the flushes.  *)
LEMMA RepliesType ==
    ASSUME IInv, NEW op \in DOMAIN tagOf, NEW own,
           own = IF pending[tagOf[op]].suppressed THEN <<>>
                 ELSE <<Reply(pending[tagOf[op]].rid, tagOf[op], "result")>>,
           NEW rest \in Seq(Effect), \A i \in DOMAIN rest : rest[i].type = "reply"
    PROVE  /\ own \in Seq(Effect) /\ own \o rest \in Seq(Effect)
           /\ Len(own \o rest) = Len(own) + Len(rest)
           /\ \A i \in DOMAIN (own \o rest) : (own \o rest)[i].type = "reply"
<1> DEFINE r == Reply(pending[tagOf[op]].rid, tagOf[op], "result")
<1>1. r \in Effect /\ r.type = "reply"
  <2>1. tagOf[op] \in Tags /\ pending[tagOf[op]].rid \in Nat
    BY DEF IInv, TypeOK, IndexesAgree, PendingOperation
  <2> QED BY <2>1, ReplyType
<1>2. own \in Seq(Effect) /\ \A i \in DOMAIN own : own[i].type = "reply"
  <2> HIDE DEF r
  <2>1. own = IF pending[tagOf[op]].suppressed THEN <<>> ELSE <<r>>
    BY DEF r
  <2> QED BY <1>1, <2>1
<1>3. /\ own \o rest \in Seq(Effect) /\ Len(own \o rest) = Len(own) + Len(rest)
      /\ \A i \in DOMAIN own : (own \o rest)[i] = own[i]
      /\ \A i \in DOMAIN (own \o rest) : i \notin DOMAIN own =>
            i - Len(own) \in DOMAIN rest /\ (own \o rest)[i] = rest[i - Len(own)]
  BY <1>2, ConcatFacts, SMTT(60)
<1> QED BY <1>2, <1>3

(* complete() of a pending operation preserves the invariant.              *)
LEMMA CompletePendingInv ==
    ASSUME IInv, NEW op \in DOMAIN host, host' = Without(host, {op}), UNCHANGED received,
           op \in DOMAIN tagOf, NEW ok \in BOOLEAN, NEW encodes \in BOOLEAN,
           NEW count \in 0..pending[tagOf[op]].cont.n, CompletePending(op, ok, count, encodes)
    PROVE  IInv'
<1> DEFINE p == pending[tagOf[op]]
<1>1. PICK after, own, done, answering, order, room :
        CompletesWith(op, ok, count, after, own, done, answering, order, room)
  BY CompletePendingFacts
<1>2. DOMAIN after \subseteq Fids /\ \A f \in DOMAIN after : after[f] \in FidState
  <2>1. p.cont \in Continuation /\ p.cont.n \in Nat /\ op \in Nat
    BY SMTT(60) DEF IInv, TypeOK, IndexesAgree, PendingOperation, Continuation
  <2>2. after \in {Succeeded(p.cont, op, count), RolledBack(p.cont)}
    BY <1>1, SMTT(60) DEF CompletesWith
  <2> QED BY <2>1, <2>2, AfterType DEF IInv
<1>3. /\ FlushReplies(order) \in Seq(Effect)
      /\ \A i \in DOMAIN FlushReplies(order) : FlushReplies(order)[i].type = "reply"
  <2>1. answering \in SUBSET DOMAIN flushes
    BY <1>1, SMTT(60) DEF CompletesWith
  <2>2. TypeOK /\ order \in Injection(1..Cardinality(answering), answering)
    BY <1>1, Zenon DEF IInv, CompletesWith
  <2>3. /\ FlushReplies(order) \in Seq(Effect)
        /\ Len(FlushReplies(order)) = Cardinality(answering)
        /\ \A i \in 1..Cardinality(answering) : FlushReplies(order)[i].type = "reply"
    BY <2>1, <2>2, FlushRepliesFacts, Zenon
  <2> QED BY <2>3
<1>4. /\ own \o FlushReplies(order) \in Seq(Effect)
      /\ \A i \in DOMAIN (own \o FlushReplies(order)) : (own \o FlushReplies(order))[i].type = "reply"
  BY <1>1, <1>3, RepliesType, Zenon DEF CompletesWith
<1>5. UNCHANGED <<negotiated, nextOp, abandoned, delivered>>
  BY DEF CompletePending
<1> QED BY <1>1, <1>2, <1>4, <1>5, FinishInv, Zenon DEF CompletesWith

(* Every step of the session preserves the invariant.                      *)
LEMMA NextInv ==
    ASSUME IInv, [Next]_vars
    PROVE  IInv'
<1>1. CASE ReceiveFrame
  BY <1>1, ReceiveFrameInv
<1>2. CASE ReceiveMalformed
  BY <1>2, StartCleanupInv, SMTT(60) DEF ReceiveMalformed, IInv, TypeOK
<1>3. CASE BeginClose
  BY <1>3, StartCleanupInv, SMTT(60) DEF BeginClose, IInv, TypeOK
<1>4. CASE PollQueued
  BY <1>4, PollQueuedInv
<1>5. CASE PollCleanup
  BY <1>5, PollCleanupInv
<1>6. CASE PollClose
  BY <1>6, SMTT(60) DEF PollClose, IInv, TypeOK, IndexesAgree, OperationsTracked, tagVars, fidVars
<1>7. ASSUME NEW op \in DOMAIN host, Complete(op)
      PROVE  IInv'
  <2>1. CASE op \in DOMAIN tagOf /\ \E ok \in BOOLEAN, encodes \in BOOLEAN,
                count \in 0..pending[tagOf[op]].cont.n : CompletePending(op, ok, count, encodes)
    BY <1>7, <2>1, CompletePendingInv, SMTT(60) DEF Complete
  <2>2. CASE op \notin DOMAIN tagOf /\ \E ok \in BOOLEAN : CompleteAbandoned(op, ok)
    BY <1>7, <2>2, CompleteAbandonedInv, SMTT(60) DEF Complete
  <2> QED BY <1>7, <2>1, <2>2, SMTT(60) DEF Complete
<1>8. CASE UNCHANGED vars
  BY <1>8 DEF vars, tagVars, fidVars, lifeVars, IInv, TypeOK, IndexesAgree, OperationsTracked
<1> QED BY <1>1, <1>2, <1>3, <1>4, <1>5, <1>6, <1>7, <1>8 DEF Next, Stopped

(* Every reachable state of a session is well typed, its operation and tag *)
(* indexes agree, and the operations it issued are tracked.                *)
THEOREM SessionTracked == Spec => [](TypeOK /\ IndexesAgree /\ OperationsTracked)
<1>1. Init => IInv
  BY InitInv
<1>2. IInv /\ [Next]_vars => IInv'
  BY NextInv
<1> QED BY <1>1, <1>2, PTL DEF Spec, IInv

=============================================================================
