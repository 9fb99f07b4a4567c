---------------------------- MODULE SessionFacts ----------------------------
(* Lemmas about the operators Session is built from: the types of what     *)
(* they return and what they preserve.                                     *)
EXTENDS Session, TLAPS, FiniteSetTheorems

-----------------------------------------------------------------------------
(* Sequences.                                                              *)

(* Appending one element keeps a sequence typed and keeps the old elements *)
(* in its range.                                                           *)
LEMMA AppendFacts ==
    ASSUME NEW S, NEW s \in Seq(S), NEW e \in S
    PROVE  /\ Append(s, e) \in Seq(S)
           /\ Len(Append(s, e)) = Len(s) + 1
           /\ DOMAIN Append(s, e) = DOMAIN s \cup {Len(s) + 1}
           /\ Append(s, e)[Len(s) + 1] = e
           /\ \A i \in DOMAIN s : Append(s, e)[i] = s[i]
  OBVIOUS

(* The range of a concatenation is the union of the ranges.                *)
LEMMA ConcatFacts ==
    ASSUME NEW S, NEW s \in Seq(S), NEW r \in Seq(S)
    PROVE  /\ s \o r \in Seq(S)
           /\ Len(s \o r) = Len(s) + Len(r)
           /\ \A i \in DOMAIN s : i \in DOMAIN (s \o r) /\ (s \o r)[i] = s[i]
           /\ \A i \in DOMAIN (s \o r) : i \notin DOMAIN s =>
                 i - Len(s) \in DOMAIN r /\ (s \o r)[i] = r[i - Len(s)]
  OBVIOUS

(* A one-element sequence is typed and its range is a singleton.           *)
LEMMA SingletonSeq ==
    ASSUME NEW S, NEW e \in S
    PROVE  <<e>> \in Seq(S) /\ Len(<<e>>) = 1 /\ <<e>>[1] = e
  OBVIOUS

(* What a handler passes to emit_operation: the fid it moves into          *)
(* transition is free, or is the settled fid kept as the original.         *)
Claimable(cont) ==
    \/ cont.fid = NoFid
    \/ cont.fid \notin DOMAIN fids /\ cont.original = Gone /\ cont.kind # "Release"
    \/ /\ cont.fid \in DOMAIN fids /\ fids[cont.fid].kind # "Pending"
       /\ \/ cont.kind # "Release" /\ cont.original = fids[cont.fid]
          \/ cont.kind = "Release" /\ cont.original = Gone

(* A continuation is well typed when it names a fid exactly if its kind    *)
(* owns one.                                                               *)
LEMMA ContType ==
    ASSUME NEW kind \in ContKinds, NEW fid \in Fids \cup {NoFid},
           NEW original \in FidState, NEW n \in Nat, kind = "NoState" <=> fid = NoFid
    PROVE  Cont(kind, fid, original, n) \in Continuation
  BY DEF Cont, Continuation

(* A fid with no open or xattr handle is a well-typed fid.                 *)
LEMMA BareFidType ==
    ASSUME NEW kind \in {"Gone", "Pending", "Auth", "Object"}
    PROVE  BareFid(kind) \in FidState
  BY DEF BareFid, FidState

(* Every request handler answers, flushes, clones a fid, or emits one      *)
(* operation for a claimable fid.                                          *)
LEMMA HandleCases ==
    ASSUME TypeOK, NEW req \in Requests, Handle(req)
    PROVE  \/ Refuse(req)
           \/ HandleFlush(req)
           \/ HandleWalkClone(req)
           \/ \E cont \in Continuation, bytes \in Nat :
                 Claimable(cont) /\ Emit(req, cont, bytes)
<1>1. /\ req.n \in Nat /\ req.fid \in Fids \cup {NoFid} /\ req.other \in Fids \cup {NoFid}
      /\ \A f \in DOMAIN fids : fids[f] \in FidState /\ f \in Fids
      /\ NoFid \notin Fids /\ Gone \in FidState
  BY SessionAssumption, BareFidType DEF RequestType, TypeOK, Gone
<1>2. NoState \in Continuation /\ Claimable(NoState)
  BY <1>1, ContType DEF NoState, Claimable, ContKinds, Cont
<1>3. CASE HandleAuth(req)
  BY <1>1, <1>2, <1>3, ContType
  DEF HandleAuth, Claimable, Cont, ContKinds, IsAuth, IsObject, IsPlain, IsOpen, IsUnopened
<1>4. CASE HandleAttach(req)
  BY <1>1, <1>2, <1>4, ContType
  DEF HandleAttach, Claimable, Cont, ContKinds, IsAuth, IsObject, IsPlain, IsOpen, IsUnopened
<1>5. CASE HandleWalk(req)
  BY <1>1, <1>2, <1>5, ContType, SMTT(60)
  DEF HandleWalk, Claimable, Cont, ContKinds, IsAuth, IsObject, IsPlain, IsOpen, IsUnopened
<1>6. CASE HandleOpen(req)
  BY <1>1, <1>2, <1>6, ContType, SMTT(60)
  DEF HandleOpen, Claimable, Cont, ContKinds, IsAuth, IsObject, IsPlain, IsOpen, IsUnopened
<1>7. CASE HandleXattrWalk(req)
  BY <1>1, <1>2, <1>7, ContType, SMTT(60)
  DEF HandleXattrWalk, Claimable, Cont, ContKinds, IsAuth, IsObject, IsPlain, IsOpen, IsUnopened
<1>8. CASE HandleXattrCreate(req)
  BY <1>1, <1>2, <1>8, ContType, SMTT(60)
  DEF HandleXattrCreate, Claimable, Cont, ContKinds, IsAuth, IsObject, IsPlain, IsOpen, IsUnopened
<1>9. CASE HandleRead(req)
  BY <1>1, <1>2, <1>9, ContType, SMTT(60)
  DEF HandleRead, Claimable, Cont, ContKinds, IsAuth, IsObject, IsPlain, IsOpen, IsUnopened
<1>10. CASE HandleWrite(req)
  BY <1>1, <1>2, <1>10, ContType, SMTT(60)
  DEF HandleWrite, Claimable, Cont, ContKinds, IsAuth, IsObject, IsPlain, IsOpen, IsUnopened
<1>11. CASE HandleFile(req)
  BY <1>1, <1>2, <1>11, ContType
  DEF HandleFile, Claimable, Cont, ContKinds, IsAuth, IsObject, IsPlain, IsOpen, IsUnopened
<1>12. CASE HandleAttr(req)
  BY <1>1, <1>2, <1>12, ContType, SMTT(60)
  DEF HandleAttr, Claimable, Cont, ContKinds, IsAuth, IsObject, IsPlain, IsOpen, IsUnopened
<1>13. CASE HandleNamespace(req)
  BY <1>1, <1>2, <1>13, ContType, SMTT(60)
  DEF HandleNamespace, Claimable, Cont, ContKinds, IsAuth, IsObject, IsPlain, IsOpen, IsUnopened
<1>14. CASE HandleClunk(req)
  BY <1>1, <1>2, <1>14, ContType, SMTT(60)
  DEF HandleClunk, Claimable, Cont, ContKinds, IsAuth, IsObject, IsPlain, IsOpen, IsUnopened
<1>15. CASE HandleRemove(req)
  BY <1>1, <1>2, <1>15, ContType, SMTT(60)
  DEF HandleRemove, Claimable, Cont, ContKinds, IsAuth, IsObject, IsPlain, IsOpen, IsUnopened
<1> QED
  BY <1>3, <1>4, <1>5, <1>6, <1>7, <1>8, <1>9,
     <1>10, <1>11, <1>12, <1>13, <1>14, <1>15, SMTT(60) DEF Handle

-----------------------------------------------------------------------------
(* Indexes and types.                                                      *)

IInv == TypeOK /\ IndexesAgree /\ OperationsTracked

(* The part of a step that every received frame shares.                    *)
Receiving == received' = received + 1 /\ UNCHANGED <<delivered, host>>

(* A response is a well-typed effect that keeps the request it answers.    *)
LEMMA ReplyType ==
    ASSUME NEW rid \in Nat, NEW tag \in Tags \cup {NOTAG},
           NEW body \in {"none", "result", "flush", "version"}
    PROVE  /\ Reply(rid, tag, body) \in Effect
           /\ Reply(rid, tag, body).type = "reply"
           /\ Reply(rid, tag, body).rid = rid
           /\ Reply(rid, tag, body).body = body
  BY DEF Reply, Effect

(* A queued operation is a well-typed effect.                              *)
LEMMA OperationType ==
    ASSUME NEW op \in Nat, NEW kind
    PROVE  Operation(op, kind) \in Effect /\ Cancel(op) \in Effect
  BY DEF Operation, Cancel, Effect

(* A batch is a sequence of sets: empty, or the one set.                   *)
LEMMA BatchType ==
    ASSUME NEW S, NEW B \in SUBSET S
    PROVE  Batch(B) \in Seq(SUBSET S)
<1>1. CASE B = {}
  BY <1>1 DEF Batch
<1>2. CASE B # {}
  BY <1>2, SingletonSeq, Zenon DEF Batch
<1> QED BY <1>1, <1>2

(* The cancellations of a set of operations are well-typed effects.        *)
LEMMA CancelsType ==
    ASSUME NEW p, \A t \in DOMAIN p : p[t] \in PendingOperation
    PROVE  Cancels(p) \subseteq CleanupAction
  BY DEF Cancels, CancelAction, CleanupAction, PendingOperation

(* Uncancelled selects the pending operations no cancellation was sent     *)
(* for.                                                                    *)
LEMMA UncancelledFacts ==
    ASSUME NEW p
    PROVE  /\ DOMAIN Uncancelled(p) = {t \in DOMAIN p : ~p[t].cancelled}
           /\ \A t \in DOMAIN Uncancelled(p) : Uncancelled(p)[t] = p[t]
  BY DEF Uncancelled, Restrict

(* The cleanup operations that release fids are well-typed effects.        *)
LEMMA ReleasesType ==
    ASSUME NEW table, DOMAIN table \subseteq Fids,
           \A f \in DOMAIN table : table[f] \in FidState
    PROVE  Releases(table) \subseteq CleanupAction
  BY DEF Releases, ReleaseAction, CleanupAction, FidState, Handles

(* Suppressing pending operations keeps their tags and ids and marks each  *)
(* one suppressed and cancelled.                                           *)
LEMMA SuppressPendingFacts ==
    ASSUME NEW p, \A t \in DOMAIN p : p[t] \in PendingOperation
    PROVE  /\ DOMAIN SuppressPending(p) = DOMAIN p
           /\ \A t \in DOMAIN p :
                 /\ SuppressPending(p)[t] \in PendingOperation
                 /\ SuppressPending(p)[t].suppressed
                 /\ SuppressPending(p)[t].cancelled
                 /\ SuppressPending(p)[t].op = p[t].op
                 /\ SuppressPending(p)[t].cont = p[t].cont
                 /\ SuppressPending(p)[t].bytes = p[t].bytes
                 /\ SuppressPending(p)[t].rid = p[t].rid
  BY Zenon DEF SuppressPending, PendingOperation

(* Suppressing flush responses keeps the flush table well typed and its    *)
(* tags.                                                                   *)
LEMMA SuppressFlushesFacts ==
    ASSUME NEW w, \A t \in DOMAIN w : w[t] \in FlushState
    PROVE  /\ DOMAIN SuppressFlushes(w) = DOMAIN w
           /\ \A t \in DOMAIN w :
                 /\ SuppressFlushes(w)[t] \in FlushState
                 /\ SuppressFlushes(w)[t].suppressed
                 /\ SuppressFlushes(w)[t].rid = w[t].rid
  BY Zenon DEF SuppressFlushes, FlushState

(* Releasing an amount (saturating subtraction) never raises an account.   *)
LEMMA ReleaseType ==
    ASSUME NEW used \in Nat, NEW n \in Nat
    PROVE  Release(used, n) \in Nat /\ Release(used, n) <= used
  BY DEF Release

(* The tag, operation and fid tables are finite.                           *)
LEMMA DomainsFinite ==
    ASSUME TypeOK
    PROVE  /\ IsFiniteSet(DOMAIN fids) /\ Cardinality(DOMAIN fids) \in Nat
           /\ IsFiniteSet(DOMAIN pending) /\ Cardinality(DOMAIN pending) \in Nat
           /\ IsFiniteSet(DOMAIN flushes) /\ Cardinality(DOMAIN flushes) \in Nat
  BY SessionAssumption, FS_Subset, FS_CardinalityType DEF TypeOK

(* A flush starts as a well-typed entry of the flush table.                *)
LEMMA NewFlushType ==
    ASSUME TypeOK
    PROVE  NewFlush \in FlushState
  BY DEF TypeOK, NewFlush, FlushState, Rid

(* Marking an operation flushed suppresses its response and keeps its id,  *)
(* fid transition, bytes and request.                                      *)
LEMMA MarkFlushedFacts ==
    ASSUME NEW target \in PendingOperation, NEW waiter \in Tags
    PROVE  /\ MarkFlushed(target, waiter) \in PendingOperation
           /\ MarkFlushed(target, waiter).op = target.op
           /\ MarkFlushed(target, waiter).cont = target.cont
           /\ MarkFlushed(target, waiter).bytes = target.bytes
           /\ MarkFlushed(target, waiter).rid = target.rid
           /\ MarkFlushed(target, waiter).suppressed
<1>1. Append(target.waiters, waiter) \in Seq(Tags)
  BY AppendFacts DEF PendingOperation
<1> QED BY <1>1, Zenon DEF MarkFlushed, PendingOperation

-----------------------------------------------------------------------------
(* The bytes of a set of pending writes.                                   *)

Bytes(p) == UNION {{t} \X (1..p[t].bytes) : t \in DOMAIN p}

(* The in-flight write bytes are those of finitely many operations.        *)
LEMMA BytesFinite ==
    ASSUME NEW p, IsFiniteSet(DOMAIN p), \A t \in DOMAIN p : p[t].bytes \in Nat
    PROVE  /\ IsFiniteSet(Bytes(p))
           /\ BytesOf(p) = Cardinality(Bytes(p))
           /\ BytesOf(p) \in Nat
<1> DEFINE cell(t) == {t} \X (1..p[t].bytes)
           cells == {cell(t) : t \in DOMAIN p}
           f == [t \in DOMAIN p |-> cell(t)]
<1>1. f \in Surjection(DOMAIN p, cells)
  BY Zenon DEF Surjection
<1>2. IsFiniteSet(cells)
  BY <1>1, FS_Surjection
<1>3. ASSUME NEW t \in DOMAIN p PROVE IsFiniteSet(cell(t))
  <2>1. IsFiniteSet({t})
    BY FS_Singleton, Zenon
  <2>2. IsFiniteSet(1..p[t].bytes)
    <3>1. 1 \in Int /\ p[t].bytes \in Int
      OBVIOUS
    <3> QED BY <3>1, FS_Interval, Zenon
  <2> QED BY <2>1, <2>2, FS_Product
<1>4. IsFiniteSet(UNION cells)
  BY <1>2, <1>3, FS_UNION, Zenon
<1> QED
  BY <1>4, FS_CardinalityType DEF Bytes, BytesOf

(* Binding an xattr handle, for reading or for writing, keeps a fid well   *)
(* typed.                                                                  *)
LEMMA XattrFid ==
    ASSUME NEW st \in FidState, NEW op \in Nat, NEW n \in Nat
    PROVE  /\ [st EXCEPT !.xattr = op, !.mode = "read"] \in FidState
           /\ [st EXCEPT !.xattr = op, !.mode = "write", !.left = n] \in FidState
  BY Zenon DEF FidState

(* Updating one fid keeps the fid table well typed.                        *)
LEMMA PutFid ==
    ASSUME TypeOK, NEW f \in Fids, NEW st \in FidState, NEW after, after = Put(fids, f, st)
    PROVE  DOMAIN after \subseteq Fids /\ \A g \in DOMAIN after : after[g] \in FidState
  BY DEF Put, TypeOK

(* The fid table after a completion is well typed.                         *)
LEMMA AfterType ==
    ASSUME TypeOK, NEW cont \in Continuation, NEW op \in Nat, NEW count \in Nat,
           NEW after, after \in {Succeeded(cont, op, count), RolledBack(cont)}
    PROVE  DOMAIN after \subseteq Fids /\ \A f \in DOMAIN after : after[f] \in FidState
<1>1. cont.kind \in ContKinds /\ cont.fid \in Fids \cup {NoFid} /\ cont.original \in FidState
      /\ cont.n \in Nat /\ (cont.kind # "NoState" => cont.fid \in Fids)
  BY SessionAssumption DEF Continuation
<1>2. CASE after = fids \/ after = Retire(fids, cont.fid)
  BY <1>2 DEF Retire, Without, TypeOK
<1>3. ASSUME NEW st \in FidState, cont.fid \in Fids, after = Put(fids, cont.fid, st)
      PROVE  DOMAIN after \subseteq Fids /\ \A f \in DOMAIN after : after[f] \in FidState
  BY <1>3, PutFid
<1>4. CASE after = RolledBack(cont)
  BY <1>1, <1>2, <1>3, <1>4, SMTT(60) DEF RolledBack
<1>5. CASE after = Succeeded(cont, op, count)
  <2>1. CASE cont.kind = "NoState"
    BY <1>2, <1>5, <2>1 DEF Succeeded
  <2>2. CASE cont.kind = "Release"
    BY <1>2, <1>5, <2>2 DEF Succeeded
  <2>3. CASE cont.kind = "Auth"
    <3>1. [BareFid("Auth") EXCEPT !.auth = op] \in FidState
      BY SMTT(60) DEF BareFid, FidState
    <3> QED BY <1>1, <1>3, <1>5, <2>3, <3>1, SMTT(60) DEF Succeeded, PolicySucceeded
  <2>4. CASE cont.kind \in {"Attach", "Walk"}
    BY <1>1, <1>3, <1>5, <2>4, BareFidType DEF Succeeded, PolicySucceeded, ObjectFid
  <2>5. CASE cont.kind = "Open"
    <3>1. [cont.original EXCEPT !.open = op] \in FidState
      BY <1>1 DEF FidState
    <3> QED BY <1>1, <1>3, <1>5, <2>5, <3>1, SMTT(60) DEF Succeeded
  <2>6. CASE cont.kind = "XattrWalk"
    <3>1. [ObjectFid EXCEPT !.xattr = op, !.mode = "read"] \in FidState
      BY BareFidType, XattrFid, Zenon DEF ObjectFid
    <3> QED BY <1>1, <1>3, <1>5, <2>6, <3>1, SMTT(60) DEF Succeeded
  <2>7. CASE cont.kind = "XattrCreate"
    <3>1. [cont.original EXCEPT !.xattr = op, !.mode = "write", !.left = cont.n] \in FidState
      BY <1>1, XattrFid, Zenon
    <3> QED BY <1>1, <1>3, <1>5, <2>7, <3>1, SMTT(60) DEF Succeeded
  <2>8. CASE cont.kind = "XattrWrite"
    <3>0. cont.original.left \in Nat
      BY <1>1 DEF FidState
    <3>1. Release(cont.original.left, count) \in Nat
      BY <3>0, ReleaseType
    <3>2. [cont.original EXCEPT !.left = Release(@, count)] \in FidState
      BY <1>1, <3>1, SMTT(60) DEF FidState
    <3> QED BY <1>1, <1>3, <1>5, <2>8, <3>2, SMTT(60) DEF Succeeded
  <2> QED BY <1>1, <2>1, <2>2, <2>3, <2>4, <2>5, <2>6, <2>7, <2>8, SMTT(60) DEF ContKinds
<1> QED BY <1>4, <1>5

(* The responses to flush waiters are well-typed effects.                  *)
LEMMA FlushRepliesFacts ==
    ASSUME TypeOK, NEW S \in SUBSET DOMAIN flushes,
           NEW order \in Injection(1..Cardinality(S), S)
    PROVE  /\ Cardinality(S) \in Nat
           /\ FlushReplies(order) \in Seq(Effect)
           /\ Len(FlushReplies(order)) = Cardinality(S)
           /\ \A i \in 1..Cardinality(S) :
                 /\ order[i] \in S
                 /\ FlushReplies(order)[i].type = "reply"
                 /\ FlushReplies(order)[i].rid = flushes[order[i]].rid
                 /\ FlushReplies(order)[i].body = "flush"
<1>1. Cardinality(S) \in Nat
  BY DomainsFinite, FS_Subset, FS_CardinalityType
<1>2. order \in [1..Cardinality(S) -> S] /\ Len(order) = Cardinality(S)
  BY <1>1, SMTT(60) DEF Injection
<1>3. ASSUME NEW i \in 1..Cardinality(S)
      PROVE  LET r == Reply(flushes[order[i]].rid, order[i], "flush")
             IN  r \in Effect /\ r.type = "reply" /\ r.rid = flushes[order[i]].rid /\ r.body = "flush"
  <2>1. order[i] \in DOMAIN flushes /\ order[i] \in Tags /\ flushes[order[i]].rid \in Nat
    BY <1>2 DEF TypeOK, FlushState
  <2> QED BY <2>1, ReplyType, SMTT(60)
<1> QED BY <1>1, <1>2, <1>3, SMTT(60) DEF FlushReplies

(* The effects that fit in the room left are a prefix of those to queue.   *)
LEMMA PrefixFacts ==
    ASSUME NEW S, NEW s \in Seq(S), NEW room \in Nat, Len(s) > room
    PROVE  /\ SubSeq(s, 1, room) \in Seq(S) /\ Len(SubSeq(s, 1, room)) = room
           /\ \A i \in 1..room : i \in DOMAIN s /\ SubSeq(s, 1, room)[i] = s[i]
  OBVIOUS
=============================================================================
