-------------------------- MODULE StateStore_proofs --------------------------
(* The authority stays well typed, publishes every identity once and never *)
(* lets an earlier fencing token follow a later one, whatever requests its *)
(* clients send.                                                           *)
EXTENDS StoreFacts

(* A lease event under a token that is not behind its scope's last one,    *)
(* of an operation that is retained with it, preserves the invariant.      *)
LEMMA LeaseEventInv ==
    ASSUME StoreInv, NEW op \in LeaseOps, op \notin DOMAIN leaseOps,
           DOMAIN leaseOps' = DOMAIN leaseOps \cup {op},
           PartialFunction(leaseOps', LeaseOps, LeaseOperation),
           NEW change \in {"acquire", "renew", "release"},
           NEW fence \in WriterFence, LeaseEvent(op, change, fence),
           lastToken[fence.scope] <= fence.token,
           change = "acquire" => lastToken[fence.scope] < fence.token,
           lastToken' \in [Scopes -> Nat],
           \A s \in Scopes : lastToken[s] <= lastToken'[s],
           fence.token <= lastToken'[fence.scope],
           PartialFunction(leases', Scopes, Lease),
           \A s \in DOMAIN leases' :
              leases'[s].fence.scope = s /\ leases'[s].fence.token = lastToken'[s],
           UNCHANGED <<records, ledger, now>>
    PROVE  StoreInv'
<1>1. revision + 1 \in Nat
  BY DEF StoreInv, StoreTypeOK
<1>2. PICK e \in Event : e = LeaseEventRecord(op, change, fence)
  BY <1>1, Zenon DEF LeaseEventRecord, Event, Origin
<1>3. /\ e.fence = fence /\ e.change = change
      /\ e.origin.kind = "lease" /\ e.origin.id = op
  BY <1>2 DEF LeaseEventRecord
<1>4. Publish(e)
  BY <1>2 DEF LeaseEvent, LeaseEventRecord
<1>5. /\ revision' \in Nat /\ log' = Append(log, e) /\ log' \in Seq(Event)
      /\ changes' \in Seq(Event) /\ oldest' \in Nat
  BY <1>4, PublishFacts DEF StoreInv
<1>6. StoreTypeOK'
  BY <1>5 DEF StoreInv, StoreTypeOK
<1>7. PublishedOnce' /\ FencedOrder'
  BY <1>3, <1>5, PublishInOrder, SMTT(60) DEF Identities
<1>8. \A i \in DOMAIN log' :
          /\ log'[i].fence.token <= lastToken'[log'[i].fence.scope]
          /\ log'[i].origin.id \in IF log'[i].origin.kind = "mutation"
                                   THEN DOMAIN ledger' ELSE DOMAIN leaseOps'
  BY <1>3, <1>5, HistoryTracked, SMTT(60)
<1>9. FencesTracked'
  BY <1>8 DEF FencesTracked
<1> QED BY <1>6, <1>7, <1>9 DEF StoreInv

(* acquire_writer_lease preserves the invariant: the token it grants is    *)
(* later than every one its scope has granted.                             *)
LEMMA AcquireInv ==
    ASSUME StoreInv, NEW op \in LeaseOps, NEW s \in Scopes, NEW w \in Writers,
           NEW l \in LeaseIds, NEW d \in Durations,
           AcquireWriterLease(op, [kind |-> "acquire", scope |-> s, holder |-> w,
                                   lease |-> l, duration |-> d])
    PROVE  StoreInv'
<1>1. PICK request \in LeaseRequest :
          /\ request = [kind |-> "acquire", scope |-> s, holder |-> w,
                        lease |-> l, duration |-> d]
          /\ request.scope = s /\ request.holder = w /\ request.lease = l
          /\ request.duration = d
  BY DEF LeaseRequest
<1>2. NextFencingToken(s) = lastToken[s] + 1 /\ lastToken[s] \in Nat
  BY DEF NextFencingToken, StoreInv, StoreTypeOK, FencesTracked
<1>3. /\ now + d \in Nat
      /\ lastToken[s] < lastToken[s] + 1 /\ lastToken[s] <= lastToken[s] + 1
      /\ lastToken[s] + 1 <= lastToken[s] + 1
  BY <1>2, StoreAssumption DEF StoreInv, StoreTypeOK
<1> DEFINE newFence == [scope |-> s, holder |-> w, lease |-> l,
                        token |-> NextFencingToken(s)]
<1>4. newFence \in WriterFence
  BY <1>2 DEF WriterFence
<1>5. PICK fence \in WriterFence : fence = newFence
  BY <1>4
<1>6. fence.scope = s /\ fence.token = lastToken[s] + 1
  BY <1>2, <1>5
<1> HIDE DEF newFence
<1>7. [fence |-> fence, deadline |-> now + d] \in Lease
  BY <1>3 DEF Lease
<1>8. PICK grant \in Lease :
          /\ grant = [fence |-> fence, deadline |-> now + d]
          /\ grant.fence = fence
          /\ grant.fence.scope = s /\ grant.fence.token = lastToken[s] + 1
  BY <1>6, <1>7
<1>9. grant.fence \in WriterFence
  BY DEF Lease
<1>10. op \notin DOMAIN leaseOps
  BY DEF AcquireWriterLease, LeaseRequestProceeds
<1>11. UNCHANGED <<records, ledger, now>>
  BY SMTT(60) DEF AcquireWriterLease
<1>12. CASE AcquireRejection(request) = "None"
  <2>1. /\ SetLease(grant)
        /\ lastToken' = [lastToken EXCEPT ![s] = lastToken[s] + 1]
        /\ LeaseEvent(op, "acquire", grant.fence)
        /\ Retain(op, request, [kind |-> "applied", grant |-> grant])
    BY <1>1, <1>2, <1>5, <1>8, <1>12 DEF AcquireWriterLease, newFence
  <2>2. PICK outcome \in LeaseOutcome : outcome = [kind |-> "applied", grant |-> grant]
    BY Zenon DEF LeaseOutcome
  <2>3. /\ DOMAIN leaseOps' = DOMAIN leaseOps \cup {op}
        /\ PartialFunction(leaseOps', LeaseOps, LeaseOperation)
    BY <2>1, <2>2, RetainFacts, Zenon
  <2>4. /\ lastToken' \in [Scopes -> Nat] /\ lastToken'[s] = lastToken[s] + 1
        /\ \A x \in Scopes \ {s} : lastToken'[x] = lastToken[x]
        /\ \A x \in Scopes : lastToken[x] <= lastToken'[x]
    BY <1>2, <2>1 DEF StoreInv, StoreTypeOK
  <2>5. /\ PartialFunction(leases', Scopes, Lease)
        /\ \A x \in DOMAIN leases' :
              leases'[x].fence.scope = x /\ leases'[x].fence.token = lastToken'[x]
    <3>1. /\ \A x \in Scopes \ {grant.fence.scope} : lastToken'[x] = lastToken[x]
          /\ lastToken'[grant.fence.scope] = grant.fence.token
      BY <1>8, <2>4, Zenon
    <3> QED BY <2>1, <3>1, SetLeaseFacts, Zenon
  <2>6. /\ lastToken[grant.fence.scope] < grant.fence.token
        /\ lastToken[grant.fence.scope] <= grant.fence.token
        /\ grant.fence.token <= lastToken'[grant.fence.scope]
    BY <1>3, <1>8, <2>4, Zenon
  <2> QED BY <1>9, <1>10, <1>11, <2>1, <2>3, <2>4, <2>5, <2>6, LeaseEventInv, SMTT(60)
<1>13. CASE AcquireRejection(request) # "None"
  <2>1. /\ Retain(op, request, [kind |-> "rejected", why |-> AcquireRejection(request)])
        /\ UNCHANGED <<leases, lastToken, revision, changes, oldest, log>>
    BY <1>1, <1>13 DEF AcquireWriterLease
  <2>2. AcquireRejection(request) \in Rejection
    BY <1>13 DEF AcquireRejection, Rejection
  <2>3. PICK outcome \in LeaseOutcome :
            outcome = [kind |-> "rejected", why |-> AcquireRejection(request)]
    BY <2>2, Zenon DEF LeaseOutcome
  <2> QED BY <1>11, <2>1, <2>3, RejectedInv, SMTT(60)
<1> QED BY <1>12, <1>13

(* A fence that is not refused is the fence of its scope's lease and       *)
(* carries the last token; the reasons to refuse one are rejections.       *)
LEMMA FenceRejectionFacts ==
    ASSUME StoreInv, NEW fence \in WriterFence
    PROVE  /\ FenceRejection(fence) = "None" =>
                 /\ fence.scope \in DOMAIN leases
                 /\ leases[fence.scope].fence = fence
                 /\ leases[fence.scope] \in Lease
                 /\ lastToken[fence.scope] = fence.token
                 /\ fence.scope \in Scopes /\ fence.token \in Nat
           /\ FenceRejection(fence) # "None" => FenceRejection(fence) \in Rejection
<1>1. FenceRejection(fence) # "None" => FenceRejection(fence) \in Rejection
  BY DEF FenceRejection, Rejection
<1>2. ASSUME FenceRejection(fence) = "None"
      PROVE  fence.scope \in DOMAIN leases /\ leases[fence.scope].fence = fence
  BY <1>2 DEF FenceRejection, ValidateWriterFence
<1>3. ASSUME FenceRejection(fence) = "None"
      PROVE  leases[fence.scope] \in Lease /\ lastToken[fence.scope] = fence.token
  BY <1>2, <1>3 DEF StoreInv, StoreTypeOK, PartialFunction, FencesTracked
<1>4. fence.scope \in Scopes /\ fence.token \in Nat
  BY DEF WriterFence
<1> QED BY <1>1, <1>2, <1>3, <1>4

(* renew_writer_lease preserves the invariant: the fence stays, and the    *)
(* deadline never moves back.                                              *)
LEMMA RenewInv ==
    ASSUME StoreInv, NEW op \in LeaseOps, NEW fence \in WriterFence,
           NEW d \in Durations,
           RenewWriterLease(op, [kind |-> "renew", fence |-> fence, duration |-> d])
    PROVE  StoreInv'
<1>1. PICK request \in LeaseRequest :
          /\ request = [kind |-> "renew", fence |-> fence, duration |-> d]
          /\ request.fence = fence /\ request.duration = d
  BY DEF LeaseRequest
<1>2. /\ op \notin DOMAIN leaseOps
      /\ UNCHANGED <<records, ledger, lastToken, now>>
  BY SMTT(60) DEF RenewWriterLease, LeaseRequestProceeds
<1>3. CASE FenceRejection(fence) = "None"
  <2>1. /\ fence.scope \in DOMAIN leases /\ leases[fence.scope] \in Lease
        /\ lastToken[fence.scope] = fence.token
        /\ fence.scope \in Scopes /\ fence.token \in Nat
    BY <1>3, FenceRejectionFacts
  <2> DEFINE deadline == IF now + d > leases[fence.scope].deadline
                         THEN now + d ELSE leases[fence.scope].deadline
  <2>2. deadline \in Nat
    BY <2>1, StoreAssumption DEF StoreInv, StoreTypeOK, Lease
  <2>3. [fence |-> fence, deadline |-> deadline] \in Lease
    BY <2>2, SMTT(60) DEF Lease
  <2>4. PICK grant \in Lease :
            grant = [fence |-> fence, deadline |-> deadline] /\ grant.fence = fence
    BY <2>3, SMTT(60)
  <2>5. /\ SetLease(grant) /\ LeaseEvent(op, "renew", fence)
        /\ Retain(op, request, [kind |-> "applied", grant |-> grant])
    BY <1>1, <1>3, <2>4, SMTT(60) DEF RenewWriterLease
  <2>6. PICK outcome \in LeaseOutcome : outcome = [kind |-> "applied", grant |-> grant]
    BY Zenon DEF LeaseOutcome
  <2>7. /\ DOMAIN leaseOps' = DOMAIN leaseOps \cup {op}
        /\ PartialFunction(leaseOps', LeaseOps, LeaseOperation)
    BY <2>5, <2>6, RetainFacts, Zenon
  <2>8. /\ lastToken' = lastToken /\ lastToken \in [Scopes -> Nat]
        /\ \A x \in Scopes : lastToken[x] <= lastToken'[x]
        /\ lastToken[fence.scope] <= fence.token
        /\ fence.token <= lastToken'[fence.scope]
    BY <1>2, <2>1, SMTT(60) DEF StoreInv, StoreTypeOK
  <2>9. /\ PartialFunction(leases', Scopes, Lease)
        /\ \A x \in DOMAIN leases' :
              leases'[x].fence.scope = x /\ leases'[x].fence.token = lastToken'[x]
    BY <2>1, <2>4, <2>5, <2>8, SetLeaseFacts
  <2> QED BY <1>2, <2>5, <2>7, <2>8, <2>9, LeaseEventInv
<1>4. CASE FenceRejection(fence) # "None"
  <2>1. /\ Retain(op, request, [kind |-> "rejected", why |-> FenceRejection(fence)])
        /\ UNCHANGED <<leases, revision, changes, oldest, log>>
    BY <1>1, <1>4, SMTT(60) DEF RenewWriterLease
  <2>2. PICK outcome \in LeaseOutcome :
            outcome = [kind |-> "rejected", why |-> FenceRejection(fence)]
    BY <1>4, FenceRejectionFacts, Zenon DEF LeaseOutcome
  <2> QED BY <1>2, <2>1, <2>2, RejectedInv
<1> QED BY <1>3, <1>4

(* release_writer_lease preserves the invariant: the lease record goes,    *)
(* the scope's last token stays.                                           *)
LEMMA ReleaseInv ==
    ASSUME StoreInv, NEW op \in LeaseOps, NEW fence \in WriterFence,
           ReleaseWriterLease(op, [kind |-> "release", fence |-> fence])
    PROVE  StoreInv'
<1>1. PICK request \in LeaseRequest :
          request = [kind |-> "release", fence |-> fence] /\ request.fence = fence
  BY DEF LeaseRequest
<1>2. /\ op \notin DOMAIN leaseOps
      /\ UNCHANGED <<records, ledger, lastToken, now>>
  BY DEF ReleaseWriterLease, LeaseRequestProceeds
<1>3. CASE FenceRejection(fence) = "None"
  <2>1. /\ lastToken[fence.scope] = fence.token
        /\ fence.scope \in Scopes /\ fence.token \in Nat
    BY <1>3, FenceRejectionFacts
  <2>2. PICK grant \in Lease : grant = leases[fence.scope]
    BY <1>3, FenceRejectionFacts
  <2>3. /\ leases' = Restrict(leases, DOMAIN leases \ {fence.scope})
        /\ LeaseEvent(op, "release", fence)
        /\ Retain(op, request, [kind |-> "applied", grant |-> grant])
    BY <1>1, <1>3, <2>2 DEF ReleaseWriterLease
  <2>4. [kind |-> "applied", grant |-> grant] \in LeaseOutcome
    BY DEF LeaseOutcome
  <2>5. /\ DOMAIN leaseOps' = DOMAIN leaseOps \cup {op}
        /\ PartialFunction(leaseOps', LeaseOps, LeaseOperation)
    BY <2>3, <2>4, RetainFacts, Zenon
  <2>6. /\ lastToken' = lastToken /\ lastToken \in [Scopes -> Nat]
        /\ \A x \in Scopes : lastToken[x] <= lastToken'[x]
        /\ lastToken[fence.scope] <= fence.token
        /\ fence.token <= lastToken'[fence.scope]
    BY <1>2, <2>1 DEF StoreInv, StoreTypeOK
  <2>7. PartialFunction(leases, Scopes, Lease)
    BY DEF StoreInv, StoreTypeOK
  <2>8. /\ PartialFunction(leases', Scopes, Lease)
        /\ \A x \in DOMAIN leases' : x \in DOMAIN leases /\ leases'[x] = leases[x]
    BY <2>3, <2>7, RestrictType
  <2>9. \A x \in DOMAIN leases' :
            leases'[x].fence.scope = x /\ leases'[x].fence.token = lastToken'[x]
    BY <2>6, <2>8 DEF StoreInv, FencesTracked
  <2> QED BY <1>2, <2>3, <2>5, <2>6, <2>8, <2>9, LeaseEventInv, Zenon
<1>4. CASE FenceRejection(fence) # "None"
  <2>1. /\ Retain(op, request, [kind |-> "rejected", why |-> FenceRejection(fence)])
        /\ UNCHANGED <<leases, revision, changes, oldest, log>>
    BY <1>1, <1>4 DEF ReleaseWriterLease
  <2>2. PICK outcome \in LeaseOutcome :
            outcome = [kind |-> "rejected", why |-> FenceRejection(fence)]
    BY <1>4, FenceRejectionFacts, Zenon DEF LeaseOutcome
  <2> QED BY <1>2, <2>1, <2>2, RejectedInv, SMTT(60)
<1> QED BY <1>3, <1>4

(* Every step of the authority preserves the invariant.                    *)
LEMMA StoreStepInv == StoreInv /\ [StoreNext]_storeVars => StoreInv'
<1> SUFFICES ASSUME StoreInv, [StoreNext]_storeVars PROVE StoreInv'
  OBVIOUS
<1>1. CASE \E request \in CommitRequest : Commit(request)
  BY <1>1, CommitInv
<1>2. ASSUME NEW op \in LeaseOps, LeaseStep(op) PROVE StoreInv'
  <2>1. CASE \E s \in Scopes, w \in Writers, l \in LeaseIds, d \in Durations :
                 AcquireWriterLease(op, [kind |-> "acquire", scope |-> s,
                                         holder |-> w, lease |-> l, duration |-> d])
    BY <2>1, AcquireInv
  <2>2. CASE \E f \in KnownFences, d \in Durations :
                 RenewWriterLease(op, [kind |-> "renew", fence |-> f, duration |-> d])
    BY <2>2, KnownFencesType, RenewInv
  <2>3. CASE \E f \in KnownFences :
                 ReleaseWriterLease(op, [kind |-> "release", fence |-> f])
    BY <2>3, KnownFencesType, ReleaseInv
  <2> QED BY <1>2, <2>1, <2>2, <2>3 DEF LeaseStep
<1>3. CASE Advance
  BY <1>3, AdvanceInv
<1>4. CASE CompactChangeHistory
  BY <1>4, CompactInv
<1>5. CASE UNCHANGED storeVars
  BY <1>5 DEF storeVars, StoreInv, StoreTypeOK, FencesTracked, PublishedOnce, FencedOrder
<1> QED BY <1>1, <1>2, <1>3, <1>4, <1>5 DEF StoreNext

(* Under any requests of any clients the authority stays well typed,       *)
(* publishes no identity twice, and orders the publications of a scope by  *)
(* their fencing tokens.                                                   *)
THEOREM StoreFenced == StoreSpec => [](StoreTypeOK /\ PublishedOnce /\ FencedOrder)
<1>1. StoreInv => StoreTypeOK /\ PublishedOnce /\ FencedOrder
  BY DEF StoreInv
<1> QED BY <1>1, StoreInitInv, StoreStepInv, PTL DEF StoreSpec
=============================================================================
