----------------------------- MODULE StoreFacts -----------------------------
(* Facts about the authority's maps, publications, commits and retained    *)
(* lease outcomes: what the proof of its invariant rests on.               *)
EXTENDS StateStore, TLAPS

\* The inductive invariant.
StoreInv == StoreTypeOK /\ FencesTracked /\ PublishedOnce /\ FencedOrder

(* Adding an entry to a map, or replacing one, keeps it well typed.        *)
LEMMA PutType ==
    ASSUME NEW S, NEW T, NEW f, PartialFunction(f, S, T), NEW k \in S, NEW v \in T
    PROVE  /\ PartialFunction(Put(f, k, v), S, T)
           /\ DOMAIN Put(f, k, v) = DOMAIN f \cup {k}
           /\ Put(f, k, v)[k] = v
           /\ \A x \in DOMAIN f : x # k => Put(f, k, v)[x] = f[x]
  BY DEF PartialFunction, Put

(* Removing entries keeps a map well typed.                                *)
LEMMA RestrictType ==
    ASSUME NEW S, NEW T, NEW f, PartialFunction(f, S, T), NEW D \in SUBSET DOMAIN f
    PROVE  /\ PartialFunction(Restrict(f, D), S, T)
           /\ DOMAIN Restrict(f, D) = D
           /\ \A x \in D : Restrict(f, D)[x] = f[x]
  BY DEF PartialFunction, Restrict

(* The empty map is well typed.                                            *)
LEMMA EmptyType ==
    ASSUME NEW S, NEW T
    PROVE  PartialFunction(Empty, S, T) /\ DOMAIN Empty = {}
  BY DEF PartialFunction, Empty

(* Appending an event: what the longer sequence holds.                     *)
LEMMA AppendFacts ==
    ASSUME NEW T, NEW s \in Seq(T), NEW e \in T
    PROVE  /\ Append(s, e) \in Seq(T)
           /\ DOMAIN Append(s, e) = DOMAIN s \cup {Len(s) + 1}
           /\ Len(s) \in Nat /\ DOMAIN s = 1..Len(s)
           /\ \A i \in DOMAIN s : Append(s, e)[i] = s[i]
           /\ Append(s, e)[Len(s) + 1] = e
  OBVIOUS

(* The authority starts in the invariant.                                  *)
LEMMA StoreInitInv == StoreInit => StoreInv
<1> SUFFICES ASSUME StoreInit PROVE StoreInv
  OBVIOUS
<1>1. log = <<>> /\ changes = <<>> /\ DOMAIN log = {} /\ DOMAIN leases = {}
  BY EmptyType DEF StoreInit
<1>2. StoreTypeOK
  BY EmptyType DEF StoreInit, StoreTypeOK
<1> QED BY <1>1, <1>2 DEF StoreInv, FencesTracked, PublishedOnce, FencedOrder

(* Where the identity of an event is retained.                             *)
Identities(origin) ==
    IF origin.kind = "mutation" THEN DOMAIN ledger ELSE DOMAIN leaseOps

(* Publication appends one event to the history and keeps the types.       *)
LEMMA PublishFacts ==
    ASSUME StoreTypeOK, NEW event \in Event, Publish(event)
    PROVE  /\ revision' = revision + 1 /\ revision' \in Nat
           /\ log' = Append(log, event) /\ log' \in Seq(Event)
           /\ changes' \in Seq(Event) /\ oldest' \in Nat
<1> DEFINE Typed == changes' \in Seq(Event) /\ oldest' \in Nat
<1>1. log \in Seq(Event) /\ changes \in Seq(Event) /\ revision \in Nat /\ oldest \in Nat
  BY DEF StoreTypeOK
<1>2. ASSUME Len(changes) = MaxChangeHistory PROVE Typed
  <2>1. changes # <<>>
    BY <1>1, <1>2, StoreAssumption
  <2>2. Head(changes) \in Event /\ Tail(changes) \in Seq(Event)
    BY <1>1, <2>1
  <2>3. Head(changes).revision \in Nat
    BY <2>2 DEF Event
  <2>4. Append(Tail(changes), event) \in Seq(Event)
    BY <2>2
  <2> QED BY <1>2, <2>3, <2>4, Zenon DEF Publish
<1>3. ASSUME Len(changes) # MaxChangeHistory PROVE Typed
  <2>1. Append(changes, event) \in Seq(Event)
    BY <1>1
  <2> QED BY <1>1, <1>3, <2>1, Zenon DEF Publish
<1>4. Append(log, event) \in Seq(Event)
  BY <1>1
<1>5. revision' = revision + 1 /\ log' = Append(log, event)
  BY DEF Publish
<1> QED BY <1>1, <1>2, <1>3, <1>4, <1>5

(* An event of a new identity, published under no earlier token than the   *)
(* last one of its scope, keeps the published history in order.            *)
LEMMA PublishInOrder ==
    ASSUME StoreInv, NEW event \in Event, log' = Append(log, event),
           event.origin.id \notin Identities(event.origin),
           lastToken[event.fence.scope] <= event.fence.token,
           event.change = "acquire" =>
               lastToken[event.fence.scope] < event.fence.token
    PROVE  PublishedOnce' /\ FencedOrder'
<1> DEFINE n == Len(log) + 1
<1>1. /\ log \in Seq(Event) /\ n \in Nat /\ DOMAIN log = 1..Len(log)
      /\ DOMAIN log' = DOMAIN log \cup {n} /\ log'[n] = event
      /\ \A i \in DOMAIN log : log'[i] = log[i] /\ i < n /\ log[i] \in Event
  BY AppendFacts DEF StoreInv, StoreTypeOK
<1>2. ASSUME NEW i \in DOMAIN log PROVE log[i].origin # event.origin
  BY DEF StoreInv, FencesTracked, Identities
<1>3. PublishedOnce'
  <2> SUFFICES ASSUME NEW i \in DOMAIN log', NEW j \in DOMAIN log',
                      log'[i].origin = log'[j].origin
               PROVE  i = j
    BY DEF PublishedOnce
  <2> QED BY <1>1, <1>2 DEF StoreInv, PublishedOnce
<1>4. ASSUME NEW i \in DOMAIN log, log[i].fence.scope = event.fence.scope
      PROVE  /\ log[i].fence.token <= event.fence.token
             /\ event.change = "acquire" => log[i].fence.token < event.fence.token
  <2>1. /\ log[i].fence.token \in Nat /\ event.fence.token \in Nat
        /\ event.fence.scope \in Scopes
    BY <1>1 DEF Event, WriterFence
  <2>2. lastToken[event.fence.scope] \in Nat
    BY <2>1 DEF StoreInv, StoreTypeOK
  <2>3. log[i].fence.token <= lastToken[event.fence.scope]
    BY <1>4 DEF StoreInv, FencesTracked
  <2> QED BY <2>1, <2>2, <2>3
<1>5. FencedOrder'
  <2> SUFFICES ASSUME NEW i \in DOMAIN log', NEW j \in DOMAIN log', i < j,
                      log'[i].fence.scope = log'[j].fence.scope
               PROVE  /\ log'[i].fence.token <= log'[j].fence.token
                      /\ log'[j].change = "acquire" =>
                            log'[i].fence.token < log'[j].fence.token
    BY DEF FencedOrder
  <2>1. i \in DOMAIN log
    BY <1>1
  <2>2. CASE j \in DOMAIN log
    BY <1>1, <2>1, <2>2 DEF StoreInv, FencedOrder
  <2>3. CASE j = n
    BY <1>1, <1>4, <2>1, <2>3
  <2> QED BY <1>1, <2>2, <2>3
<1> QED BY <1>3, <1>5

(* The history after an event keeps FencesTracked when the event is not    *)
(* ahead of its scope's last token and its identity is now retained.       *)
LEMMA HistoryTracked ==
    ASSUME StoreInv, NEW event \in Event, log' = Append(log, event),
           lastToken' \in [Scopes -> Nat],
           \A s \in Scopes : lastToken[s] <= lastToken'[s],
           event.fence.token <= lastToken'[event.fence.scope],
           event.origin.id \in IF event.origin.kind = "mutation"
                              THEN DOMAIN ledger' ELSE DOMAIN leaseOps',
           DOMAIN ledger \subseteq DOMAIN ledger',
           DOMAIN leaseOps \subseteq DOMAIN leaseOps'
    PROVE  \A i \in DOMAIN log' :
              /\ log'[i].fence.token <= lastToken'[log'[i].fence.scope]
              /\ log'[i].origin.id \in IF log'[i].origin.kind = "mutation"
                                       THEN DOMAIN ledger' ELSE DOMAIN leaseOps'
<1>1. /\ log \in Seq(Event) /\ DOMAIN log' = DOMAIN log \cup {Len(log) + 1}
      /\ log'[Len(log) + 1] = event
      /\ \A i \in DOMAIN log : log'[i] = log[i] /\ log[i] \in Event
  BY AppendFacts DEF StoreInv, StoreTypeOK
<1>2. ASSUME NEW i \in DOMAIN log
      PROVE  /\ log[i].fence.token <= lastToken'[log[i].fence.scope]
             /\ log[i].origin.id \in IF log[i].origin.kind = "mutation"
                                     THEN DOMAIN ledger' ELSE DOMAIN leaseOps'
  <2>1. log[i].fence.token \in Nat /\ log[i].fence.scope \in Scopes
    BY <1>1 DEF Event, WriterFence
  <2>2. lastToken[log[i].fence.scope] \in Nat
    BY <2>1 DEF StoreInv, StoreTypeOK
  <2>3. lastToken'[log[i].fence.scope] \in Nat
    BY <2>1
  <2>4. log[i].fence.token <= lastToken[log[i].fence.scope]
    BY DEF StoreInv, FencesTracked
  <2>5. log[i].fence.token <= lastToken'[log[i].fence.scope]
    BY <2>1, <2>2, <2>3, <2>4
  <2> QED BY <2>5 DEF StoreInv, FencesTracked
<1> QED BY <1>1, <1>2

(* A fence the authority finds current is that of the scope's lease, and   *)
(* carries the scope's last token.                                         *)
LEMMA CurrentFence ==
    ASSUME StoreInv, NEW fence, ValidateWriterFence(fence) = "Current"
    PROVE  /\ fence.scope \in DOMAIN leases /\ leases[fence.scope].fence = fence
           /\ fence \in WriterFence /\ fence.scope \in Scopes
           /\ fence.token = lastToken[fence.scope] /\ fence.token \in Nat
<1>1. fence.scope \in DOMAIN leases /\ leases[fence.scope].fence = fence
  BY DEF ValidateWriterFence
<1>2. leases[fence.scope] \in Lease
  BY <1>1 DEF StoreInv, StoreTypeOK, PartialFunction
<1>3. fence \in WriterFence
  BY <1>1, <1>2 DEF Lease
<1> QED BY <1>1, <1>3 DEF StoreInv, FencesTracked, WriterFence

(* A commit preserves the invariant: it publishes only under the current   *)
(* fence, for a mutation that is not in the ledger.                        *)
LEMMA CommitInv ==
    ASSUME StoreInv, NEW request \in CommitRequest, Commit(request)
    PROVE  StoreInv'
<1>1. CASE CommitOutcome(request) # "Committed"
  <2>1. UNCHANGED storeVars
    BY <1>1 DEF Commit
  <2> QED BY <2>1 DEF StoreInv, StoreTypeOK, FencesTracked, PublishedOnce,
                      FencedOrder, storeVars
<1>2. CASE CommitOutcome(request) = "Committed"
  <2> DEFINE event == [revision |-> revision + 1,
                       origin |-> [kind |-> "mutation", id |-> request.mutation],
                       keys |-> {request.key}, change |-> request.change,
                       fence |-> request.fence]
             entry == [fingerprint |-> request.fingerprint,
                       result |-> request.result,
                       revision |-> revision + 1, fence |-> request.fence]
             record == [revision |-> revision + 1, value |-> request.value]
  <2>1. /\ records' = ApplyChange(request)
        /\ ledger' = Put(ledger, request.mutation, entry)
        /\ Publish(event)
        /\ UNCHANGED <<leases, lastToken, leaseOps, now>>
    BY <1>2 DEF Commit, PublishCommit
  <2>2. /\ request.mutation \in Mutations /\ request.key \in Keys
        /\ request.fence \in WriterFence /\ request.change \in ChangeKind
        /\ request.fingerprint \in Fingerprints /\ request.result \in Values
        /\ request.value \in Values /\ revision + 1 \in Nat
    BY DEF CommitRequest, StoreInv, StoreTypeOK
  <2>3. event \in Event /\ entry \in MutationRecord /\ record \in Record
    BY <2>2 DEF Event, Origin, MutationRecord, Record
  <2>4. /\ request.mutation \notin DOMAIN ledger
        /\ ValidateWriterFence(request.fence) = "Current"
    BY <1>2 DEF CommitOutcome, Retained, ValidateWriterFence
  <2>5. /\ request.fence.token = lastToken[request.fence.scope]
        /\ request.fence.token \in Nat
    BY <2>4, CurrentFence
  <2>6. PartialFunction(records', Keys, Record)
    <3>1. PartialFunction(records, Keys, Record)
      BY DEF StoreInv, StoreTypeOK
    <3>2. CASE request.change = "remove"
      <4>1. DOMAIN records \ {request.key} \in SUBSET DOMAIN records
        OBVIOUS
      <4> QED BY <2>1, <3>1, <3>2, <4>1, RestrictType DEF ApplyChange
    <3>3. CASE request.change # "remove"
      BY <2>1, <2>2, <2>3, <3>1, <3>3, PutType, ZenonT(60) DEF ApplyChange
    <3> QED BY <3>2, <3>3
  <2>7. /\ PartialFunction(ledger', Mutations, MutationRecord)
        /\ DOMAIN ledger' = DOMAIN ledger \cup {request.mutation}
    <3>1. PartialFunction(ledger, Mutations, MutationRecord)
      BY DEF StoreInv, StoreTypeOK
    <3> HIDE DEF entry
    <3> QED BY <2>1, <2>2, <2>3, <3>1, PutType
  <2>8. /\ revision' \in Nat /\ log' = Append(log, event) /\ log' \in Seq(Event)
        /\ changes' \in Seq(Event) /\ oldest' \in Nat
    BY <2>1, <2>3, PublishFacts DEF StoreInv
  <2>9. StoreTypeOK'
    BY <2>1, <2>6, <2>7, <2>8 DEF StoreInv, StoreTypeOK
  <2>10. PICK e \in Event : e = event
    BY <2>3
  <2>11. /\ e.fence = request.fence /\ e.change # "acquire" /\ log' = Append(log, e)
         /\ e.origin.kind = "mutation" /\ e.origin.id = request.mutation
    BY <2>2, <2>8, <2>10 DEF ChangeKind
  <2>12. PublishedOnce' /\ FencedOrder'
    BY <2>4, <2>5, <2>11, PublishInOrder DEF Identities
  <2>13. FencesTracked'
    <3>1. /\ lastToken' = lastToken /\ lastToken' \in [Scopes -> Nat]
          /\ \A s \in Scopes : lastToken[s] <= lastToken'[s]
      BY <2>1 DEF StoreInv, StoreTypeOK
    <3>2. e.fence.token <= lastToken'[e.fence.scope]
      BY <2>5, <2>11, <3>1
    <3>3. DOMAIN ledger \subseteq DOMAIN ledger' /\ DOMAIN leaseOps \subseteq DOMAIN leaseOps'
      BY <2>1, <2>7, SMTT(60)
    <3>4. \A i \in DOMAIN log' :
              /\ log'[i].fence.token <= lastToken'[log'[i].fence.scope]
              /\ log'[i].origin.id \in IF log'[i].origin.kind = "mutation"
                                       THEN DOMAIN ledger' ELSE DOMAIN leaseOps'
      BY <2>7, <2>11, <3>1, <3>2, <3>3, HistoryTracked
    <3> QED BY <2>1, <3>4 DEF StoreInv, FencesTracked
  <2> QED BY <2>9, <2>12, <2>13 DEF StoreInv
<1> QED BY <1>1, <1>2

LeaseEventRecord(op, change, fence) ==
    [revision |-> revision + 1, origin |-> [kind |-> "lease", id |-> op],
     keys |-> {}, change |-> change, fence |-> fence]

(* Retaining the outcome of a new lease operation keeps the history typed. *)
LEMMA RetainFacts ==
    ASSUME StoreInv, NEW op \in LeaseOps, NEW request \in LeaseRequest,
           NEW outcome \in LeaseOutcome, Retain(op, request, outcome)
    PROVE  /\ PartialFunction(leaseOps', LeaseOps, LeaseOperation)
           /\ DOMAIN leaseOps' = DOMAIN leaseOps \cup {op}
<1>1. PICK entry \in LeaseOperation :
          entry = [request |-> request, outcome |-> outcome]
  BY Zenon DEF LeaseOperation
<1>2. PartialFunction(leaseOps, LeaseOps, LeaseOperation)
  BY DEF StoreInv, StoreTypeOK
<1>3. leaseOps' = Put(leaseOps, op, entry)
  BY <1>1 DEF Retain
<1> QED BY <1>2, <1>3, PutType

(* A refused lease operation is retained and changes nothing else.         *)
LEMMA RejectedInv ==
    ASSUME StoreInv, NEW op \in LeaseOps, NEW request \in LeaseRequest,
           NEW outcome \in LeaseOutcome, Retain(op, request, outcome),
           UNCHANGED <<leases, lastToken, revision, changes, oldest, log,
                       records, ledger, now>>
    PROVE  StoreInv'
<1>1. /\ PartialFunction(leaseOps', LeaseOps, LeaseOperation)
      /\ DOMAIN leaseOps' = DOMAIN leaseOps \cup {op}
  BY RetainFacts
<1>2. StoreTypeOK'
  BY <1>1 DEF StoreInv, StoreTypeOK
<1>3. FencesTracked'
  BY <1>1, SMTT(60) DEF StoreInv, FencesTracked
<1> QED BY <1>2, <1>3 DEF StoreInv, PublishedOnce, FencedOrder

(* The clock leaves records, leases and the published history alone.       *)
LEMMA AdvanceInv ==
    ASSUME StoreInv, Advance
    PROVE  StoreInv'
  BY DEF Advance, StoreInv, StoreTypeOK, FencesTracked, PublishedOnce, FencedOrder

(* compact_change_history keeps the retained events well typed.            *)
LEMMA CompactInv ==
    ASSUME StoreInv, CompactChangeHistory
    PROVE  StoreInv'
<1>1. changes \in Seq(Event) /\ Len(changes) > 1 /\ Len(changes) \in Nat
  BY DEF CompactChangeHistory, StoreInv, StoreTypeOK
<1>2. changes[Len(changes)] \in Event /\ changes[Len(changes) - 1] \in Event
  BY <1>1
<1>3. changes' \in Seq(Event) /\ oldest' \in Nat
  BY <1>2 DEF CompactChangeHistory, Event
<1>4. StoreTypeOK'
  BY <1>3 DEF CompactChangeHistory, StoreInv, StoreTypeOK
<1> QED BY <1>4 DEF CompactChangeHistory, StoreInv, FencesTracked, PublishedOnce, FencedOrder

(* Replacing the lease of a scope by one with the scope's last token.      *)
LEMMA SetLeaseFacts ==
    ASSUME StoreInv, NEW lease \in Lease, SetLease(lease),
           \A s \in Scopes \ {lease.fence.scope} : lastToken'[s] = lastToken[s],
           lastToken'[lease.fence.scope] = lease.fence.token
    PROVE  /\ PartialFunction(leases', Scopes, Lease)
           /\ \A s \in DOMAIN leases' :
                 leases'[s].fence.scope = s /\ leases'[s].fence.token = lastToken'[s]
<1>1. PICK scope \in Scopes : scope = lease.fence.scope
  BY DEF Lease, WriterFence
<1>2. PartialFunction(leases, Scopes, Lease) /\ leases' = Put(leases, scope, lease)
  BY <1>1 DEF SetLease, StoreInv, StoreTypeOK
<1>3. /\ PartialFunction(leases', Scopes, Lease)
      /\ DOMAIN leases' = DOMAIN leases \cup {scope} /\ leases'[scope] = lease
      /\ \A x \in DOMAIN leases : x # scope => leases'[x] = leases[x]
  BY <1>2, PutType
<1>4. ASSUME NEW s \in DOMAIN leases, s # scope
      PROVE  leases[s].fence.scope = s /\ leases[s].fence.token = lastToken'[s]
  <2>1. s \in Scopes \ {lease.fence.scope}
    BY <1>1, <1>2, <1>4 DEF PartialFunction
  <2>2. leases[s].fence.scope = s /\ leases[s].fence.token = lastToken[s]
    BY DEF StoreInv, FencesTracked
  <2> QED BY <2>1, <2>2
<1> QED BY <1>1, <1>3, <1>4

(* A fence that some lease operation returned is well typed.               *)
LEMMA KnownFencesType == StoreInv => KnownFences \subseteq WriterFence
<1> SUFFICES ASSUME StoreInv, NEW o \in DOMAIN leaseOps,
                    leaseOps[o].outcome.kind = "applied"
             PROVE  leaseOps[o].outcome.grant.fence \in WriterFence
  BY DEF KnownFences
<1>1. leaseOps[o] \in LeaseOperation
  BY DEF StoreInv, StoreTypeOK, PartialFunction
<1>2. leaseOps[o].outcome \in LeaseOutcome
  BY <1>1 DEF LeaseOperation
<1>3. leaseOps[o].outcome.grant \in Lease
  BY <1>2 DEF LeaseOutcome
<1> QED BY <1>3 DEF Lease
=============================================================================
