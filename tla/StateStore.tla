----------------------------- MODULE StateStore -----------------------------
(***************************************************************************)
(* The metadata authority of w9pt-fs-state: one linearizable store that    *)
(* serves reads, all-or-nothing commits guarded by typed preconditions, a  *)
(* mutation ledger that makes a commit idempotent, writer leases with      *)
(* monotone fencing tokens, and a bounded feed of change events.  It is    *)
(* translated from the reference authority (testing/memory.rs), which      *)
(* runs every request under one lock, and from the lease transitions       *)
(* (lease.rs) that every adapter shares.                                   *)
(*                                                                         *)
(* The code keeps every record in one map.  Here the map is split by the   *)
(* kind of its key: filesystem records (records), retained mutation        *)
(* results (ledger) and writer leases (leases).  A filesystem record is    *)
(* its revision and a value the store never looks into.                    *)
(***************************************************************************)
EXTENDS Naturals, FiniteSets, Sequences, Functions

CONSTANTS
    Keys,               \* RecordKey of filesystem records
    Values,             \* what a filesystem record holds
    Mutations,          \* MutationId
    Fingerprints,       \* RequestFingerprint, client incarnation and retention
    Scopes,             \* (FilesystemId, WriterScopeId)
    FilesystemScopes,   \* the scopes whose WriterScopeId is FILESYSTEM
    Writers,            \* WriterIncarnationId
    LeaseIds,           \* LeaseId, chosen by the caller
    LeaseOps,           \* LeaseOperationId
    Durations,          \* LeaseDuration of the requests
    SingleWriter,       \* topology is SingleFencedWriter
    MaxLeaseDuration,   \* StateLimits::max_lease_duration
    MaxLeaseHistory,    \* StateLimits::max_lease_operation_history
    MaxChangeHistory,   \* StateLimits::max_change_history_commits
    MaxTime,            \* bound of the model on the lease clock
    MaxRevision         \* bound of the model on state revisions

ASSUME StoreAssumption ==
    /\ FilesystemScopes \subseteq Scopes
    /\ SingleWriter \in BOOLEAN
    /\ Durations \subseteq Nat \ {0}
    /\ MaxLeaseDuration \in Nat
    /\ MaxLeaseHistory \in Nat
    /\ MaxChangeHistory \in Nat \ {0}
    /\ MaxTime \in Nat
    /\ MaxRevision \in Nat

VARIABLES
    revision,   \* AuthorityState::revision
    records,    \* filesystem records present, by key
    ledger,     \* retained mutation results, by mutation
    leases,     \* writer lease records, by scope
    lastToken,  \* last_fencing_tokens; zero when the scope has no grant yet
    leaseOps,   \* lease_operations: retained requests and outcomes
    changes,    \* the retained suffix of the change events
    oldest,     \* oldest_change_cursor
    now,        \* the authority's lease clock
    log         \* history: every event ever published, never compacted

storeVars == <<revision, records, ledger, leases, lastToken, leaseOps,
               changes, oldest, now, log>>

(***************************************************************************)
(* Values.                                                                 *)
(***************************************************************************)
WriterFence == [scope : Scopes, holder : Writers, lease : LeaseIds,
                token : Nat \ {0}]

Lease == [fence : WriterFence, deadline : Nat]

Record == [revision : Nat, value : Values]

MutationRecord == [fingerprint : Fingerprints, result : Values,
                   revision : Nat, fence : WriterFence]

ChangeKind == {"create", "update", "remove"}

\* A commit changes one filesystem record; expected is the revision the
\* request was planned against, zero for RecordAbsent.
CommitRequest == [mutation : Mutations, fingerprint : Fingerprints,
                  fence : WriterFence, key : Keys, expected : Nat,
                  change : ChangeKind, value : Values, result : Values]

LeaseRequest ==
    [kind : {"acquire"}, scope : Scopes, holder : Writers, lease : LeaseIds,
     duration : Durations]
    \cup [kind : {"renew"}, fence : WriterFence, duration : Durations]
    \cup [kind : {"release"}, fence : WriterFence]

Rejection == {"InvalidWriterScope", "Busy", "StaleFence", "Expired"}

LeaseOutcome == [kind : {"applied"}, grant : Lease]
                \cup [kind : {"rejected"}, why : Rejection]

LeaseOperation == [request : LeaseRequest, outcome : LeaseOutcome]

Origin == [kind : {"mutation"}, id : Mutations]
          \cup [kind : {"lease"}, id : LeaseOps]

Event == [revision : Nat, origin : Origin, keys : SUBSET Keys,
          change : ChangeKind \cup {"acquire", "renew", "release"},
          fence : WriterFence]

\* Maps: a BTreeMap is a function on the keys it holds.
PartialFunction(f, S, T) == DOMAIN f \subseteq S /\ f \in [DOMAIN f -> T]
Empty == [x \in {} |-> x]
Put(f, k, v) == [x \in DOMAIN f \cup {k} |-> IF x = k THEN v ELSE f[x]]

-----------------------------------------------------------------------------
(***************************************************************************)
(* Reads: one lock, one revision.                                          *)
(***************************************************************************)
Present(key) == key \in DOMAIN records

RevisionOf(key) == IF Present(key) THEN records[key].revision ELSE 0

Retained(mutation) == mutation \in DOMAIN ledger

(***************************************************************************)
(* Publication: the next revision and one event, with the oldest event     *)
(* compacted when the history is at its limit.                             *)
(***************************************************************************)
Publish(event) ==
    /\ revision' = revision + 1
    /\ log' = Append(log, event)
    /\ IF Len(changes) = MaxChangeHistory
       THEN /\ changes' = Append(Tail(changes), event)
            /\ oldest' = Head(changes).revision
       ELSE /\ changes' = Append(changes, event)
            /\ UNCHANGED oldest

(***************************************************************************)
(* Writer fences.                                                          *)
(***************************************************************************)
FenceIgnoringToken(fence) ==
    IF \/ fence.scope \notin DOMAIN leases
       \/ leases[fence.scope].fence.holder # fence.holder
       \/ leases[fence.scope].fence.lease # fence.lease
    THEN "Stale"
    ELSE IF now >= leases[fence.scope].deadline THEN "Expired" ELSE "Current"

ValidateWriterFence(fence) ==
    IF fence.scope \notin DOMAIN leases \/ leases[fence.scope].fence # fence
    THEN "Stale"
    ELSE IF now >= leases[fence.scope].deadline THEN "Expired" ELSE "Current"

ValidWriterScope(scope) == SingleWriter => scope \in FilesystemScopes

NextFencingTokenFromZero(scope) == lastToken[scope]

NextFencingToken(scope) ==
    IF scope \in DOMAIN leases /\ leases[scope].fence.token > lastToken[scope]
    THEN leases[scope].fence.token + 1
    ELSE lastToken[scope] + 1


Conflicts(request) ==
    \/ RevisionOf(request.key) # request.expected
    \/ request.change = "create" /\ Present(request.key)
    \/ request.change # "create" /\ ~Present(request.key)

CommitOutcomeFenceFirst(request) ==
    IF ~ValidWriterScope(request.fence.scope) THEN "StaleFence"
    ELSE IF ValidateWriterFence(request.fence) = "Stale" THEN "StaleFence"
    ELSE IF ValidateWriterFence(request.fence) = "Expired"
    THEN "ExpiredLease"
    ELSE IF Conflicts(request) THEN "Conflict"
    ELSE "Committed"

CommitOutcome(request) ==
    IF Retained(request.mutation)
    THEN IF ledger[request.mutation].fingerprint = request.fingerprint
         THEN "AlreadyCommitted" ELSE "MutationMismatch"
    ELSE IF ~ValidWriterScope(request.fence.scope) THEN "StaleFence"
    ELSE IF ValidateWriterFence(request.fence) = "Stale" THEN "StaleFence"
    ELSE IF ValidateWriterFence(request.fence) = "Expired"
    THEN "ExpiredLease"
    ELSE IF Conflicts(request) THEN "Conflict"
    ELSE "Committed"

ApplyChange(request) ==
    IF request.change = "remove"
    THEN Restrict(records, DOMAIN records \ {request.key})
    ELSE Put(records, request.key,
             [revision |-> revision + 1, value |-> request.value])

PublishCommit(request) ==
    /\ revision < MaxRevision
    /\ records' = ApplyChange(request)
    /\ ledger' = Put(ledger, request.mutation,
                     [fingerprint |-> request.fingerprint,
                      result |-> request.result,
                      revision |-> revision + 1, fence |-> request.fence])
    /\ Publish([revision |-> revision + 1,
                origin |-> [kind |-> "mutation", id |-> request.mutation],
                keys |-> {request.key}, change |-> request.change,
                fence |-> request.fence])
    /\ UNCHANGED <<leases, lastToken, leaseOps, now>>

\* One call of commit: only the outcome Committed changes the store.
Commit(request) ==
    IF CommitOutcome(request) = "Committed"
    THEN PublishCommit(request)
    ELSE UNCHANGED storeVars

(***************************************************************************)
(* Lease requests.  An operation identity that is already retained is      *)
(* answered from the history, and so is a request whose duration is out    *)
(* of bounds or that finds the history full: none of these changes the     *)
(* store.  Every other outcome, a rejection included, is retained.         *)
(***************************************************************************)
Retain(op, request, outcome) ==
    leaseOps' = Put(leaseOps, op, [request |-> request, outcome |-> outcome])

LeaseRequestProceeds(op, request) ==
    /\ op \notin DOMAIN leaseOps
    /\ request.kind # "release" => request.duration <= MaxLeaseDuration
    /\ Cardinality(DOMAIN leaseOps) < MaxLeaseHistory

SetLease(lease) == leases' = Put(leases, lease.fence.scope, lease)

LeaseEvent(op, change, fence) ==
    Publish([revision |-> revision + 1,
             origin |-> [kind |-> "lease", id |-> op],
             keys |-> {}, change |-> change, fence |-> fence])

\* grant_writer_lease: the reason to refuse, or "None".
AcquireRejection(request) ==
    IF ~ValidWriterScope(request.scope) THEN "InvalidWriterScope"
    ELSE IF /\ request.scope \in DOMAIN leases
            /\ now < leases[request.scope].deadline
    THEN "Busy"
    ELSE "None"

AcquireWriterLease(op, request) ==
    LET grant == [fence |-> [scope |-> request.scope,
                             holder |-> request.holder,
                             lease |-> request.lease,
                             token |-> NextFencingToken(request.scope)],
                  deadline |-> now + request.duration]
        why == AcquireRejection(request)
    IN  /\ LeaseRequestProceeds(op, request)
        /\ revision < MaxRevision
        /\ IF why = "None"
           THEN /\ SetLease(grant)
                /\ lastToken' = [lastToken EXCEPT ![request.scope] =
                                    grant.fence.token]
                /\ LeaseEvent(op, "acquire", grant.fence)
                /\ Retain(op, request, [kind |-> "applied", grant |-> grant])
           ELSE /\ Retain(op, request, [kind |-> "rejected", why |-> why])
                /\ UNCHANGED <<leases, lastToken, revision, changes, oldest,
                               log>>
        /\ UNCHANGED <<records, ledger, now>>

\* renew_current_lease and validate_lease_release refuse for the same reasons.
FenceRejection(fence) ==
    IF ~ValidWriterScope(fence.scope) THEN "InvalidWriterScope"
    ELSE IF ValidateWriterFence(fence) = "Stale" THEN "StaleFence"
    ELSE IF ValidateWriterFence(fence) = "Expired" THEN "Expired"
    ELSE "None"

RenewWriterLease(op, request) ==
    LET requested == now + request.duration
        scope == request.fence.scope
        why == FenceRejection(request.fence)
    IN  /\ LeaseRequestProceeds(op, request)
        /\ revision < MaxRevision
        /\ IF why = "None"
           THEN LET current == leases[scope].deadline
                    grant == [fence |-> request.fence,
                              deadline |-> IF requested > current
                                           THEN requested ELSE current]
                IN  /\ SetLease(grant)
                    /\ LeaseEvent(op, "renew", request.fence)
                    /\ Retain(op, request,
                              [kind |-> "applied", grant |-> grant])
           ELSE /\ Retain(op, request, [kind |-> "rejected", why |-> why])
                /\ UNCHANGED <<leases, revision, changes, oldest, log>>
        /\ UNCHANGED <<records, ledger, lastToken, now>>

ReleaseWriterLease(op, request) ==
    LET scope == request.fence.scope
        why == FenceRejection(request.fence)
    IN  /\ LeaseRequestProceeds(op, request)
        /\ revision < MaxRevision
        /\ IF why = "None"
           THEN /\ leases' = Restrict(leases, DOMAIN leases \ {scope})
                /\ LeaseEvent(op, "release", request.fence)
                /\ Retain(op, request,
                          [kind |-> "applied", grant |-> leases[scope]])
           ELSE /\ Retain(op, request, [kind |-> "rejected", why |-> why])
                /\ UNCHANGED <<leases, revision, changes, oldest, log>>
        /\ UNCHANGED <<records, ledger, lastToken, now>>

\* ManualLeaseClock::advance.
Advance ==
    /\ now < MaxTime
    /\ now' = now + 1
    /\ UNCHANGED <<revision, records, ledger, leases, lastToken, leaseOps,
                   changes, oldest, log>>

\* compact_change_history: an operator drops all but the newest event.
CompactChangeHistory ==
    /\ Len(changes) > 1
    /\ changes' = <<changes[Len(changes)]>>
    /\ oldest' = changes[Len(changes) - 1].revision
    /\ UNCHANGED <<revision, records, ledger, leases, lastToken, leaseOps,
                   now, log>>

\* A fence is known to the world once some lease operation has returned it.
\* A replayed operation returns it again, however stale it is by then.
KnownFences ==
    {leaseOps[o].outcome.grant.fence :
        o \in {p \in DOMAIN leaseOps : leaseOps[p].outcome.kind = "applied"}}

LeaseStep(op) ==
    \/ \E s \in Scopes, w \in Writers, l \in LeaseIds, d \in Durations :
          AcquireWriterLease(op, [kind |-> "acquire", scope |-> s,
                                  holder |-> w, lease |-> l, duration |-> d])
    \/ \E f \in KnownFences, d \in Durations :
          RenewWriterLease(op, [kind |-> "renew", fence |-> f, duration |-> d])
    \/ \E f \in KnownFences :
          ReleaseWriterLease(op, [kind |-> "release", fence |-> f])

StoreInit ==
    /\ revision = 1
    /\ records = Empty
    /\ ledger = Empty
    /\ leases = Empty
    /\ lastToken = [s \in Scopes |-> 0]
    /\ leaseOps = Empty
    /\ changes = <<>>
    /\ oldest = 1
    /\ now = 0
    /\ log = <<>>

\* Everything that can happen to the authority, whoever its clients are.
StoreNext ==
    \/ \E request \in CommitRequest : Commit(request)
    \/ \E op \in LeaseOps : LeaseStep(op)
    \/ Advance
    \/ CompactChangeHistory

StoreSpec == StoreInit /\ [][StoreNext]_storeVars

-----------------------------------------------------------------------------
(***************************************************************************)
(* Properties of the authority.                                            *)
(***************************************************************************)

\* Type invariant of the store's variables.
StoreTypeOK ==
    /\ revision \in Nat
    /\ PartialFunction(records, Keys, Record)
    /\ PartialFunction(ledger, Mutations, MutationRecord)
    /\ PartialFunction(leases, Scopes, Lease)
    /\ lastToken \in [Scopes -> Nat]
    /\ PartialFunction(leaseOps, LeaseOps, LeaseOperation)
    /\ changes \in Seq(Event)
    /\ oldest \in Nat
    /\ now \in Nat
    /\ log \in Seq(Event)

\* However often a commit or a lease request is repeated, replanned or sent
\* by two engines, its identity is published by at most one revision.
PublishedOnce ==
    \A i, j \in DOMAIN log : log[i].origin = log[j].origin => i = j

\* Fencing: once a scope has granted a token, nothing is ever published in
\* that scope under an earlier one, and every grant takes a new token, also
\* after the lease expired or was released and its record is gone.
FencedOrder ==
    \A i, j \in DOMAIN log :
        (i < j /\ log[i].fence.scope = log[j].fence.scope) =>
            /\ log[i].fence.token <= log[j].fence.token
            /\ log[j].change = "acquire" =>
                  log[i].fence.token < log[j].fence.token

\* The inductive strengthening of FencedOrder and PublishedOnce: a lease
\* carries the last token of its scope, no published event is ahead of that
\* token, and the identity of every event is retained.
FencesTracked ==
    /\ \A s \in DOMAIN leases :
          leases[s].fence.scope = s /\ leases[s].fence.token = lastToken[s]
    /\ \A i \in DOMAIN log :
          /\ log[i].fence.token <= lastToken[log[i].fence.scope]
          /\ log[i].origin.id \in IF log[i].origin.kind = "mutation"
                                  THEN DOMAIN ledger ELSE DOMAIN leaseOps
=============================================================================
