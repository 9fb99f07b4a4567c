------------------------- MODULE PostgresAuthority -------------------------
(***************************************************************************)
(* The PostgreSQL authority (w9pt-fs-state-postgres): commits and writer   *)
(* leases as serializable transactions of concurrent connections that may  *)
(* be lost at any statement, COMMIT included.                              *)
(*                                                                         *)
(* db holds the tables: the authority head (created, revision, oldest),    *)
(* the filesystem records, the mutation ledger, the writer fences, the     *)
(* retained lease operations and the change history; db.log is history,    *)
(* every change row ever written.  A transaction reads the db it began     *)
(* with (snap) and ends by replacing db with its own version of it         *)
(* (staged).  Every writer locks the head row, and the server refuses that *)
(* lock (SQLSTATE 40001) to a transaction whose snapshot is older than the *)
(* row.  inDoubt is a transaction whose COMMIT was sent and whose answer   *)
(* was lost: the server finishes it, either way, at any later time.        *)
(***************************************************************************)
EXTENDS PostgresTables, PostgresReads

CONSTANTS
    Clients,                    \* one connection and one request each
    Scenarios,                  \* initial tables and the requests made of them
    DefinitiveAbortRetries,     \* PostgresStateConfig::definitive_abort_retries
    AmbiguousRecoveryAttempts,  \* ::ambiguous_commit_recovery_attempts
    MaxLeaseDuration,           \* StateLimits::max_lease_duration
    MaxLeaseHistory,            \* StateLimits::max_lease_operation_history
    MaxChangeHistory,           \* StateLimits::max_change_history_commits
    MaxPollEvents,              \* ChangePoll::max_events
    MaxPollKeys                 \* ChangePoll::max_keys

VARIABLES scenario, db, now, calls, inDoubt, faults

vars == <<scenario, db, now, calls, inDoubt, faults>>

Nothing == [none |-> TRUE]
Request(c) == scenario.requests[c]
IsCommit(c) == Request(c).kind = "commit"

(***************************************************************************)
(* What the server's failures mean, by SQLSTATE and phase.                 *)
(***************************************************************************)
classify_constraint(name) ==
    IF name \in {"mutation_results_pkey", "writer_lease_operations_pkey"}
    THEN "ResolveLedger" ELSE "InvariantFailure"

classify_sqlstate(code, phase, constraint) ==
    CASE code \in {"40001", "40P01"} -> "RetryIdentical"
      [] code \in {"23505", "23503"} -> classify_constraint(constraint)
      [] code = "55P03" -> IF phase = "Commit" THEN "AmbiguousCommit" ELSE "Timeout"
      [] code = "08006" -> IF phase = "Commit" THEN "AmbiguousCommit"
                           ELSE "Unavailable"

\* PostgresStateError::from_database.
from_database(class) ==
    CASE class = "RetryIdentical" -> "Serialization"
      [] class = "Timeout" -> "Timeout"
      [] class \in {"Unavailable", "AmbiguousCommit"} -> "Unavailable"
      [] OTHER -> "Internal"

(***************************************************************************)
(* Calls.  doubt is history: a COMMIT of this call went unanswered.        *)
(***************************************************************************)
NewCall == [phase |-> "begin", snap |-> Nothing, staged |-> Nothing,
            answer |-> Nothing, retries |-> 0, recoveries |-> 0, doubt |-> FALSE]

Rolledback(call) == [call EXCEPT !.snap = Nothing, !.staged = Nothing]

Answer(call, answer) ==
    [Rolledback(call) EXCEPT !.phase = "done", !.answer = answer]
Outcome(kind) == [kind |-> kind]
Failure(class) == [kind |-> "Err", why |-> from_database(class)]
Rejected(why) == [kind |-> "Rejected", why |-> why]

\* The loop of commit_request: a definitive abort is repeated, a lost COMMIT
\* is looked up first, anything else is an error.
retry_action(call, class) ==
    CASE class = "AmbiguousCommit" ->
           [Rolledback(call) EXCEPT !.phase = "recover", !.doubt = TRUE]
      [] class \in {"RetryIdentical", "ResolveLedger"}
           /\ call.retries < DefinitiveAbortRetries ->
           [Rolledback(call) EXCEPT !.phase = "begin", !.retries = @ + 1]
      [] OTHER -> Answer(call, Failure(class))

\* The loop of execute_with_retries: a lost COMMIT and a row that appeared
\* meanwhile are both answered by executing again.
execute_with_retries(call, class) ==
    LET next == [Rolledback(call) EXCEPT !.phase = "begin",
                                         !.doubt = @ \/ class = "AmbiguousCommit"]
    IN CASE class = "RetryIdentical" /\ call.retries < DefinitiveAbortRetries ->
              [next EXCEPT !.retries = @ + 1]
         [] class \in {"ResolveLedger", "AmbiguousCommit"}
              /\ call.recoveries < AmbiguousRecoveryAttempts ->
              [next EXCEPT !.recoveries = @ + 1]
         [] OTHER -> Answer(next, Failure(class))

AfterFailure(c, class) ==
    IF IsCommit(c) THEN retry_action(calls[c], class)
    ELSE execute_with_retries(calls[c], class)

Becomes(c, call) == calls' = [calls EXCEPT ![c] = call]

(***************************************************************************)
(* The ledger.                                                             *)
(***************************************************************************)
classify_ledger_record(d, r) ==
    IF d.ledger[r.id].print = r.print
    THEN [kind |-> "AlreadyCommitted", revision |-> d.ledger[r.id].revision]
    ELSE Outcome("MutationMismatch")

\* commit_request: the ledger is probed before the request is looked at.
probe_ledger(c) ==
    LET r == Request(c)
        call == calls[c]
    IN /\ call.phase = "probe"
       /\ Becomes(c, IF r.id \in DOMAIN db.ledger
                     THEN Answer(call, classify_ledger_record(db, r))
                     ELSE IF preflight_errors(r.plan.chg) /= {}
                     THEN Answer(call, Outcome("MalformedRequest"))
                     ELSE [call EXCEPT !.phase = "begin"])
       /\ UNCHANGED <<scenario, db, now, inDoubt, faults>>


\* After a lost COMMIT: what the ledger holds is the answer; an absent row is
\* no answer, and the same request is executed again.
recover_ambiguous_commit(c) ==
    LET r == Request(c)
        call == calls[c]
        next == [call EXCEPT !.recoveries = @ + 1]
    IN /\ call.phase = "recover"
       /\ Becomes(c, IF call.recoveries = AmbiguousRecoveryAttempts
                     THEN Answer(call, Outcome("Ambiguous"))
                     ELSE IF r.id \in DOMAIN db.ledger
                     THEN Answer(next, classify_ledger_record(db, r))
                     ELSE [next EXCEPT !.phase = "begin"])
       /\ UNCHANGED <<scenario, db, now, inDoubt, faults>>

(***************************************************************************)
(* Writer fences and leases.                                               *)
(***************************************************************************)
load_fence_state(d, scope) ==
    IF scope \in DOMAIN d.fences THEN d.fences[scope]
    ELSE [greatest |-> 0, active |-> Nothing]

validate_commit_writer_fence(d, fence) ==
    LET active == load_fence_state(d, fence.scope).active
    IN IF active = Nothing THEN "StaleFence"
       ELSE IF active.fence /= fence THEN "StaleFence"
       ELSE IF now >= active.deadline THEN "ExpiredLease" ELSE "Current"

LeaseRejection(d, r) ==
    LET active == load_fence_state(d, r.fence.scope).active
    IN IF r.kind = "acquire"
       THEN IF active = Nothing THEN "None"
            ELSE IF now < active.deadline THEN "Busy" ELSE "None"
       ELSE CASE validate_commit_writer_fence(d, r.fence) = "StaleFence" -> "StaleFence"
              [] validate_commit_writer_fence(d, r.fence) = "ExpiredLease" -> "Expired"
              [] OTHER -> "None"

\* The fence row after a successful request.  The caller of acquire chooses
\* scope, holder and lease; the token is the row's.
FenceRow(d, r) ==
    LET state == load_fence_state(d, r.fence.scope)
        until == now + r.duration
    IN CASE r.kind = "acquire" ->
              [greatest |-> state.greatest + 1,
               active |-> [fence |-> [r.fence EXCEPT !.token = state.greatest + 1],
                           deadline |-> until]]
         [] r.kind = "renew" ->
              [state EXCEPT !.active.deadline = IF until > @ THEN until ELSE @]
         [] r.kind = "release" -> [state EXCEPT !.active = Nothing]

(***************************************************************************)
(* Publication: the next revision, its change row, and the rows that fall  *)
(* out of the retained history.                                            *)
(***************************************************************************)
retained_change_cursor(revision) ==
    IF revision - MaxChangeHistory > 1 THEN revision - MaxChangeHistory ELSE 1

publish_change(d, event) ==
    LET oldest == retained_change_cursor(event.revision)
        kept == {r \in DOMAIN d.changes \cup {event.revision} : r > oldest}
    IN [d EXCEPT !.created = TRUE, !.revision = event.revision,
                 !.oldest = IF oldest > @ THEN oldest ELSE @,
                 !.changes = [r \in kept |-> IF r = event.revision
                                             THEN event ELSE d.changes[r]],
                 !.log = Append(@, event)]

changed_keys(r) ==
    UNION {affected_keys(c) : c \in {d \in Range(r.plan.chg) : d.op /= "RetainResult"}}
        \cup {<<"Mutation", r.id>>}

Event(d, c, keys) == [revision |-> d.revision + 1, by |-> c, keys |-> keys,
                      origin |-> <<IF IsCommit(c) THEN "mutation" ELSE "lease",
                                   Request(c).id>>]

retain_operation(d, r, outcome) ==
    [d EXCEPT !.created = TRUE,
              !.leaseOps = Put(@, r.id, [request |-> r, outcome |-> outcome])]

\* publish_lease_revision and retain_operation, or the retained rejection.
evaluate_and_stage(d, c) ==
    LET r == Request(c)
        why == LeaseRejection(d, r)
        row == FenceRow(d, r)
        published == publish_change([d EXCEPT !.fences = Put(@, r.fence.scope, row)],
                                    Event(d, c, {<<"WriterLease", r.fence.scope>>}))
    IN IF why /= "None" THEN [outcome |-> Rejected(why),
                              db |-> retain_operation(d, r, Rejected(why))]
       ELSE [outcome |-> [kind |-> "Applied", grant |-> row.active],
             db |-> retain_operation(published, r,
                                     [kind |-> "Applied", grant |-> row.active])]

replay_stored_operation(d, r) ==
    LET stored == d.leaseOps[r.id]
    IN IF stored.request /= r THEN Rejected("OperationMismatch")
       ELSE IF stored.outcome.kind = "Rejected" THEN stored.outcome
       ELSE [kind |-> "AlreadyApplied", grant |-> stored.outcome.grant]

\* What a commit does with the tables it has locked, and the answer it will
\* give when its COMMIT succeeds.
StageCommit(d, c) ==
    LET r == Request(c)
        fence == validate_commit_writer_fence(d, r.fence)
        result == execute_once(d.records, r.plan, d.revision + 1)
        rows == [d EXCEPT !.records = result.recs,
                          !.ledger = Put(@, r.id, [print |-> r.print,
                                                   revision |-> d.revision + 1,
                                                   fence |-> r.fence])]
    IN IF fence /= "Current" THEN [outcome |-> Outcome(fence), db |-> Nothing]
       ELSE IF result.outcome = "Committed"
       THEN [outcome |-> [kind |-> "Committed", revision |-> d.revision + 1],
             db |-> publish_change(rows, Event(d, c, changed_keys(r)))]
       ELSE [outcome |-> Outcome(result.outcome), db |-> Nothing]

(***************************************************************************)
(* One attempt.                                                            *)
(***************************************************************************)
\* The transaction begins: what its snapshot already answers needs no lock.
begin_transaction(c) ==
    LET r == Request(c)
        call == calls[c]
        next == [call EXCEPT !.phase = "lock", !.snap = db]
    IN /\ call.phase = "begin"
       /\ Becomes(c, IF IsCommit(c)
                     THEN IF r.id \in DOMAIN db.ledger
                          THEN Answer(call, classify_ledger_record(db, r))
                          ELSE next
                     ELSE IF r.id \in DOMAIN db.leaseOps
                     THEN Answer(call, replay_stored_operation(db, r))
                     ELSE IF r.duration > MaxLeaseDuration
                     THEN Answer(call, Rejected("InvalidDuration"))
                     ELSE IF Cardinality(DOMAIN db.leaseOps) >= MaxLeaseHistory
                     THEN Answer(call, Rejected("OperationHistoryFull"))
                     ELSE next)
       /\ UNCHANGED <<scenario, db, now, inDoubt, faults>>

\* The head row is locked from the lock to the end of the transaction.
HeadFree == inDoubt = Nothing /\ \A c \in Clients : calls[c].phase /= "commit"

\* What the server tells a transaction that gets the head lock.
SnapshotIgnored(c) == "none"
lock_authority_head(c) ==
    LET snap == calls[c].snap
    IN IF snap.created /= db.created \/ snap.revision /= db.revision THEN "40001"
       ELSE IF IsCommit(c) \/ snap.leaseOps = db.leaseOps THEN "none"
       ELSE IF Request(c).id \in DOMAIN db.leaseOps THEN "23505"
       ELSE "40001"

\* What the connection goes on with: the rolled back answer of a request that
\* stages nothing, or the staged rows, which it commits.
AfterStaging(call, staged) ==
    IF staged.db = Nothing /\ staged.outcome.kind /= "ForeignKey"
    THEN Answer(call, staged.outcome)
    ELSE [call EXCEPT !.phase = "commit", !.snap = Nothing, !.staged = staged]

\* From the head lock to the last statement before COMMIT.  A lease
\* operation that counted the retained operations meets one retained since
\* as a duplicate key or as a serialization failure.
Execute(c) ==
    LET call == calls[c]
        failure == lock_authority_head(c)
        \* rows that a rejection retained since are not this transaction's
        tables == [call.snap EXCEPT !.leaseOps = db.leaseOps]
    IN /\ call.phase = "lock"
       /\ HeadFree
       /\ Becomes(c, IF failure /= "none"
                     THEN AfterFailure(c, classify_sqlstate(failure, "Execute",
                                            "writer_lease_operations_pkey"))
                     ELSE AfterStaging(call, IF IsCommit(c) THEN StageCommit(tables, c)
                                             ELSE evaluate_and_stage(tables, c)))
       /\ UNCHANGED <<scenario, db, now, inDoubt, faults>>

\* COMMIT: a deferred foreign key fails it, or it becomes visible at once.
CommitTransaction(c) ==
    LET call == calls[c]
    IN /\ call.phase = "commit"
       /\ IF call.staged.db = Nothing
          THEN /\ Becomes(c, AfterFailure(c, classify_sqlstate("23503", "Commit", "fk")))
               /\ UNCHANGED db
          ELSE /\ db' = call.staged.db
               /\ Becomes(c, Answer(call, call.staged.outcome))
       /\ UNCHANGED <<scenario, now, inDoubt, faults>>

(***************************************************************************)
(* Faults: the server or the network ends a statement, or a COMMIT, or     *)
(* the answer to a COMMIT.                                                 *)
(***************************************************************************)
Fault == faults > 0 /\ faults' = faults - 1

StatementFails(c, code) ==
    /\ Fault
    /\ calls[c].phase \in {"begin", "lock", "commit"}
    /\ Becomes(c, AfterFailure(c, classify_sqlstate(code, "Execute", "none")))
    /\ UNCHANGED <<scenario, db, now, inDoubt>>

ProbeFails(c) ==
    LET call == calls[c]
    IN /\ Fault
       /\ \/ call.phase = "probe" /\ Becomes(c, Answer(call, Failure("Unavailable")))
          \/ /\ call.phase = "recover"
             /\ call.recoveries < AmbiguousRecoveryAttempts
             /\ Becomes(c, [call EXCEPT !.recoveries = @ + 1])
       /\ UNCHANGED <<scenario, db, now, inDoubt>>

CommitLost(c) ==
    LET call == calls[c]
    IN /\ Fault
       /\ call.phase = "commit"
       /\ inDoubt' = [by |-> c, db |-> call.staged.db]
       /\ Becomes(c, AfterFailure(c, classify_sqlstate("08006", "Commit", "none")))
       /\ UNCHANGED <<scenario, db, now>>

ServerResolves ==
    /\ inDoubt /= Nothing
    /\ inDoubt' = Nothing
    /\ \/ UNCHANGED db
       \/ inDoubt.db /= Nothing /\ db' = inDoubt.db
    /\ UNCHANGED <<scenario, now, calls, faults>>

\* The database clock.
Tick ==
    /\ now < scenario.maxTime
    /\ now' = now + 1
    /\ UNCHANGED <<scenario, db, calls, inDoubt, faults>>

Terminated ==
    /\ \A c \in Clients : calls[c].phase = "done"
    /\ inDoubt = Nothing
    /\ UNCHANGED vars

Init ==
    /\ \E s \in DOMAIN Scenarios :
        /\ scenario = [requests |-> Scenarios[s].requests, maxTime |-> Scenarios[s].maxTime]
        /\ db = Scenarios[s].db
        /\ faults = Scenarios[s].faults
    /\ now = 0
    /\ calls = [c \in Clients |->
                    [NewCall EXCEPT !.phase = IF IsCommit(c) THEN "probe" ELSE "begin"]]
    /\ inDoubt = Nothing

Next ==
    \/ \E c \in Clients :
        \/ probe_ledger(c)
        \/ begin_transaction(c)
        \/ Execute(c)
        \/ CommitTransaction(c)
        \/ recover_ambiguous_commit(c)
        \/ \E code \in {"55P03", "08006", "40001"} : StatementFails(c, code)
        \/ ProbeFails(c)
        \/ CommitLost(c)
    \/ ServerResolves
    \/ Tick
    \/ Terminated

Spec == Init /\ [][Next]_vars

(***************************************************************************)
(* Change polls.                                                           *)
(***************************************************************************)
\* The change rows above the cursor that one poll loads.
load_headers(d, after) ==
    LET rows == {r \in DOMAIN d.changes : after < r /\ r <= d.revision}
    IN SubSeq(SetToSortSeq(rows, <), 1,
              Min({Cardinality(rows), MaxPollEvents}))

\* The longest prefix of the headers within the key bound; corrupt when a
\* revision is missing in it or the history ends before the head.
plan_headers(d, after, headers) ==
    LET total(n) == MapThenSumSet(LAMBDA i : Cardinality(d.changes[headers[i]].keys),
                                  1 .. n)
        fit == Max({n \in 0 .. Len(headers) : total(n) <= MaxPollKeys})
        read == Min({fit + 1, Len(headers)})
    IN IF \E i \in 1 .. read : headers[i] /= after + i THEN Outcome("Corruption")
       ELSE IF fit = 0 /\ headers /= <<>> THEN Outcome("PollBoundTooSmall")
       ELSE IF fit = Len(headers) /\ after + fit < d.revision /\ fit < MaxPollEvents
       THEN Outcome("Corruption")
       ELSE [kind |-> "Changes",
             events |-> [i \in 1 .. fit |-> d.changes[headers[i]]]]

poll_changes(d, after) ==
    IF after > d.revision THEN Outcome("RevisionUnavailable")
    ELSE IF after < d.oldest THEN Outcome("RevisionCompacted")
    ELSE plan_headers(d, after, load_headers(d, after))

(***************************************************************************)
(* Reads, in one transaction: the rows of every table.  A fence row is a   *)
(* writer lease while it has a holder.                                     *)
(***************************************************************************)
read_authority_revision(d) == IF d.created THEN d.revision ELSE 1

StateRows(d) ==
    LET leases == {scope \in DOMAIN d.fences : d.fences[scope].active /= Nothing}
    IN d.records
       @@ [k \in {<<"Mutation", m>> : m \in DOMAIN d.ledger} |->
                [rev |-> d.ledger[k[2]].revision, result |-> d.ledger[k[2]]]]
       @@ [k \in {<<"WriterLease", scope>> : scope \in leases} |-> d.fences[k[2]]]

(***************************************************************************)
(* Properties.                                                             *)
(***************************************************************************)
PublishedBy(c) == \E i \in DOMAIN db.log : db.log[i].by = c
MayStillPublish(c) == inDoubt /= Nothing /\ inDoubt.by = c
NeverPublishes(c) == ~PublishedBy(c) /\ ~MayStillPublish(c)

CommitAnswered(c, answer) ==
    LET r == Request(c)
        row == db.ledger[r.id]
    IN CASE answer.kind \in {"Committed", "AlreadyCommitted"} ->
              /\ r.id \in DOMAIN db.ledger
              /\ row.print = r.print /\ row.revision = answer.revision
         [] answer.kind = "MutationMismatch" ->
              r.id \in DOMAIN db.ledger /\ row.print /= r.print
         [] answer.kind = "Ambiguous" -> calls[c].doubt
         [] answer.kind = "Err" -> calls[c].doubt \/ NeverPublishes(c)
         [] OTHER -> NeverPublishes(c)

LeaseAnswered(c, answer) ==
    LET r == Request(c)
        row == db.leaseOps[r.id]
    IN CASE answer.kind \in {"Applied", "AlreadyApplied"} ->
              /\ r.id \in DOMAIN db.leaseOps
              /\ row.request = r /\ row.outcome.kind = "Applied"
              /\ row.outcome.grant = answer.grant
         [] answer.kind = "Err" -> calls[c].doubt \/ NeverPublishes(c)
         [] answer.why = "OperationMismatch" ->
              r.id \in DOMAIN db.leaseOps /\ row.request /= r
         [] answer.why \in {"Busy", "StaleFence", "Expired"} ->
              /\ r.id \in DOMAIN db.leaseOps
              /\ row.request = r /\ row.outcome = answer
         [] OTHER -> NeverPublishes(c)


\* The tables change in one of two ways.
RetainsRejection(old, new) ==
    /\ \E id \in DOMAIN new.leaseOps \ DOMAIN old.leaseOps :
        new.leaseOps = Put(old.leaseOps, id, new.leaseOps[id])
    /\ new = [old EXCEPT !.leaseOps = new.leaseOps, !.created = TRUE]

CommitsAsReference(old, new, r) ==
    LET reference == commit_request(old.records, r.plan, new.revision)
        fence == load_fence_state(old, r.fence.scope)
    IN /\ r.id \notin DOMAIN old.ledger /\ r.id \in DOMAIN new.ledger
       /\ fence.active.fence = r.fence /\ fence.greatest = r.fence.token
       /\ reference.outcome = "Committed" /\ new.records = reference.recs
       /\ new.fences = old.fences /\ new.leaseOps = old.leaseOps

GrantsInOrder(old, new, r) ==
    LET before == load_fence_state(old, r.fence.scope)
        after == load_fence_state(new, r.fence.scope)
    IN /\ r.id \notin DOMAIN old.leaseOps /\ r.id \in DOMAIN new.leaseOps
       /\ Cardinality(DOMAIN new.leaseOps) <= MaxLeaseHistory
       /\ IF r.kind = "acquire" THEN after.greatest = before.greatest + 1
          ELSE before.active.fence = r.fence /\ after.greatest = before.greatest
       /\ new.records = old.records /\ new.ledger = old.ledger

\* Every cursor the history still covers is served the events after it.
FeedServes(d) ==
    \A after \in d.oldest .. d.revision :
        LET poll == poll_changes(d, after)
            due == SelectSeq(d.log, LAMBDA e : e.revision > after)
        IN \/ poll.kind = "Changes" /\ IsPrefix(poll.events, due)
                /\ (poll.events = <<>> => due = <<>>)
           \/ poll.kind = "PollBoundTooSmall" /\ Cardinality(due[1].keys) > MaxPollKeys

\* Concurrent transactions publish one after another: each one takes the next
\* revision with one change row, applies to the records it replaces what the
\* reference authority would, once per mutation, under the lease that is in
\* force in those tables, and leaves a change history that serves every
\* cursor it covers.  Otherwise only a rejected lease operation is retained.
PublishesInOrder ==
    [][db' /= db =>
        \/ RetainsRejection(db, db')
        \/ LET event == Last(db'.log)
           IN /\ db'.revision = db.revision + 1
              /\ db'.log = Append(db.log, event)
              /\ event.revision = db'.revision
              /\ FeedServes(db')
              /\ IF IsCommit(event.by)
                 THEN CommitsAsReference(db, db', Request(event.by))
                 ELSE GrantsInOrder(db, db', Request(event.by))]_vars

\* Every scan of one or two records of some families, from the start and from
\* every cursor, with the byte bounds at which the rows ahead fit exactly or
\* just fail to.
Scans(rows, families) ==
    LET starts == {<<f, Start>> : f \in families}
            \cup {<<k[1], scan_cursor(rows, k)>> : k \in {k \in DOMAIN rows : k[1] \in families}}
        parents(f) == IF f = "DirectoryEntry" THEN {k[2] : k \in Family(rows, f)} ELSE {Root}
        bounds(ahead, size(_)) ==
            LET sizes == [i \in DOMAIN ahead |-> size(ahead[i])]
            IN {Total(sizes, n) - less : n \in 1 .. Min({3, Len(ahead)}), less \in {0, 1}}
        from(f, parent, after) ==
            LET ahead == Ahead(rows, Scan(f, parent, after, 1, 1))
            IN {Scan(f, parent, after, n, b) : n \in 1 .. 2,
                    b \in bounds(ahead, LAMBDA k : retained_bytes(k, rows[k]))}
               \cup IF f /= "DirectoryEntry" THEN {}
                    ELSE {DirectoryPage(parent, after, n, b) : n \in 1 .. 2,
                              b \in bounds(ahead, PageEntryBytes)}
    IN UNION {UNION {from(s[1], p, s[2]) : p \in parents(s[1])} : s \in starts}

Points(rows, families) ==
    {Point(k) : k \in {k \in DOMAIN rows : k[1] \in families}}
    \cup UNION {{OpenPinCountOf(k[2]), InodeWithContentMetadata(k[2]),
                 InodeByQidPath(rows[k].qid)} : k \in Family(rows, "Inode")}

ReadsServed(d, families) ==
    LET rows == StateRows(d)
        batch(q) == [atLeast |-> d.revision, queries |-> <<OpenPinCountOf(Root), q>>]
        answer(q) == postgres_read_request(rows, read_authority_revision(d), batch(q))
        reference(q) == read_request(rows, d.revision, batch(q))
    IN /\ \A q \in Points(rows, families) : answer(q) = reference(q)
       /\ \A q \in Scans(rows, families) :
            LET got == answer(q)
                due == Ahead(rows, q)
            IN /\ got = reference(q)
               /\ IF got.kind = "ScanBoundTooSmall"
                  THEN got.query = 2 /\ due /= <<>> /\ got.bytes > q.bytes
                  ELSE /\ got.kind = "Snapshot"
                       /\ LET page == got.results[2]
                          IN /\ due /= <<>> => page.rows /= <<>>
                             /\ (page.resume = NoResume) <=> (Len(page.rows) = Len(due))

\* A reader that follows a scan from page to page misses no record and gets
\* to the end: from every cursor and under every bound, the statement and the
\* plan of the adapter return what the reference authority returns, which is
\* at least one of the records ahead, and a cursor to resume at exactly when
\* there are more.  An answer without a record says that the first record is
\* larger than the bound.  It is checked of the families that a transaction
\* writes, in the tables it leaves.
ScansComplete ==
    [][db'.log /= db.log =>
        ReadsServed(db', {k[1] : k \in Last(db'.log).keys} \ {"Filesystem"})]_vars

=============================================================================
