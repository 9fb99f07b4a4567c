----------------------------- MODULE ChangeFeed -----------------------------
(***************************************************************************)
(* Change polling (poll_changes) over the authority of StateStore.  The    *)
(* authority hosts several filesystems on one revision sequence and keeps  *)
(* a bounded suffix of its change events.  A poll returns whole events of  *)
(* one filesystem after a cursor, within a bound on events and on changed  *)
(* keys, and the cursor to continue from.                                  *)
(*                                                                         *)
(* The watcher is the client the contract (change.rs) is written for, and  *)
(* is outside the repository: it caches records it read, drops the keys of *)
(* every event it polls, and drops everything when history was compacted.  *)
(***************************************************************************)
EXTENDS StateStore, SequencesExt

CONSTANTS
    Filesystems,
    FilesystemOf,   \* the filesystem of each scope and of each key
    Watchers,
    WatchedBy,      \* the filesystem each watcher follows
    MaxEvents,      \* largest ChangePoll::max_events of a watcher
    MaxKeys         \* largest ChangePoll::max_keys of a watcher

ASSUME FeedAssumption ==
    /\ FilesystemOf \in [Scopes \cup Keys -> Filesystems]
    /\ WatchedBy \in [Watchers -> Filesystems]
    /\ MaxEvents \in Nat \ {0}
    /\ MaxKeys \in Nat \ {0}

VARIABLES
    cursor,     \* the revision each watcher polls after
    cached      \* by key, the store revision the watcher's copy was read at

vars == <<storeVars, cursor, cached>>

-----------------------------------------------------------------------------
(***************************************************************************)
(* poll_changes.                                                           *)
(***************************************************************************)
FilesystemOfEvent(event) == FilesystemOf[event.fence.scope]

\* A commit's event also names its ledger record, a lease's its lease record.
KeyCount(event) == Cardinality(event.keys) + 1

KeysOfFirst(events, n) ==
    FoldLeft(LAMBDA sum, e : sum + KeyCount(e), 0, SubSeq(events, 1, n))

\* How many whole events fit in the bounds.
Fitting(events, maxEvents, maxKeys) ==
    Max({n \in 0..Len(events) :
            n <= maxEvents /\ KeysOfFirst(events, n) <= maxKeys})

\* Where a page that stopped before an event continues: after the last event
\* that was returned or skipped as another filesystem's.
CursorBefore(event) ==
    Max({e.revision : e \in {f \in Range(changes) : f.revision < event.revision}})

\* The page never stops early, whatever was left out.
PageToCurrent(events, n) ==
    [kind |-> "Changes", events |-> SubSeq(events, 1, n), next |-> revision]

Page(events, n) ==
    [kind |-> "Changes", events |-> SubSeq(events, 1, n),
     next |-> IF n < Len(events) THEN CursorBefore(events[n + 1]) ELSE revision]


PollOutcome(filesystem, after, maxEvents, maxKeys) ==
    LET events == SelectSeq(changes, LAMBDA e :
                      e.revision > after /\ FilesystemOfEvent(e) = filesystem)
        n == Fitting(events, maxEvents, maxKeys)
    IN  IF after > revision THEN [kind |-> "RevisionUnavailable"]
        ELSE IF after < oldest THEN [kind |-> "RevisionCompacted"]
        ELSE IF n = 0 /\ events # <<>> THEN [kind |-> "PollBoundTooSmall"]
        ELSE Page(events, n)

(***************************************************************************)
(* Watchers and the writers they watch.                                    *)
(***************************************************************************)
Forget(w, keys) ==
    cached' = [cached EXCEPT ![w] = Restrict(@, DOMAIN @ \ keys)]

Poll(w, maxEvents, maxKeys) ==
    LET outcome == PollOutcome(WatchedBy[w], cursor[w], maxEvents, maxKeys)
    IN  /\ CASE outcome.kind = "Changes" ->
                  /\ cursor' = [cursor EXCEPT ![w] = outcome.next]
                  /\ Forget(w, UNION {e.keys : e \in Range(outcome.events)})
             [] outcome.kind = "RevisionCompacted" ->
                  /\ cursor' = [cursor EXCEPT ![w] = oldest]
                  /\ Forget(w, Keys)
             [] OTHER -> UNCHANGED <<cursor, cached>>
        /\ UNCHANGED storeVars

\* A read is one snapshot at the current revision.
Read(w, key) ==
    /\ FilesystemOf[key] = WatchedBy[w]
    /\ cached' = [cached EXCEPT ![w] = Put(@, key, revision)]
    /\ UNCHANGED <<storeVars, cursor>>

\* A commit planned against the current record; other commits publish nothing.
Write(mutation, fingerprint, fence, key, change, value) ==
    LET request == [mutation |-> mutation, fingerprint |-> fingerprint,
                    fence |-> fence, key |-> key, expected |-> RevisionOf(key),
                    change |-> change, value |-> value, result |-> value]
    IN  /\ FilesystemOf[key] = FilesystemOf[fence.scope]
        /\ CommitOutcome(request) = "Committed"
        /\ PublishCommit(request)
        /\ UNCHANGED <<cursor, cached>>

Init ==
    /\ StoreInit
    /\ cursor = [w \in Watchers |-> 1]
    /\ cached = [w \in Watchers |-> Empty]

Next ==
    \/ \E w \in Watchers :
          \/ \E e \in 1..MaxEvents, k \in 1..MaxKeys : Poll(w, e, k)
          \/ \E key \in Keys : Read(w, key)
    \/ \E m \in Mutations, f \in Fingerprints, fence \in KnownFences,
          key \in Keys, change \in ChangeKind, v \in Values :
             Write(m, f, fence, key, change, v)
    \/ /\ \/ \E op \in LeaseOps : LeaseStep(op)
          \/ Advance
          \/ CompactChangeHistory
       /\ UNCHANGED <<cursor, cached>>

Spec == Init /\ [][Next]_vars

-----------------------------------------------------------------------------
(***************************************************************************)
(* Properties.                                                             *)
(***************************************************************************)

\* A watcher never misses a change: when its copy of a record is out of date,
\* the event that made it so is still ahead of its cursor, however pages were
\* cut, other filesystems' events skipped and history compacted.
CacheCoherent ==
    \A w \in Watchers : \A key \in DOMAIN cached[w] :
        \A i \in DOMAIN log :
            (key \in log[i].keys /\ log[i].revision > cached[w][key]) =>
                log[i].revision > cursor[w]

=============================================================================
