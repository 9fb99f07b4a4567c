--------------------------- MODULE MutationRunner ---------------------------
(***************************************************************************)
(* The engine's run_mutation (w9pt-fs/src/engine.rs) over the authority of *)
(* StateStore, as several engines run it.  A call probes the mutation      *)
(* ledger, plans against a fresh read, commits, replans after a definitive *)
(* conflict and resolves an ambiguous commit by repeating it unchanged.    *)
(* Between any two of these steps other calls, lease operations and the    *)
(* clock may run.                                                          *)
(*                                                                         *)
(* The host (outside the repository's crates) starts a call with a fence   *)
(* it was once granted.  It repeats an operation whose call ended          *)
(* unresolved, or whose engine it takes for dead, and then under a later   *)
(* fence of the same scope; the earlier engine may well be alive.          *)
(***************************************************************************)
EXTENDS StateStore

CONSTANTS
    Calls,                  \* invocations of run_mutation
    Operations,             \* what clients ask for: mutation, fingerprint
    ChangeOf,               \* what the request with a fingerprint does ...
    KeyOf,                  \* ... and to which record
    MaxConflictRetries,     \* EngineLimits::max_conflict_retries, by call
    MaxAmbiguityAttempts    \* EngineLimits::max_ambiguity_attempts

ASSUME RunnerAssumption ==
    /\ Operations \subseteq [mutation : Mutations, fingerprint : Fingerprints]
    /\ ChangeOf \in [Fingerprints -> ChangeKind]
    /\ KeyOf \in [Fingerprints -> Keys]
    /\ Values = SUBSET Mutations
    /\ MaxConflictRetries \in [Calls -> Nat]
    /\ MaxAmbiguityAttempts \in Nat \ {0}

VARIABLES
    call,       \* the local state of each call
    answers     \* history: the terminal results the host passed on

vars == <<storeVars, call, answers>>

Stage == {"idle", "probe", "plan", "commit", "resolve", "terminal",
          "unresolved"}

Idle == [stage |-> "idle"]

Started == {c \in Calls : call[c].stage # "idle"}

Running == {c \in Started : call[c].stage \notin {"terminal", "unresolved"}}

\* The commit request a call has planned.
Request(c) ==
    LET op == call[c].op
    IN  [mutation |-> op.mutation, fingerprint |-> op.fingerprint,
         fence |-> call[c].fence, key |-> KeyOf[op.fingerprint],
         expected |-> call[c].expected, change |-> ChangeOf[op.fingerprint],
         value |-> call[c].value, result |-> call[c].value]

\* The host repeated the operation under a later fence.
Superseded(c) ==
    \E d \in Started : /\ call[d].op = call[c].op
                       /\ call[d].fence.scope = call[c].fence.scope
                       /\ call[d].fence.token > call[c].fence.token

\* A call whose locals are dead: it has no plan (yet, or any more).
At(stage, op, fence, attempt) ==
    [stage |-> stage, op |-> op, fence |-> fence, attempt |-> attempt,
     ambiguity |-> 0, expected |-> 0, value |-> {}]

End(c, stage) ==
    call' = [call EXCEPT ![c] = At(stage, @.op, @.fence, 0)]

Unresolved(c) == End(c, "unresolved") /\ UNCHANGED answers

\* EngineOutcome::Terminal; the host listens to its newest engine only.
Terminal(c, errno, result) ==
    /\ End(c, "terminal")
    /\ answers' = IF Superseded(c) THEN answers
                  ELSE answers \cup {[op |-> call[c].op, errno |-> errno,
                                      result |-> result]}

Replayed(c) ==
    LET op == call[c].op
    IN  IF ledger[op.mutation].fingerprint = op.fingerprint
        THEN Terminal(c, "None", ledger[op.mutation].result)
        ELSE Terminal(c, "EIO", {})

(***************************************************************************)
(* Steps of a call.                                                        *)
(***************************************************************************)
MayStart(op, fence) ==
    /\ \A a \in answers : a.op # op
    /\ \A c \in Started :
          call[c].op = op =>
              \/ call[c].stage = "unresolved"
              \/ /\ call[c].fence.scope = fence.scope
                 /\ call[c].fence.token < fence.token

Start(c, op, fence) ==
    /\ call[c] = Idle
    /\ MayStart(op, fence)
    /\ call' = [call EXCEPT ![c] = At("probe", op, fence, 0)]
    /\ UNCHANGED <<storeVars, answers>>

\* probe_mutation_ledger, before anything else.
Probe(c) ==
    /\ call[c].stage = "probe"
    /\ IF Retained(call[c].op.mutation)
       THEN Replayed(c)
       ELSE call' = [call EXCEPT ![c].stage = "plan"] /\ UNCHANGED answers
    /\ UNCHANGED storeVars

\* The planner: one fresh read at one revision, then a request or an errno.
\* What it derives from the read is the new value, or the value removed.
Plan(c) ==
    LET op == call[c].op
        key == KeyOf[op.fingerprint]
        change == ChangeOf[op.fingerprint]
    IN  /\ call[c].stage = "plan"
        /\ IF change = "create" /\ Present(key) THEN Terminal(c, "EEXIST", {})
           ELSE IF change # "create" /\ ~Present(key)
           THEN Terminal(c, "ENOENT", {})
           ELSE /\ call' = [call EXCEPT ![c].stage = "commit",
                               ![c].expected = RevisionOf(key),
                               ![c].value =
                                  CASE change = "create" -> {op.mutation}
                                    [] change = "update" ->
                                         records[key].value \cup {op.mutation}
                                    [] change = "remove" -> records[key].value]
                /\ UNCHANGED answers
        /\ UNCHANGED storeVars

\* A definitive conflict: replan from a fresh read, a bounded number of times.
ReplanUncounted(c, exhausted) ==
    /\ call' = [call EXCEPT ![c] = At("plan", @.op, @.fence, @.attempt)]
    /\ UNCHANGED answers

Replan(c, exhausted) ==
    IF call[c].attempt >= MaxConflictRetries[c]
    THEN exhausted
    ELSE /\ call' = [call EXCEPT ![c] =
                        At("plan", @.op, @.fence, @.attempt + 1)]
         /\ UNCHANGED answers

\* What a call does with an outcome other than Ambiguous.
Outcome(c, outcome, exhausted) ==
    CASE outcome = "Committed" -> Terminal(c, "None", Request(c).result)
      [] outcome \in {"AlreadyCommitted", "MutationMismatch"} -> Replayed(c)
      [] outcome \in {"StaleFence", "ExpiredLease"} -> Unresolved(c)
      [] outcome = "Conflict" -> Replan(c, exhausted)

DeliverCommit(c) ==
    /\ call[c].stage = "commit"
    /\ Commit(Request(c))
    /\ Outcome(c, CommitOutcome(Request(c)), Terminal(c, "EAGAIN", {}))

\* The adapter lost the answer: the commit was published, or it was not.
LoseCommit(c) ==
    /\ call[c].stage = "commit"
    /\ \/ Commit(Request(c))
       \/ UNCHANGED storeVars
    /\ call' = [call EXCEPT ![c].stage = "resolve"]
    /\ UNCHANGED answers

\* The exact request again, while its first outcome is unknown.
ResolveCommit(c) ==
    /\ call[c].stage = "resolve"
    /\ Commit(Request(c))
    /\ Outcome(c, CommitOutcome(Request(c)), Unresolved(c))

LoseResolve(c) ==
    /\ call[c].stage = "resolve"
    /\ \/ Commit(Request(c))
       \/ UNCHANGED storeVars
    /\ IF call[c].ambiguity + 1 = MaxAmbiguityAttempts
       THEN Unresolved(c)
       ELSE /\ call' = [call EXCEPT ![c].ambiguity = @ + 1]
            /\ UNCHANGED answers

\* An adapter error before publication, or the engine's process ends: the
\* call returns no terminal result.
Fail(c) ==
    /\ c \in Running
    /\ Unresolved(c)
    /\ UNCHANGED storeVars

CallStep(c) == \/ Probe(c) \/ Plan(c)
               \/ DeliverCommit(c) \/ LoseCommit(c)
               \/ ResolveCommit(c) \/ LoseResolve(c)

Init ==
    /\ StoreInit
    /\ call = [c \in Calls |-> Idle]
    /\ answers = {}

Next ==
    \/ \E c \in Calls :
          \/ CallStep(c)
          \/ Fail(c)
          \/ \E op \in Operations, f \in KnownFences : Start(c, op, f)
    \/ /\ \/ \E op \in LeaseOps : LeaseStep(op)
          \/ Advance
       /\ UNCHANGED <<call, answers>>

Spec == Init /\ [][Next]_vars

-----------------------------------------------------------------------------
(***************************************************************************)
(* Properties.                                                             *)
(***************************************************************************)
CallState(c) ==
    [stage : Stage \ {"idle"}, op : Operations, fence : WriterFence,
     attempt : 0..MaxConflictRetries[c],
     ambiguity : 0..MaxAmbiguityAttempts - 1,
     expected : Nat, value : SUBSET Mutations]

Answer == [op : Operations, errno : {"None", "EEXIST", "ENOENT", "EAGAIN",
                                     "EIO"}, result : SUBSET Mutations]

\* Type invariant: the store's, the calls' and the answers'.
TypeOK ==
    /\ StoreTypeOK
    /\ DOMAIN call = Calls
    /\ \A c \in Calls : call[c] = Idle \/ call[c] \in CallState(c)
    /\ answers \subseteq Answer


\* Reading, planning and committing in separate steps, with replans, repeats
\* and superseded engines, is as good as applying each operation in one step
\* and at most once: the refinement of AtomicMutations.
Atomic ==
    INSTANCE AtomicMutations WITH
        values <- [k \in DOMAIN records |-> records[k].value],
        applied <- [m \in DOMAIN ledger |->
                       [op |-> [mutation |-> m,
                                fingerprint |-> ledger[m].fingerprint],
                        result |-> ledger[m].result]]


\* Conflicts and ambiguous answers cannot keep a call replanning or repeating
\* for ever: every step of a call, whatever the store answers, lowers a
\* natural number that its start bounds.
Rank(c, state) ==
    LET perAttempt == MaxAmbiguityAttempts + 3
        retries == MaxConflictRetries[c] - state.attempt
    IN  CASE state.stage = "probe" -> (MaxConflictRetries[c] + 1) * perAttempt
          [] state.stage = "plan" -> retries * perAttempt + perAttempt - 1
          [] state.stage = "commit" -> retries * perAttempt + perAttempt - 2
          [] state.stage = "resolve" ->
                 retries * perAttempt + MaxAmbiguityAttempts - state.ambiguity
          [] state.stage \in {"terminal", "unresolved"} -> 0

CallsProgress ==
    [][\A c \in Started :
          call'[c] # call[c] => Rank(c, call'[c]) < Rank(c, call[c])]_vars
=============================================================================
