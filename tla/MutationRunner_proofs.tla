------------------------ MODULE MutationRunner_proofs ------------------------
(* Whatever calls of run_mutation the engines interleave, the authority    *)
(* below them takes only its own steps, so what StoreFenced says of it     *)
(* holds of every run, and the calls and the answers stay well typed.      *)
EXTENDS MutationRunner, StateStore_proofs

CallsTyped ==
    /\ DOMAIN call = Calls
    /\ \A c \in Calls : call[c] = Idle \/ call[c] \in CallState(c)

\* The inductive invariant: the authority's and the type invariant.
RunnerInv == StoreInv /\ CallsTyped /\ answers \subseteq Answer

(* Every started call has a well-typed state, and Idle is not one of them. *)
LEMMA StartedTyped ==
    ASSUME CallsTyped, NEW c \in Calls, call[c].stage # "idle"
    PROVE  call[c] \in CallState(c)
  BY DEF CallsTyped, Idle

(* Giving one call a well-typed state keeps all of them well typed.        *)
LEMMA UpdateTyped ==
    ASSUME CallsTyped, NEW c \in Calls, NEW x \in CallState(c),
           call' = [call EXCEPT ![c] = x]
    PROVE  CallsTyped'
  BY DEF CallsTyped

(* A call without a plan is well typed at every stage after idle.          *)
LEMMA AtTyped ==
    ASSUME NEW c \in Calls, NEW stage \in Stage \ {"idle"}, NEW op \in Operations,
           NEW fence \in WriterFence, NEW attempt \in 0..MaxConflictRetries[c]
    PROVE  At(stage, op, fence, attempt) \in CallState(c)
<1>1. 0 \in 0..MaxAmbiguityAttempts - 1
  BY RunnerAssumption
<1>2. {} \in SUBSET Mutations /\ 0 \in Nat
  OBVIOUS
<1> QED BY <1>1, <1>2 DEF At, CallState

(* Ending a call, with or without a terminal result.                       *)
LEMMA EndTyped ==
    ASSUME CallsTyped, NEW c \in Calls, call[c] \in CallState(c),
           NEW stage \in {"terminal", "unresolved"}, End(c, stage)
    PROVE  CallsTyped'
<1>1. /\ call[c].op \in Operations /\ call[c].fence \in WriterFence
      /\ 0 \in 0..MaxConflictRetries[c] /\ stage \in Stage \ {"idle"}
  BY RunnerAssumption DEF CallState, Stage
<1>2. At(stage, call[c].op, call[c].fence, 0) \in CallState(c)
  BY <1>1, AtTyped
<1>3. PICK x \in CallState(c) : x = At(stage, call[c].op, call[c].fence, 0)
  BY <1>2
<1>4. call' = [call EXCEPT ![c] = x]
  BY <1>3 DEF End
<1> QED BY <1>4, UpdateTyped, Zenon

(* A terminal result adds at most one well-typed answer.                   *)
LEMMA TerminalTyped ==
    ASSUME CallsTyped, answers \subseteq Answer, NEW c \in Calls,
           call[c] \in CallState(c),
           NEW errno \in {"None", "EEXIST", "ENOENT", "EAGAIN", "EIO"},
           NEW result \in SUBSET Mutations, Terminal(c, errno, result)
    PROVE  CallsTyped' /\ answers' \subseteq Answer
<1>1. CallsTyped'
  BY EndTyped DEF Terminal
<1>2. call[c].op \in Operations
  BY DEF CallState
<1>3. [op |-> call[c].op, errno |-> errno, result |-> result] \in Answer
  BY <1>2 DEF Answer
<1> QED BY <1>1, <1>3 DEF Terminal

(* Ending unresolved adds no answer.                                       *)
LEMMA UnresolvedTyped ==
    ASSUME CallsTyped, answers \subseteq Answer, NEW c \in Calls,
           call[c] \in CallState(c), Unresolved(c)
    PROVE  CallsTyped' /\ answers' \subseteq Answer
  BY EndTyped DEF Unresolved

(* A replay answers with the result the ledger retained.                   *)
LEMMA ReplayedTyped ==
    ASSUME RunnerInv, NEW c \in Calls, call[c] \in CallState(c),
           Retained(call[c].op.mutation), Replayed(c)
    PROVE  CallsTyped' /\ answers' \subseteq Answer
<1>1. ledger[call[c].op.mutation] \in MutationRecord
  BY DEF Retained, RunnerInv, StoreInv, StoreTypeOK, PartialFunction
<1>2. PICK result \in SUBSET Mutations : result = ledger[call[c].op.mutation].result
  BY <1>1, RunnerAssumption DEF MutationRecord
<1>3. {} \in SUBSET Mutations
  OBVIOUS
<1>4. Terminal(c, "None", result) \/ Terminal(c, "EIO", {})
  BY <1>2 DEF Replayed
<1> QED BY <1>3, <1>4, TerminalTyped DEF RunnerInv

(* The request a call has planned is a commit request.                     *)
LEMMA RequestTyped ==
    ASSUME NEW c \in Calls, call[c] \in CallState(c)
    PROVE  Request(c) \in CommitRequest /\ Request(c).result \in SUBSET Mutations
<1>1. /\ call[c].op \in Operations /\ call[c].fence \in WriterFence
      /\ call[c].expected \in Nat /\ call[c].value \in SUBSET Mutations
  BY DEF CallState
<1>2. call[c].op.mutation \in Mutations /\ call[c].op.fingerprint \in Fingerprints
  BY <1>1, RunnerAssumption
<1>3. /\ KeyOf[call[c].op.fingerprint] \in Keys
      /\ ChangeOf[call[c].op.fingerprint] \in ChangeKind
      /\ call[c].value \in Values
  BY <1>1, <1>2, RunnerAssumption
<1> QED BY <1>1, <1>2, <1>3 DEF Request, CommitRequest

(* What a call does with any definitive outcome keeps the types.           *)
LEMMA OutcomeTyped ==
    ASSUME RunnerInv, NEW c \in Calls, call[c] \in CallState(c),
           \/ Outcome(c, CommitOutcome(Request(c)), Terminal(c, "EAGAIN", {}))
           \/ Outcome(c, CommitOutcome(Request(c)), Unresolved(c))
    PROVE  CallsTyped' /\ answers' \subseteq Answer
<1> DEFINE outcome == CommitOutcome(Request(c))
<1>1. outcome \in {"Committed", "AlreadyCommitted", "MutationMismatch",
                   "StaleFence", "ExpiredLease", "Conflict"}
  BY DEF CommitOutcome
<1>2. CallsTyped /\ answers \subseteq Answer
  BY DEF RunnerInv
<1>3. CASE outcome = "Committed"
  <2>1. PICK result \in SUBSET Mutations : result = Request(c).result
    BY RequestTyped
  <2>2. Terminal(c, "None", result)
    BY <1>3, <2>1 DEF Outcome
  <2> QED BY <1>2, <2>2, TerminalTyped
<1>4. CASE outcome \in {"AlreadyCommitted", "MutationMismatch"}
  <2>1. Replayed(c)
    BY <1>4, Zenon DEF Outcome
  <2>2. Request(c).mutation = call[c].op.mutation
    BY DEF Request
  <2>3. Retained(call[c].op.mutation)
    BY <1>4, <2>2 DEF CommitOutcome
  <2> QED BY <2>1, <2>3, ReplayedTyped
<1>5. CASE outcome \in {"StaleFence", "ExpiredLease"}
  <2>1. Unresolved(c)
    BY <1>5, Zenon DEF Outcome
  <2> QED BY <1>2, <2>1, UnresolvedTyped
<1>6. CASE outcome = "Conflict"
  <2>1. Replan(c, Terminal(c, "EAGAIN", {})) \/ Replan(c, Unresolved(c))
    BY <1>6 DEF Outcome
  <2>2. CASE call[c].attempt >= MaxConflictRetries[c]
    <3>1. Terminal(c, "EAGAIN", {}) \/ Unresolved(c)
      BY <2>1, <2>2 DEF Replan
    <3>2. {} \in SUBSET Mutations
      OBVIOUS
    <3> QED BY <1>2, <3>1, <3>2, TerminalTyped, UnresolvedTyped
  <2>3. CASE ~(call[c].attempt >= MaxConflictRetries[c])
    <3>1. /\ call' = [call EXCEPT ![c] =
                         At("plan", @.op, @.fence, @.attempt + 1)]
          /\ UNCHANGED answers
      BY <2>1, <2>3 DEF Replan
    <3>2. /\ call[c].op \in Operations /\ call[c].fence \in WriterFence
          /\ call[c].attempt + 1 \in 0..MaxConflictRetries[c]
          /\ "plan" \in Stage \ {"idle"}
      BY <2>3, RunnerAssumption DEF CallState, Stage
    <3>3. At("plan", call[c].op, call[c].fence, call[c].attempt + 1) \in CallState(c)
      BY <3>2, AtTyped
    <3>4. PICK x \in CallState(c) :
              x = At("plan", call[c].op, call[c].fence, call[c].attempt + 1)
      BY <3>3
    <3>5. call' = [call EXCEPT ![c] = x]
      BY <3>1, <3>4
    <3> QED BY <1>2, <3>1, <3>5, UpdateTyped, ZenonT(60)
  <2> QED BY <2>2, <2>3
<1> QED BY <1>1, <1>3, <1>4, <1>5, <1>6

(* A commit of a planned request, or none, is a step of the authority.     *)
LEMMA CommitIsStoreStep ==
    ASSUME NEW c \in Calls, call[c] \in CallState(c),
           Commit(Request(c)) \/ UNCHANGED storeVars
    PROVE  [StoreNext]_storeVars
  BY RequestTyped DEF StoreNext

(* Reading and planning keep the types: the value of an update extends the *)
(* value that was read.                                                    *)
LEMMA PlanTyped ==
    ASSUME RunnerInv, NEW c \in Calls, Plan(c)
    PROVE  CallsTyped' /\ answers' \subseteq Answer
<1> DEFINE op == call[c].op
           key == KeyOf[op.fingerprint]
           change == ChangeOf[op.fingerprint]
           value == CASE change = "create" -> {op.mutation}
                      [] change = "update" -> records[key].value \cup {op.mutation}
                      [] change = "remove" -> records[key].value
<1>1. call[c] \in CallState(c) /\ CallsTyped /\ answers \subseteq Answer
  BY StartedTyped DEF RunnerInv, Plan
<1>2. CASE Terminal(c, "EEXIST", {}) \/ Terminal(c, "ENOENT", {})
  <2>1. {} \in SUBSET Mutations
    OBVIOUS
  <2> QED BY <1>1, <1>2, <2>1, TerminalTyped
<1>3. CASE /\ ~(change # "create" /\ ~Present(key))
           /\ call' = [call EXCEPT ![c].stage = "commit",
                                   ![c].expected = RevisionOf(key), ![c].value = value]
           /\ UNCHANGED answers
  <2>1. op \in Operations /\ op.mutation \in Mutations /\ op.fingerprint \in Fingerprints
    BY <1>1, RunnerAssumption DEF CallState
  <2>2. change \in {"create", "update", "remove"}
    BY <2>1, RunnerAssumption DEF ChangeKind
  <2>3. Present(key) => records[key] \in Record
    BY DEF Present, RunnerInv, StoreInv, StoreTypeOK, PartialFunction
  <2>4. Present(key) => records[key].value \in SUBSET Mutations /\ records[key].revision \in Nat
    BY <2>3, RunnerAssumption DEF Record
  <2>5. value \in SUBSET Mutations /\ RevisionOf(key) \in Nat
    BY <1>3, <2>1, <2>2, <2>4, Zenon DEF RevisionOf
  <2> HIDE DEF value
  <2>6. [call[c] EXCEPT !.stage = "commit", !.expected = RevisionOf(key), !.value = value]
            \in CallState(c)
    BY <1>1, <2>5, Zenon DEF CallState, Stage
  <2>7. PICK x \in CallState(c) :
            x = [call[c] EXCEPT !.stage = "commit", !.expected = RevisionOf(key),
                                !.value = value]
    BY <2>6
  <2>8. call' = [call EXCEPT ![c] = x]
    BY <1>1, <1>3, <2>7, Zenon DEF CallsTyped
  <2> QED BY <1>1, <1>3, <2>8, UpdateTyped, ZenonT(60)
<1> QED BY <1>2, <1>3, Zenon DEF Plan

(* A change of one call's stage keeps the types.                           *)
LEMMA StageTyped ==
    ASSUME CallsTyped, NEW c \in Calls, call[c] \in CallState(c),
           NEW stage \in Stage \ {"idle"}, call' = [call EXCEPT ![c].stage = stage]
    PROVE  CallsTyped'
<1>1. [call[c] EXCEPT !.stage = stage] \in CallState(c)
  BY DEF CallState
<1>2. PICK x \in CallState(c) : x = [call[c] EXCEPT !.stage = stage]
  BY <1>1
<1>3. call' = [call EXCEPT ![c] = x]
  BY <1>2 DEF CallsTyped
<1> QED BY <1>3, UpdateTyped, Zenon

(* Every step of a call is a step of the authority, or none, and keeps the *)
(* calls and the answers well typed.                                       *)
LEMMA CallStepTyped ==
    ASSUME RunnerInv, NEW c \in Calls, CallStep(c) \/ Fail(c)
    PROVE  [StoreNext]_storeVars /\ CallsTyped' /\ answers' \subseteq Answer
<1>1. call[c] \in CallState(c) /\ CallsTyped /\ answers \subseteq Answer
  BY StartedTyped, Zenon DEF RunnerInv, CallStep, Fail, Running, Started, Probe, Plan,
                      DeliverCommit, LoseCommit, ResolveCommit, LoseResolve
<1>2. "plan" \in Stage \ {"idle"} /\ "resolve" \in Stage \ {"idle"}
  BY DEF Stage
<1>3. CASE Probe(c)
  <2>1. CASE Retained(call[c].op.mutation)
    BY <1>1, <1>3, <2>1, ReplayedTyped DEF Probe
  <2>2. CASE ~Retained(call[c].op.mutation)
    BY <1>1, <1>2, <1>3, <2>2, StageTyped, SMTT(60) DEF Probe
  <2> QED BY <2>1, <2>2
<1>4. CASE Plan(c)
  BY <1>4, PlanTyped, Zenon DEF Plan
<1>5. CASE DeliverCommit(c) \/ ResolveCommit(c)
  BY <1>1, <1>5, OutcomeTyped, CommitIsStoreStep DEF DeliverCommit, ResolveCommit
<1>6. CASE LoseCommit(c)
  BY <1>1, <1>2, <1>6, StageTyped, CommitIsStoreStep, Zenon DEF LoseCommit
<1>7. CASE LoseResolve(c)
  <2>1. [StoreNext]_storeVars
    BY <1>1, <1>7, CommitIsStoreStep DEF LoseResolve
  <2>2. CASE call[c].ambiguity + 1 = MaxAmbiguityAttempts
    BY <1>1, <1>7, <2>1, <2>2, UnresolvedTyped DEF LoseResolve
  <2>3. CASE call[c].ambiguity + 1 # MaxAmbiguityAttempts
    <3>1. call[c].ambiguity + 1 \in 0..MaxAmbiguityAttempts - 1
      BY <1>1, <2>3, RunnerAssumption DEF CallState
    <3>2. [call[c] EXCEPT !.ambiguity = @ + 1] \in CallState(c)
      BY <1>1, <3>1 DEF CallState
    <3>3. PICK x \in CallState(c) : x = [call[c] EXCEPT !.ambiguity = @ + 1]
      BY <3>2
    <3>4. call' = [call EXCEPT ![c] = x] /\ UNCHANGED answers
      BY <1>1, <1>7, <2>3, <3>3 DEF LoseResolve, CallsTyped
    <3> QED BY <1>1, <2>1, <3>4, UpdateTyped, Zenon
  <2> QED BY <2>2, <2>3
<1>8. CASE Fail(c)
  BY <1>1, <1>8, UnresolvedTyped DEF Fail
<1> QED BY <1>3, <1>4, <1>5, <1>6, <1>7, <1>8 DEF CallStep

(* Every step of the whole system preserves the invariant.                 *)
LEMMA RunnerStepInv == RunnerInv /\ [Next]_vars => RunnerInv'
<1> SUFFICES ASSUME RunnerInv, [Next]_vars
             PROVE  [StoreNext]_storeVars /\ CallsTyped' /\ answers' \subseteq Answer
  BY StoreStepInv DEF RunnerInv
<1>1. ASSUME NEW c \in Calls, CallStep(c) \/ Fail(c)
      PROVE  [StoreNext]_storeVars /\ CallsTyped' /\ answers' \subseteq Answer
  BY <1>1, CallStepTyped
<1>2. ASSUME NEW c \in Calls, NEW op \in Operations, NEW f \in KnownFences,
             Start(c, op, f)
      PROVE  [StoreNext]_storeVars /\ CallsTyped' /\ answers' \subseteq Answer
  <2>1. f \in WriterFence /\ "probe" \in Stage \ {"idle"}
        /\ 0 \in 0..MaxConflictRetries[c]
    BY KnownFencesType, RunnerAssumption DEF RunnerInv, Stage
  <2>2. At("probe", op, f, 0) \in CallState(c)
    BY <2>1, AtTyped
  <2>3. call' = [call EXCEPT ![c] = At("probe", op, f, 0)]
        /\ UNCHANGED <<storeVars, answers>>
    BY <1>2 DEF Start
  <2> QED BY <2>2, <2>3, UpdateTyped, Zenon DEF RunnerInv
<1>3. CASE /\ \/ \E op \in LeaseOps : LeaseStep(op)
              \/ Advance
           /\ UNCHANGED <<call, answers>>
  BY <1>3 DEF StoreNext, RunnerInv, CallsTyped
<1>4. CASE UNCHANGED vars
  BY <1>4 DEF vars, RunnerInv, CallsTyped
<1> QED BY <1>1, <1>2, <1>3, <1>4 DEF Next

(* In every run of the engines over the authority: types, each mutation    *)
(* and lease operation published at most once, and publications of a scope *)
(* in the order of their fencing tokens, for any number of engines, calls, *)
(* repeats and lost answers.                                               *)
THEOREM RunnerFenced == Spec => [](TypeOK /\ PublishedOnce /\ FencedOrder)
<1>1. Init => RunnerInv
  BY StoreInitInv DEF Init, RunnerInv, CallsTyped
<1>2. RunnerInv => TypeOK /\ PublishedOnce /\ FencedOrder
  BY DEF RunnerInv, StoreInv, CallsTyped, TypeOK
<1> QED BY <1>1, <1>2, RunnerStepInv, PTL DEF Spec
=============================================================================
