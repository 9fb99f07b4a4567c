-------------------------- MODULE AtomicMutations --------------------------
(***************************************************************************)
(* What the engine promises for state-changing requests: each one takes    *)
(* effect at most once, in a single step, on the current records, and the  *)
(* answer a client gets is final.  MutationRunner, in which an engine      *)
(* reads, plans and commits in separate steps against concurrent,          *)
(* superseded and crashed engines, implements this specification.          *)
(***************************************************************************)
EXTENDS Functions

CONSTANTS
    Operations,     \* the requests clients make: mutation and fingerprint
    ChangeOf,       \* what the request with a fingerprint does ...
    KeyOf           \* ... and to which record

VARIABLES
    values,     \* what each present record holds
    applied,    \* for each mutation that took effect: its operation, result
    answers     \* what clients were told

Present(key) == key \in DOMAIN values

\* The record after the operation, the mutations it is the product of, or
\* the record that is removed.
Effect(op) ==
    CASE ChangeOf[op.fingerprint] = "create" -> {op.mutation}
      [] ChangeOf[op.fingerprint] = "update" ->
             values[KeyOf[op.fingerprint]] \cup {op.mutation}
      [] ChangeOf[op.fingerprint] = "remove" -> values[KeyOf[op.fingerprint]]

Applicable(op) ==
    Present(KeyOf[op.fingerprint]) <=> ChangeOf[op.fingerprint] # "create"

Failed(op) == \E a \in answers : a.op = op /\ a.errno # "None"

AppliedAs(op) ==
    op.mutation \in DOMAIN applied /\ applied[op.mutation].op = op

Success(op, result) == [op |-> op, errno |-> "None", result |-> result]

\* The operation takes effect, and its client may be told at once.
Apply(op) ==
    LET key == KeyOf[op.fingerprint]
    IN  /\ op.mutation \notin DOMAIN applied
        /\ ~Failed(op)
        /\ Applicable(op)
        /\ values' = IF ChangeOf[op.fingerprint] = "remove"
                     THEN Restrict(values, DOMAIN values \ {key})
                     ELSE [k \in DOMAIN values \cup {key} |->
                              IF k = key THEN Effect(op) ELSE values[k]]
        /\ applied' = [m \in DOMAIN applied \cup {op.mutation} |->
                          IF m = op.mutation
                          THEN [op |-> op, result |-> Effect(op)]
                          ELSE applied[m]]
        /\ \/ UNCHANGED answers
           \/ answers' = answers \cup {Success(op, Effect(op))}

\* Success: the result the operation had when it was applied.
AnswerOk(op) ==
    /\ AppliedAs(op)
    /\ answers' = answers \cup {Success(op, applied[op.mutation].result)}
    /\ UNCHANGED <<values, applied>>

\* A client error: the operation did not take effect, and never will.
AnswerError(op, errno) ==
    /\ ~AppliedAs(op)
    /\ errno \in {"EEXIST", "ENOENT"} => ~Applicable(op)
    /\ errno = "EIO" => op.mutation \in DOMAIN applied
    /\ answers' = answers \cup
           {[op |-> op, errno |-> errno, result |-> {}]}
    /\ UNCHANGED <<values, applied>>

Init == values = <<>> /\ applied = <<>> /\ answers = {}

Next ==
    \E op \in Operations :
        \/ Apply(op)
        \/ AnswerOk(op)
        \/ \E errno \in {"EEXIST", "ENOENT", "EAGAIN", "EIO"} :
              AnswerError(op, errno)

Spec == Init /\ [][Next]_<<values, applied, answers>>
=============================================================================
