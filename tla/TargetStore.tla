----------------------------- MODULE TargetStore -----------------------------
(***************************************************************************)
(* A target store as the S3 adapter presents it (w9pt-fs-storage-s3): how   *)
(* the service's answer to a conditional PUT becomes an outcome of          *)
(* put_if_absent or compare_exchange.  The service itself is external: a    *)
(* PUT whose condition fails is refused, any PUT may be refused or lost,    *)
(* and one whose answer is lost may still take effect, at once or later.    *)
(***************************************************************************)
EXTENDS Integers

\* An answer of the service and whether the PUT took effect before it.
Reply(status, applied) == [status |-> status, applied |-> applied]

\* What the service may do with a PUT whose condition holds or fails.
Expected(holds) == IF holds THEN Reply("200", TRUE) ELSE Reply("412", FALSE)

Disturbed(holds) ==
  {Reply("409", FALSE), Reply("403", FALSE), Reply("503", FALSE)} \cup
  (IF holds THEN {Reply("200-no-etag", TRUE), Reply("503", TRUE)} ELSE {})

classify_put_error(status) ==
  CASE status = "412" -> "precondition_failed"
    [] status = "409" -> "conditional_conflict"
    [] status = "404" -> "missing"
    [] status = "503" -> "ambiguous"
    [] OTHER -> "error"

\* HEAD after a definite refusal; an object that has to be there and is not
\* exhausts the attempts.
resolve_current_version(present, require_present) ==
  IF present THEN "present" ELSE IF require_present THEN "error" ELSE "absent"

create_immutable(status, present) ==
  IF status = "200" THEN "created"
  ELSE IF status = "200-no-etag" THEN "ambiguous"
  ELSE LET failure == classify_put_error(status) IN
       IF failure \in {"precondition_failed", "conditional_conflict"}
       THEN IF resolve_current_version(present, TRUE) = "present" THEN "exists" ELSE "error"
       ELSE IF failure = "ambiguous" THEN "ambiguous" ELSE "error"

replace_conditionally(status, present, expected) ==
  IF status = "200" THEN "replaced"
  ELSE IF status = "200-no-etag" THEN "ambiguous"
  ELSE LET failure == classify_put_error(status) IN
       IF \/ failure \in {"precondition_failed", "conditional_conflict"}
          \/ failure = "missing" /\ expected
       THEN IF resolve_current_version(present, FALSE) = "error" THEN "error" ELSE "conflict"
       ELSE IF failure = "ambiguous" THEN "ambiguous" ELSE "error"
=============================================================================
