----------------------------- MODULE AgentState -----------------------------
(***************************************************************************)
(* The pure vocabulary of the durable runtime (src/Agent/state.py): the    *)
(* two finite state machines of a Run, the Attempt records of a Logical    *)
(* Operation and the reducer that alone derives an Operation's status from *)
(* its Attempt history.  No state here: every module of the project that   *)
(* talks about Runs or Operations extends this one.                        *)
(***************************************************************************)
EXTENDS Naturals, Sequences

None == "none"

-----------------------------------------------------------------------------
(* Outer (task) and inner (execution) state machines. *)

TaskStates == { "created", "queued", "starting", "running", "recovering",
                "recovery_required", "cancelling", "finalizing",
                "succeeded", "failed", "cancelled", "interrupted" }

NORMAL_TERMINALS == { "succeeded", "failed", "cancelled" }

TERMINAL_STATES == NORMAL_TERMINALS \cup { "interrupted" }

OUTER_TRANSITIONS ==
  [ s \in TaskStates |->
      CASE s = "created"           -> { "queued", "finalizing" }
        [] s = "queued"            -> { "starting", "cancelling", "finalizing" }
        [] s = "starting"          -> { "running", "recovering", "cancelling",
                                        "finalizing", "interrupted" }
        [] s = "running"           -> { "recovering", "recovery_required",
                                        "cancelling", "finalizing", "interrupted" }
        [] s = "recovering"        -> { "queued", "starting", "running",
                                        "recovery_required", "cancelling",
                                        "finalizing", "interrupted" }
        [] s = "recovery_required" -> { "recovering", "cancelling", "finalizing" }
        [] s = "cancelling"        -> { "recovery_required", "finalizing" }
        [] s = "finalizing"        -> { "succeeded", "failed", "cancelled",
                                        "recovering", "recovery_required",
                                        "interrupted" }
        [] OTHER                   -> {} ]

ExecutionStates == { "thinking", "waiting_human", "acting", "observing", "finished" }

INNER_TRANSITIONS ==
  [ s \in ExecutionStates |->
      CASE s = "thinking"      -> { "waiting_human", "acting", "observing", "finished" }
        [] s = "waiting_human" -> { "acting", "observing", "finished" }
        [] s = "acting"        -> { "observing", "finished" }
        [] s = "observing"     -> { "thinking", "finished" }
        [] OTHER               -> {} ]

Outcomes == { "success", "error", "cancelled", "exhausted" }

(* FINISHED carries an outcome, and the outcome fixes the normal terminal. *)
TargetOf(outcome) ==
  CASE outcome = "success" -> "succeeded"
    [] outcome \in { "error", "exhausted" } -> "failed"
    [] outcome = "cancelled" -> "cancelled"

(* The inner machine starts in THINKING and then follows its table. *)
InnerStep(from, to) ==
  IF from = None THEN to = "thinking" ELSE to \in INNER_TRANSITIONS[from]

-----------------------------------------------------------------------------
(* Operations and their Attempts. *)

Idempotency == { "pure", "idempotent", "externally_idempotent", "non_idempotent" }

AttemptStatus == { "prepared", "running", "completed", "failed", "skipped",
                   "unknown", "abandoned" }

Determined == { "completed", "failed", "skipped", "abandoned" }

FailureKinds == { None, "terminal", "retryable", "unknown_effect" }

Resolutions == { None, "unresolved", "retry_authorized", "confirmed_succeeded",
                 "confirmed_failed" }

(* risk: a human actor is recorded in risk_confirmed_by.                   *)
(* started: started_at is set, that is, the request may have left.         *)
Attempts == [ status : AttemptStatus, kind : FailureKinds, res : Resolutions,
              risk : BOOLEAN, started : BOOLEAN ]

NewAttempt(risk) ==
  [ status |-> "prepared", kind |-> None, res |-> None, risk |-> risk,
    started |-> FALSE ]

(* The record validators of OperationAttempt: what a stored Attempt's      *)
(* evidence fields may be, given its status.                               *)
WellFormedAttempt(a) ==
  /\ a.status = "failed" => a.kind \in { "terminal", "retryable" }
  /\ a.status = "unknown" => a.kind = "unknown_effect" /\ a.res # None
  /\ a.status \notin { "failed", "unknown" } => a.kind = None

IsActive(a) ==
  \/ a.status \in { "prepared", "running" }
  \/ a.status = "unknown" /\ a.res = "unresolved"

(* reduce_operation raises, and the transaction rolls back, on an empty    *)
(* history and on two active Attempts.                                     *)
Reducible(att) ==
  /\ att # << >>
  /\ \A i, j \in 1..Len(att) : IsActive(att[i]) /\ IsActive(att[j]) => i = j

Aggregates == [ status : AttemptStatus, kind : FailureKinds ]

reduce_operation(att, maxAttempts) ==
  LET latest == att[Len(att)]
  IN  CASE latest.status = "unknown" /\ latest.res = "confirmed_succeeded" ->
             [ status |-> "completed", kind |-> None ]
        [] latest.status = "unknown" /\ latest.res = "confirmed_failed" ->
             [ status |-> "failed", kind |-> "terminal" ]
        [] latest.status = "failed" /\ latest.kind = "retryable"
                                    /\ Len(att) >= maxAttempts ->
             [ status |-> "failed", kind |-> "terminal" ]
        [] OTHER -> [ status |-> latest.status, kind |-> latest.kind ]

ApprovalStatus == { "pending", "approved", "denied", "timeout" }

ReconcileStatus == { "completed", "not_applied", "failed", "unknown" }
=============================================================================
