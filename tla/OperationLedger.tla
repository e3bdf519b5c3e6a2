--------------------------- MODULE OperationLedger ---------------------------
(***************************************************************************)
(* The durable ledger of one Run, as StateController.apply                 *)
(* (src/gateway/state_controller.py) maintains it: Logical Operations with *)
(* their Attempt histories, durable Approvals, the SafeCheckpoint and the  *)
(* Tool observations.  One action per command, each one SQLite             *)
(* transaction; a command whose guard fails raises and changes nothing.    *)
(*                                                                         *)
(* Nothing is assumed about the callers: any command may arrive at any     *)
(* time for any Operation or Attempt.  What holds here therefore holds for *)
(* every coordinator, recovery pass and API client built on the ledger.    *)
(***************************************************************************)
EXTENDS AgentState, FiniteSets

CONSTANTS
  Ops,          \* Logical Operations, one per (run_id, kind, stable_key)
  Meta,         \* their immutable metadata: kind, idempotency, side_effecting
  MaxAttempts,  \* retry_policy_snapshot.max_attempts
  Approvals,    \* approval ids
  MaxOps        \* bound of the model: Operations the Run creates

Metadata == [ kind : { "model", "tool" }, idem : Idempotency, side : BOOLEAN ]

ASSUME MetaAssumption == Meta \in [Ops -> Metadata]
ASSUME MaxAttemptsAssumption == MaxAttempts \in Nat \ {0}

VARIABLES
  attempts,     \* operation_attempts: Operation -> history; <<>>: no Operation yet
  aggregate,    \* operation_ledger: the stored status and failure_kind
  due,          \* number of the last Attempt whose next_retry_at has passed
  approval,     \* durable_approvals
  checkpoint,   \* agent_states.safe_checkpoint: the last determined Attempt
  observation   \* tool_observations

vars == << attempts, aggregate, due, approval, checkpoint, observation >>

NoAggregate == [ status |-> None, kind |-> None ]
NoApproval  == [ status |-> None, op |-> None, no |-> 0, expired |-> FALSE ]
NoAttempt   == [ op |-> None, no |-> 0 ]
NoObservation == [ state |-> None, no |-> 0, shown |-> None ]

Exists(o)  == attempts[o] # << >>
Last(o)    == Len(attempts[o])
Latest(o)  == attempts[o][Last(o)]

Init ==
  /\ attempts    = [ o \in Ops |-> << >> ]
  /\ aggregate   = [ o \in Ops |-> NoAggregate ]
  /\ due         = [ o \in Ops |-> 0 ]
  /\ approval    = [ p \in Approvals |-> NoApproval ]
  /\ checkpoint  = NoAttempt
  /\ observation = [ o \in Ops |-> NoObservation ]

-----------------------------------------------------------------------------
(* Saving a history stores the aggregate the reducer derives from it; the  *)
(* reducer's ValueError rolls the whole transaction back.                  *)

(* Slip: the ledger row is reduced from the history before the update.     *)
SlipStaleReduction(o, history) ==
  /\ Reducible(history)
  /\ attempts' = [ attempts EXCEPT ![o] = history ]
  /\ aggregate' = [ aggregate EXCEPT ![o] =
       reduce_operation(IF Exists(o) THEN attempts[o] ELSE history, MaxAttempts) ]

aggregate_operation(o, history) ==
  /\ Reducible(history)
  /\ attempts' = [ attempts EXCEPT ![o] = history ]
  /\ aggregate' = [ aggregate EXCEPT ![o] = reduce_operation(history, MaxAttempts) ]

update_attempt(o, i, allowed, new) ==
  /\ i \in 1..Last(o)
  /\ attempts[o][i].status \in allowed
  /\ aggregate_operation(o, [ attempts[o] EXCEPT ![i] = new ])

Same == UNCHANGED << due, approval, checkpoint, observation >>

-----------------------------------------------------------------------------
(* Creating Operations and Attempts. *)

(* An existing stable_key returns the existing Operation unchanged.        *)
CreateOperationWithAttempt(o) ==
  /\ ~ Exists(o)
  /\ aggregate_operation(o, << NewAttempt(FALSE) >>)
  /\ Same

(* The older command: a Tool that is not PURE is refused while another     *)
(* Tool Operation of the Run is unsettled, and the stored status is the    *)
(* record's default rather than a reduction.                               *)
BeginOperation(o) ==
  /\ ~ Exists(o)
  /\ Meta[o].kind = "tool" /\ Meta[o].idem # "pure" =>
       \A q \in Ops : Meta[q].kind = "tool" =>
         aggregate[q].status \notin { "prepared", "running", "unknown" }
  /\ attempts' = [ attempts EXCEPT ![o] = << NewAttempt(FALSE) >> ]
  /\ aggregate' = [ aggregate EXCEPT ![o] = [ status |-> "prepared", kind |-> None ] ]
  /\ Same

(* The guard of a new Attempt, on the history and aggregate it is given:   *)
(* RecoveryDecision(retry) applies it inside its own transaction.          *)
MayBegin(o, history, agg) ==
  LET latest == history[Len(history)]
  IN  /\ agg.status \notin { "completed", "skipped" }
      /\ ~ (agg.status = "failed" /\ agg.kind = "terminal")
      /\ latest.status = "unknown" => latest.res = "retry_authorized"
      /\ Len(history) < MaxAttempts
      /\ agg.status = "failed" => due[o] = Len(history)

BeginOperationAttempt(o, risk) ==
  /\ Exists(o)
  /\ MayBegin(o, attempts[o], aggregate[o])
  /\ aggregate_operation(o, Append(attempts[o], NewAttempt(risk)))
  /\ Same

(* Time: next_retry_at of the latest, retryable, Attempt passes.           *)
RetryDue(o) ==
  /\ aggregate[o] = [ status |-> "failed", kind |-> "retryable" ]
  /\ due[o] < Last(o)
  /\ due' = [ due EXCEPT ![o] = Last(o) ]
  /\ UNCHANGED << attempts, aggregate, approval, checkpoint, observation >>

-----------------------------------------------------------------------------
(* The life of an Attempt. *)

StartOperationAttempt(o, i) ==
  /\ update_attempt(o, i, { "prepared" },
       [ attempts[o][i] EXCEPT !.status = "running", !.started = TRUE ])
  /\ Same

(* Slip: a failed Attempt may be completed late.                           *)
SlipCompleteFailed(o, i) ==
  /\ update_attempt(o, i, { "running", "unknown", "failed" },
       [ attempts[o][i] EXCEPT !.status = "completed", !.kind = None, !.res = None ])
  /\ Same

CompleteOperationAttempt(o, i) ==
  /\ update_attempt(o, i, { "running", "unknown" },
       [ attempts[o][i] EXCEPT !.status = "completed", !.kind = None, !.res = None ])
  /\ Same

FailOperationAttempt(o, i, kind) ==
  /\ update_attempt(o, i, { "prepared", "running" },
       [ attempts[o][i] EXCEPT !.status = "failed", !.kind = kind ])
  /\ Same

MarkOperationAttemptUnknown(o, i) ==
  /\ update_attempt(o, i, { "running" },
       [ attempts[o][i] EXCEPT !.status = "unknown", !.kind = "unknown_effect",
                               !.res = "unresolved" ])
  /\ Same

SkipOperationAttempt(o, i) ==
  /\ update_attempt(o, i, { "prepared" },
       [ attempts[o][i] EXCEPT !.status = "skipped" ])
  /\ Same

AbandonOperationAttempt(o, i) ==
  /\ update_attempt(o, i, { "prepared", "running" },
       [ attempts[o][i] EXCEPT !.status = "abandoned" ])
  /\ Same

(* What reconcile() learnt of an Attempt whose effect was in doubt.  An    *)
(* UNKNOWN Attempt keeps its raw status and only gets a resolution when    *)
(* the effect is settled.                                                  *)
Reconciled(a, result) ==
  CASE result = "completed" /\ a.status = "unknown" ->
         [ a EXCEPT !.res = "confirmed_succeeded" ]
    [] result = "completed" /\ a.status # "unknown" ->
         [ a EXCEPT !.status = "completed", !.kind = None, !.res = None ]
    [] result = "not_applied" ->
         [ a EXCEPT !.status = "failed", !.kind = "retryable", !.res = None ]
    [] result = "failed" /\ a.status = "unknown" ->
         [ a EXCEPT !.res = "confirmed_failed" ]
    [] result = "failed" /\ a.status # "unknown" ->
         [ a EXCEPT !.status = "failed", !.kind = "terminal", !.res = None ]
    [] result = "unknown" ->
         [ a EXCEPT !.status = "unknown", !.kind = "unknown_effect",
                    !.res = "unresolved" ]

ReconcileOperationAttempt(o, i, result) ==
  /\ update_attempt(o, i, { "running", "unknown" },
       Reconciled(attempts[o][i], result))
  /\ Same

-----------------------------------------------------------------------------
(* The Operation-level commands address the current Attempt. *)

StartOperation(o) == Exists(o) /\ StartOperationAttempt(o, Last(o))

CompleteOperation(o) == Exists(o) /\ CompleteOperationAttempt(o, Last(o))

FailOperation(o, kind) == Exists(o) /\ FailOperationAttempt(o, Last(o), kind)

MarkOperationUnknown(o) == Exists(o) /\ MarkOperationAttemptUnknown(o, Last(o))

AbandonOperation(o) ==
  Exists(o) /\ Meta[o].kind = "model" /\ AbandonOperationAttempt(o, Last(o))

ReconcileOperation(o, result) ==
  Exists(o) /\ ReconcileOperationAttempt(o, Last(o), result)

-----------------------------------------------------------------------------
(* Human recovery decisions (POST /runs/{id}/recovery). *)

RecoverConfirmSucceeded(o) ==
  /\ Exists(o)
  /\ update_attempt(o, Last(o), { "unknown" },
       [ Latest(o) EXCEPT !.res = "confirmed_succeeded", !.risk = TRUE ])
  /\ Same

(* Slip: the authorising actor is not recorded on the UNKNOWN Attempt.     *)
SlipRetryWithoutActor(o, riskConfirmed) ==
  LET authorised == IF Latest(o).status = "unknown"
                      THEN [ attempts[o] EXCEPT ![Last(o)].res = "retry_authorized" ]
                      ELSE attempts[o]
      agg == IF Latest(o).status = "unknown"
               THEN reduce_operation(authorised, MaxAttempts)
               ELSE aggregate[o]
  IN  /\ Exists(o)
      /\ aggregate[o].status \in { "unknown", "failed" }
      /\ MayBegin(o, authorised, agg)
      /\ aggregate_operation(o, Append(authorised, NewAttempt(riskConfirmed)))
      /\ Same

(* An UNKNOWN Attempt is first marked RETRY_AUTHORIZED and re-aggregated;  *)
(* the new Attempt is then begun in the same transaction.                  *)
RecoverRetry(o, riskConfirmed) ==
  LET authorised == IF Latest(o).status = "unknown"
                      THEN [ attempts[o] EXCEPT ![Last(o)] =
                               [ Latest(o) EXCEPT !.res = "retry_authorized",
                                                  !.risk = TRUE ] ]
                      ELSE attempts[o]
      agg == IF Latest(o).status = "unknown"
               THEN reduce_operation(authorised, MaxAttempts)
               ELSE aggregate[o]
  IN  /\ Exists(o)
      /\ aggregate[o].status \in { "unknown", "failed" }
      /\ Meta[o].idem = "non_idempotent" => riskConfirmed
      /\ MayBegin(o, authorised, agg)
      /\ aggregate_operation(o, Append(authorised, NewAttempt(riskConfirmed)))
      /\ Same

RecoverFail(o) ==
  /\ Exists(o)
  /\ \/ update_attempt(o, Last(o), { "unknown" },
          [ Latest(o) EXCEPT !.res = "confirmed_failed", !.risk = TRUE ])
     \/ update_attempt(o, Last(o), { "prepared", "running" },
          [ Latest(o) EXCEPT !.status = "failed", !.kind = "terminal" ])
  /\ Same

-----------------------------------------------------------------------------
(* Approvals. *)

CreateApproval(p, o, i) ==
  /\ approval[p] = NoApproval
  /\ i \in 1..Last(o)
  /\ approval' = [ approval EXCEPT ![p] =
                     [ status |-> "pending", op |-> o, no |-> i, expired |-> FALSE ] ]
  /\ UNCHANGED << attempts, aggregate, due, checkpoint, observation >>

(* Time: expires_at passes. *)
ApprovalDue(p) ==
  /\ approval[p].status = "pending"
  /\ ~ approval[p].expired
  /\ approval' = [ approval EXCEPT ![p].expired = TRUE ]
  /\ UNCHANGED << attempts, aggregate, due, checkpoint, observation >>

(* A refusal settles the approval and skips the Attempt, or does neither.  *)
Refuse(p, status) ==
  LET o == approval[p].op
      i == approval[p].no
  IN  /\ approval' = [ approval EXCEPT ![p].status = status ]
      /\ update_attempt(o, i, { "prepared" },
           [ attempts[o][i] EXCEPT !.status = "skipped" ])
      /\ UNCHANGED << due, checkpoint, observation >>

(* A repeated identical decision changes nothing, an opposite one is a     *)
(* conflict: only a pending Approval is ever written.                      *)
DecideApproval(p, approved) ==
  /\ approval[p].status = "pending"
  /\ \/ /\ approved
        /\ approval' = [ approval EXCEPT ![p].status = "approved" ]
        /\ UNCHANGED << attempts, aggregate, due, checkpoint, observation >>
     \/ /\ ~ approved
        /\ Refuse(p, "denied")

ExpireApproval(p) ==
  /\ approval[p].status = "pending"
  /\ approval[p].expired
  /\ Refuse(p, "timeout")

-----------------------------------------------------------------------------
(* SafeCheckpoint and Tool observations. *)

SideEffectPending ==
  \E o \in Ops : Meta[o].side /\ \E i \in 1..Last(o) : IsActive(attempts[o][i])

CreateSafeCheckpoint(o, i) ==
  /\ ~ SideEffectPending
  /\ i \in 1..Last(o)
  /\ attempts[o][i].status \notin { "prepared", "running", "unknown" }
  /\ checkpoint' = [ op |-> o, no |-> i ]
  /\ UNCHANGED << attempts, aggregate, due, approval, observation >>

(* Slip: an UNKNOWN Attempt is reported to the Session.                    *)
SlipObserveUnknown(o, i) ==
  /\ observation[o] = NoObservation
  /\ Meta[o].kind = "tool"
  /\ i \in 1..Last(o)
  /\ attempts[o][i].status \in Determined \cup { "unknown" }
  /\ observation' = [ observation EXCEPT ![o] =
       [ state |-> "materialized", no |-> i, shown |-> attempts[o][i].status ] ]
  /\ UNCHANGED << attempts, aggregate, due, approval, checkpoint >>

(* The first observation of a Tool Call is immutable: a later one is       *)
(* either identical or a conflict.                                         *)
materialize_tool_observation(o, i) ==
  /\ observation[o] = NoObservation
  /\ Meta[o].kind = "tool"
  /\ i \in 1..Last(o)
  /\ attempts[o][i].status \in Determined
  /\ observation' = [ observation EXCEPT ![o] =
       [ state |-> "materialized", no |-> i, shown |-> attempts[o][i].status ] ]
  /\ UNCHANGED << attempts, aggregate, due, approval, checkpoint >>

mark_tool_observation_published(o) ==
  /\ observation[o].state = "materialized"
  /\ observation' = [ observation EXCEPT ![o].state = "published" ]
  /\ UNCHANGED << attempts, aggregate, due, approval, checkpoint >>

-----------------------------------------------------------------------------
Create(o) ==
  /\ Cardinality({ q \in Ops : Exists(q) }) < MaxOps
  /\ CreateOperationWithAttempt(o) \/ BeginOperation(o)

AttemptStep(o, i) ==
  \/ StartOperationAttempt(o, i)
  \/ CompleteOperationAttempt(o, i)
  \/ \E kind \in { "terminal", "retryable" } : FailOperationAttempt(o, i, kind)
  \/ MarkOperationAttemptUnknown(o, i)
  \/ SkipOperationAttempt(o, i)
  \/ AbandonOperationAttempt(o, i)
  \/ \E result \in ReconcileStatus : ReconcileOperationAttempt(o, i, result)

OperationStep(o) ==
  \/ StartOperation(o)
  \/ CompleteOperation(o)
  \/ \E kind \in { "terminal", "retryable" } : FailOperation(o, kind)
  \/ MarkOperationUnknown(o)
  \/ AbandonOperation(o)
  \/ \E result \in ReconcileStatus : ReconcileOperation(o, result)

RecoveryStep(o) ==
  \/ RecoverConfirmSucceeded(o)
  \/ \E risk \in BOOLEAN : RecoverRetry(o, risk)
  \/ RecoverFail(o)

ApprovalStep(p) ==
  \/ \E o \in Ops : \E i \in 1..Last(o) : CreateApproval(p, o, i)
  \/ ApprovalDue(p)
  \/ \E approved \in BOOLEAN : DecideApproval(p, approved)
  \/ ExpireApproval(p)

EvidenceStep(o) ==
  \/ \E i \in 1..Last(o) : CreateSafeCheckpoint(o, i)
  \/ \E i \in 1..Last(o) : materialize_tool_observation(o, i)
  \/ mark_tool_observation_published(o)

Next ==
  \/ \E o \in Ops : \/ Create(o)
                    \/ \E risk \in BOOLEAN : BeginOperationAttempt(o, risk)
                    \/ RetryDue(o)
                    \/ \E i \in 1..Last(o) : AttemptStep(o, i)
                    \/ OperationStep(o)
                    \/ RecoveryStep(o)
                    \/ EvidenceStep(o)
  \/ \E p \in Approvals : ApprovalStep(p)

Spec == Init /\ [][Next]_vars
-----------------------------------------------------------------------------
(* Properties. *)

(* Every stored value is one the record validators of Agent/state.py accept. *)
TypeOK ==
  /\ attempts \in [ Ops -> Seq(Attempts) ]
  /\ aggregate \in [ Ops -> Aggregates \cup { NoAggregate } ]
  /\ due \in [ Ops -> Nat ]
  /\ approval \in [ Approvals ->
       [ status : ApprovalStatus, op : Ops, no : Nat, expired : BOOLEAN ]
         \cup { NoApproval } ]
  /\ checkpoint \in [ op : Ops, no : Nat ] \cup { NoAttempt }
  /\ observation \in [ Ops ->
       [ state : { "materialized", "published" }, no : Nat, shown : AttemptStatus ]
         \cup { NoObservation } ]
  /\ \A o \in Ops : \A i \in 1..Last(o) : WellFormedAttempt(attempts[o][i])

(* README: an Operation's status comes only from reduce_operation.  The     *)
(* ledger row, written by many commands, always equals the reduction of    *)
(* the Attempt rows, written by the same commands.                         *)
AggregateIsReduction ==
  \A o \in Ops : Exists(o) =>
    aggregate[o] = reduce_operation(attempts[o], MaxAttempts)

(* Only the newest Attempt of an Operation can still be dispatched or be   *)
(* in flight: no interleaving of retries, reconciliations and recovery     *)
(* decisions leaves an older request live beside a newer one.              *)
OnlyLatestIsLive ==
  \A o \in Ops : \A i \in 1..Last(o) :
    attempts[o][i].status \in { "prepared", "running" } => i = Last(o)

(* A request whose effect is unknown is followed by another request only   *)
(* when a human actor took the risk (risk_confirmed_by) on that Attempt,   *)
(* whatever automatic retries and reconciliations happen around it.        *)
UnknownRetriedOnlyByHuman ==
  \A o \in Ops : \A i \in 1..Last(o) :
    i < Last(o) /\ attempts[o][i].status = "unknown" => attempts[o][i].risk

(* A Tool Attempt whose approval was denied or timed out was never started *)
(* and never will be.                                                      *)
RefusedNeverStarted ==
  \A p \in Approvals : approval[p].status \in { "denied", "timeout" } =>
    /\ approval[p].no \in 1..Last(approval[p].op)
    /\ attempts[approval[p].op][approval[p].no].status = "skipped"
    /\ ~ attempts[approval[p].op][approval[p].no].started

(* What a human decided, or was not asked yet, bounds what is requested:    *)
(* the risk of repeating an unknown effect and the refusal of a Tool.       *)
HumanDecides == UnknownRetriedOnlyByHuman /\ RefusedNeverStarted

(* The Attempt a SafeCheckpoint names as last determined stays determined: *)
(* recovery that trusts the checkpoint cannot meet a reopened Attempt.     *)
CheckpointStaysDetermined ==
  checkpoint # NoAttempt =>
    /\ checkpoint.no \in 1..Last(checkpoint.op)
    /\ attempts[checkpoint.op][checkpoint.no].status \in Determined

(* What the Session was told about a Tool Call is what the ledger says of  *)
(* that Attempt, also after later commands.                                *)
ObservationAgreesWithLedger ==
  \A o \in Ops : observation[o] # NoObservation =>
    /\ observation[o].no \in 1..Last(o)
    /\ attempts[o][observation[o].no].status = observation[o].shown

(* What recovery and the Session rely on stays true: checkpoint and        *)
(* observation never outlive the facts they record.                        *)
EvidenceStable == CheckpointStaysDetermined /\ ObservationAgreesWithLedger

(* README: an Attempt is a record that is not rewritten.  Once determined  *)
(* no command changes any field of it, and no command drops an Attempt.    *)
DeterminedNeverRewritten ==
  [][ \A o \in Ops : \A i \in 1..Last(o) :
        /\ i <= Len(attempts'[o])
        /\ attempts[o][i].status \in Determined =>
             attempts'[o][i] = attempts[o][i] ]_vars

(* An Operation gains an Attempt only while it is unsettled or may be      *)
(* retried, never past its retry policy and never two at a time.           *)
NewAttemptIsEarned ==
  [][ \A o \in Ops : Len(attempts'[o]) # Last(o) =>
        /\ Len(attempts'[o]) = Last(o) + 1
        /\ Len(attempts'[o]) <= MaxAttempts
        /\ aggregate[o].status \notin { "completed", "skipped" } ]_vars
=============================================================================
