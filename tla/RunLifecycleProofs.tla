------------------------- MODULE RunLifecycleProofs -------------------------
(***************************************************************************)
(* Proofs about RunLifecycle, for every call limit, retry policy and       *)
(* number of crashes: what leaves the process is controlled, a closed Run  *)
(* stays closed, and what a Run rests as is what happened in it.           *)
(*                                                                         *)
(* The inductive invariant says, for every place the Run's task or a       *)
(* recovery pass can be at, what the durable rows then hold.  Its last     *)
(* part holds only in a process whose other Runs wait for no approval: a   *)
(* recovery pass started by another Run's approval moves this Run under    *)
(* its live task.                                                          *)
(***************************************************************************)
EXTENDS RunLifecycle, TLAPS

-----------------------------------------------------------------------------
(* The inductive invariant. *)

TaskLabels ==
  Suspended \cup { None, "submit", "start", "send", "prepare", "ask", "request",
                   "execute", "dispatch", "uncertain", "observe", "finish" }

RecoveryLabels ==
  { None, "scan", "resume", "queue", "require", "outcome", "finalize", "generation" }

(* Where _finish_run and the FinalizeCoordinator are, or nobody.           *)
Ending == { None, "handler", "finish", "finalize" }

(* The outer states recover() resumes a Run from.                          *)
Resumable == { "created", "queued", "starting", "running", "recovering" }

(* Where the task works inside run_task.                                   *)
InLoop == TaskLabels \ { None, "submit", "claim", "start", "handler", "finish", "finalize" }

(* The agent_states row, and the fields its validators tie together.      *)
RunRecords ==
  [ task : TaskStates, exec : ExecutionStates \cup { None },
    outcome : Outcomes \cup { None }, target : NORMAL_TERMINALS \cup { None },
    cancel : BOOLEAN, ckpt : BOOLEAN ]

RunOK ==
  /\ run \in RunRecords
  /\ run.outcome # None <=> run.exec = "finished"
  /\ run.task \in NORMAL_TERMINALS \cup { "finalizing" } => run.target # None

(* The other rows and counters.                                            *)
HostOK ==
  /\ approval \in ApprovalStatus \cup { None }
  /\ orphan \in BOOLEAN
  /\ proc \in { "down", "booting", "serving" }
  /\ closing \in BOOLEAN /\ signal \in BOOLEAN
  /\ calls \in 0..MaxCalls /\ left \in 0..MaxTools /\ crashes \in 0..MaxCrashes
  /\ others \in BOOLEAN

(* Where the task and the recovery pass can be.                            *)
LabelsOK ==
  /\ pc \in TaskLabels
  /\ rpc \in RecoveryLabels
  /\ exit \in Outcomes \cup { None }
  /\ pc \in { "handler", "finish", "uncertain" } => exit # None
  /\ pc = "prepare" => left > 0

(* The current Operation and its Attempt, by where the task is.            *)
OperationOK ==
  /\ op.sent <= op.tries
  /\ op.ask => op.kind = "tool"
  /\ pc = "send" => op.kind = "model" /\ op.sent < op.tries
  /\ pc \in { "ask", "request", "await", "execute" } =>
       op.kind = "tool" /\ op.sent = 0 /\ op.tries > 0
  /\ pc \in { "dispatch", "tool", "backoff" } \cup Stopping => op.kind = "tool"
  /\ pc \in { "execute", "dispatch", "tool", "backoff" } \cup Stopping /\ op.ask => approval = "approved"
  /\ pc = "dispatch" => op.sent < op.tries /\ (Uncertain(op) => op.sent = 0)
  /\ pc = "backoff" => op.tries < MaxTries /\ ~ Uncertain(op)
  /\ UncertainToolSentOnce
  /\ DispatchNeedsApproval

(* An Approval is asked for before the Attempt starts; a pending one       *)
(* belongs to an Attempt that was never sent, of a Run that waits for a    *)
(* human or is over.                                                       *)
PendingOK ==
  /\ pc \in { "ask", "request" } => op.status = "prepared" /\ ~ op.retryable
  /\ pc = "request" => run.exec = "waiting_human"
  /\ approval = "pending" =>
       /\ run.exec \in { "waiting_human", "finished" }
       /\ pc \in Ending \cup { "await" }
       /\ op.sent = 0 /\ ~ op.retryable
       /\ op.status \in { "prepared", "failed", "skipped" }
       /\ op.status = "prepared" => run.exec = "waiting_human" /\ pc \in { "await", None }

(* Who may still move a Run that is ending.                                *)
EndingOK ==
  /\ rpc # None => pc \in Suspended \cup { None }
  /\ proc = "down" => pc = None /\ rpc = None
  /\ proc = "booting" => pc = None
  /\ run.exec = "finished" => pc \in Ending
  /\ run.task \in TERMINAL_STATES \cup { "finalizing", "cancelling" } => pc \in Ending
  /\ Terminal => rpc \in { None, "scan" }
  /\ run.task # "interrupted"
  /\ pc = "submit" => run.task = "created"
  /\ pc = "start" => run.task = "starting"
  /\ TerminalMatchesOutcome

(* What a recovery pass has found out by where it is.                      *)
RecoveryOK ==
  /\ rpc = "finalize" => run.task = "finalizing"
  /\ rpc = "generation" => run.task = "recovering" /\ run.target # None /\ pc = None
  /\ rpc = "resume" => run.exec = "waiting_human" /\ approval \notin { None, "pending" }
  /\ rpc = "outcome" => run.task = "cancelling" \/ run.exec = "finished"
  /\ rpc \in { "queue", "require" } =>
       run.task \in Resumable /\ run.exec \notin { "finished", "waiting_human" }

(* Without recovery passes on behalf of other Runs: the inner machine is   *)
(* where the task is ...                                                   *)
InStep ==
  /\ rpc # None => pc = None
  /\ rpc = "scan" /\ proc = "serving" => run.exec \in { "waiting_human", "finished", "observing" }
  /\ pc \in InLoop => run.task = "running"
  /\ pc \in { "submit", "claim", "start" } => run.exec # "waiting_human"
  /\ pc \in { "open", "think", "retry" } => run.exec \in { "thinking", "acting", "observing" }
  /\ pc \in { "send", "model", "ask", "execute" } => run.exec \in { "thinking", "acting" }
  /\ pc \in { "prepare", "publish" } => run.exec \in { "thinking", "acting", "observing" }
  /\ pc \in { "dispatch", "tool", "backoff", "observe", "uncertain" } \cup Stopping =>
       run.exec = "acting"

(* ... an Attempt in flight belongs to a RUNNING Run whose task waits for  *)
(* it or died with the process, or a cancellation cut its recording ...    *)
InFlightOK ==
  op.status = "running" =>
    /\ op.cut => /\ pc \in Ending
                 /\ run.exec = "finished" \/ (run.task = "running" /\ rpc \in { None, "scan" })
    /\ ~ op.cut =>
         /\ run.task = "running"
         /\ pc \in { "model", "tool", None } \cup Stopping /\ rpc \in { None, "scan" }
         /\ pc = None => proc = "down" \/ rpc = "scan"
    /\ run.exec \in { "thinking", "acting", "finished" }
    /\ run.exec = "finished" => op.cut
    /\ run.exec = "thinking" => op.kind = "model"

(* ... and an unknown effect is on its way to RECOVERY_REQUIRED.           *)
UnknownOK ==
  op.status = "unknown" =>
    /\ run.exec = "acting"
    /\ \/ pc = "uncertain"
       \/ pc = None /\ run.task = "recovery_required"
       \/ /\ pc = None
          /\ proc = "down" \/ rpc \in { "scan", "require", "generation", "finalize" }
          /\ run.task \in { "running", "recovering", "finalizing" }

Undisturbed == ~ others => InStep /\ InFlightOK /\ UnknownOK

RunInv ==
  RunOK /\ op \in OpRecords /\ HostOK /\ LabelsOK /\ OperationOK /\ PendingOK /\ EndingOK /\ RecoveryOK /\ Undisturbed

-----------------------------------------------------------------------------
(* What the two transition tables are asked. *)

LEMMA OuterTable ==
  /\ "recovery_required" \in OUTER_TRANSITIONS["running"]
  /\ "recovering" \in OUTER_TRANSITIONS["running"]
BY DEF OUTER_TRANSITIONS, TaskStates

LEMMA InnerTable ==
  ASSUME NEW e \in ExecutionStates \cup { None }
  PROVE  /\ InnerStep(e, "acting") => e \in { "thinking", "waiting_human" }
         /\ InnerStep(e, "observing") => e \in { "thinking", "waiting_human", "acting" }
BY DEF InnerStep, INNER_TRANSITIONS, ExecutionStates, None

LEMMA TargetTable ==
  ASSUME NEW o \in Outcomes
  PROVE  TargetOf(o) \in NORMAL_TERMINALS
BY DEF TargetOf, Outcomes, NORMAL_TERMINALS

(* Steps of the two rows that keep their type. *)

LEMMA OpSends ==
  ASSUME op \in OpRecords, op.sent < MaxTries,
         op' = [ op EXCEPT !.status = "running", !.sent = @ + 1, !.cut = FALSE ]
  PROVE  op' \in OpRecords
<1>1. op.sent + 1 \in 0..MaxTries
  BY LimitsAssumption DEF OpRecords
<1> QED
  BY <1>1 DEF OpRecords, AttemptStatus

LEMMA OpRetried ==
  ASSUME op \in OpRecords, op.tries < MaxTries,
         op' = [ op EXCEPT !.status = "prepared", !.retryable = FALSE,
         !.tries = @ + 1 ]
  PROVE  op' \in OpRecords
<1>1. op.tries + 1 \in 0..MaxTries
  BY LimitsAssumption DEF OpRecords
<1> QED
  BY <1>1 DEF OpRecords, AttemptStatus

LEMMA OpSettles ==
  ASSUME op \in OpRecords, NEW s \in AttemptStatus,
         \/ op' = [ op EXCEPT !.status = s ]
         \/ op' = [ op EXCEPT !.status = s, !.retryable = TRUE ]
         \/ op' = [ op EXCEPT !.status = s, !.retryable = FALSE ]
         \/ op' = [ op EXCEPT !.cut = TRUE ]
         \/ op' = op
  PROVE  op' \in OpRecords
BY DEF OpRecords

LEMMA OpNew ==
  ASSUME NEW k \in { "model", "tool" }, NEW i \in Idempotency, NEW a \in BOOLEAN,
         op' = NewOp(k, i, a)
  PROVE  op' \in OpRecords
<1>1. 1 \in 0..MaxTries /\ 0 \in 0..MaxTries
  BY LimitsAssumption
<1> QED
  BY <1>1 DEF NewOp, NoOp, OpRecords, AttemptStatus, None

LEMMA RunSteps ==
  ASSUME run \in RunRecords, NEW s \in TaskStates,
  NEW e \in ExecutionStates \cup { None },
         \/ run' = [ run EXCEPT !.task = s ]
         \/ run' = [ run EXCEPT !.exec = e ]
         \/ run' = [ run EXCEPT !.exec = e, !.task = s ]
         \/ run' = run
  PROVE  run' \in RunRecords
BY DEF RunRecords

LEMMA RunFinishes ==
  ASSUME run \in RunRecords, NEW o \in Outcomes,
         run' = [ run EXCEPT !.exec = "finished", !.outcome = o ]
  PROVE  run' \in RunRecords
BY DEF RunRecords, ExecutionStates

LEMMA RunFinalizes ==
  ASSUME run \in RunRecords, NEW x \in NORMAL_TERMINALS,
         run' = [ run EXCEPT !.task = "finalizing", !.target = x ]
  PROVE  run' \in RunRecords
BY DEF RunRecords, TaskStates

-----------------------------------------------------------------------------
(* Every action keeps the invariant. *)

USE LimitsAssumption, SwitchesAssumption, IdemsAssumption
USE DEF RunInv, RunOK, RunRecords, OpRecords, HostOK, LabelsOK, OperationOK,
        PendingOK,
        EndingOK, RecoveryOK, Undisturbed, InStep, InFlightOK, UnknownOK,
        UncertainToolSentOnce, DispatchNeedsApproval, TerminalMatchesOutcome,
        TaskLabels,
        RecoveryLabels, Ending, Resumable, InLoop, Suspended, Stopping, None, TaskStates,
        TERMINAL_STATES, NORMAL_TERMINALS, ExecutionStates, Outcomes, Idempotency,
        AttemptStatus, ApprovalStatus, Terminal, Uncertain, durable, host, task, At,
        Goto, Exec, Task

LEMMA SubmitKeeps ==
  ASSUME RunInv, Submit, UNCHANGED others
  PROVE  RunInv'
<1>1. RunOK' /\ (op \in OpRecords)' /\ HostOK'
  BY DEF Submit
<1>2. LabelsOK' /\ OperationOK' /\ PendingOK'
  BY DEF Submit
<1>3. EndingOK' /\ RecoveryOK'
  BY DEF Submit
<1>4. Undisturbed'
  BY DEF Submit
<1> QED
  BY ONLY <1>1, <1>2, <1>3, <1>4 DEF RunInv

LEMMA ClaimKeeps ==
  ASSUME RunInv, Claim, UNCHANGED others
  PROVE  RunInv'
<1>1. RunOK' /\ (op \in OpRecords)' /\ HostOK'
  BY DEF Claim
<1>2. LabelsOK' /\ OperationOK' /\ PendingOK'
  BY DEF Claim
<1>3. EndingOK' /\ RecoveryOK'
  BY DEF Claim
<1>4. Undisturbed'
  BY DEF Claim
<1> QED
  BY ONLY <1>1, <1>2, <1>3, <1>4 DEF RunInv

LEMMA StartKeeps ==
  ASSUME RunInv, Start, UNCHANGED others
  PROVE  RunInv'
<1>1. RunOK'
  BY DEF Start
<1>2. (op \in OpRecords)'
  BY DEF Start
<1>3. HostOK'
  BY DEF Start
<1>4. LabelsOK'
  BY DEF Start
<1>5. OperationOK'
  BY DEF Start
<1>6. PendingOK'
  BY DEF Start
<1>7. EndingOK'
  BY DEF Start
<1>8. RecoveryOK'
  BY DEF Start
<1>9. Undisturbed'
  BY DEF Start
<1> QED
  BY ONLY <1>1, <1>2, <1>3, <1>4, <1>5, <1>6, <1>7, <1>8, <1>9 DEF RunInv

LEMMA OpenRuntimeKeeps ==
  ASSUME RunInv, OpenRuntime, UNCHANGED others
  PROVE  RunInv'
<1>1. RunOK' /\ (op \in OpRecords)' /\ HostOK'
  BY DEF OpenRuntime, Leave
<1>2. LabelsOK' /\ OperationOK' /\ PendingOK'
  BY DEF OpenRuntime, Leave
<1>3. EndingOK' /\ RecoveryOK'
  BY DEF OpenRuntime, Leave
<1>4. Undisturbed'
  BY DEF OpenRuntime, Leave
<1> QED
  BY ONLY <1>1, <1>2, <1>3, <1>4 DEF RunInv

LEMMA BeginModelAttemptKeeps ==
  ASSUME RunInv, BeginModelAttempt, UNCHANGED others
  PROVE  RunInv'
<1>1. RunOK'
  <2>1. Begun \in ExecutionStates \cup { None } /\ Begun # "finished" /\ run.exec # "finished"
    BY DEF Begun, BeginModelAttempt
  <2>2. CASE run' = [ run EXCEPT !.exec = Begun ] \/ run' = run
    BY <2>1, <2>2
  <2>3. CASE run' = [ run EXCEPT !.exec = Begun, !.task = "recovery_required" ]
    BY <2>1, <2>3
  <2> QED
    BY <2>2, <2>3 DEF BeginModelAttempt
<1>2. (op \in OpRecords)'
  <2>1. CASE op' = NewOp("model", "pure", FALSE)
    BY <2>1, OpNew
  <2>2. CASE op.tries < MaxTries
             /\ op' = [ op EXCEPT !.status = "prepared", !.retryable = FALSE, !.tries = @ + 1 ]
    BY <2>2, OpRetried
  <2> QED
    BY <2>1, <2>2 DEF BeginModelAttempt
<1>3. HostOK'
  <2>1. orphan' \in BOOLEAN
    BY DEF BeginModelAttempt, Leftover
  <2>2. \/ calls' = calls
        \/ calls < MaxCalls /\ calls' = calls + 1
    BY DEF BeginModelAttempt, Leave
  <2>3. calls' \in 0..MaxCalls
    BY ONLY <2>2, HostOK, LimitsAssumption DEF HostOK
  <2>4. left' = left
    BY DEF BeginModelAttempt, Leave
  <2> QED
    BY <2>1, <2>3, <2>4 DEF BeginModelAttempt
<1>4. LabelsOK'
  BY DEF BeginModelAttempt, Leave, Begun, Reusable, Leftover, SideEffecting, NewOp,
     NoOp
<1>5. OperationOK'
  <2>1. CASE op' = NewOp("model", "pure", FALSE) /\ pc' = "send"
    BY <2>1 DEF NewOp, NoOp
  <2>2. CASE /\ op.kind = "model" /\ pc' = "send"
             /\ op' = [ op EXCEPT !.status = "prepared", !.retryable = FALSE, !.tries = @ + 1 ]
    <3>1. /\ op'.kind = "model" /\ op'.ask = op.ask /\ op'.sent = op.sent
          /\ op'.tries = op.tries + 1
      BY <2>2
    <3>2. op.sent \in Nat /\ op.tries \in Nat /\ op.sent <= op.tries
      OBVIOUS
    <3>3. ~ op.ask
      BY <2>2
    <3> QED
      BY <3>1, <3>2, <3>3, <2>2
  <2>3. CASE UNCHANGED << op, approval >> /\ pc' \in { None, "finish" }
    BY <2>3
  <2> QED
    BY <2>1, <2>2, <2>3 DEF BeginModelAttempt, Reusable, Leave
<1>6. PendingOK'
  BY DEF BeginModelAttempt, Leave, Begun, Reusable, Leftover, SideEffecting, NewOp,
     NoOp
<1>7. EndingOK'
  BY ZenonT(60) DEF BeginModelAttempt, Leave, Begun, Reusable, Leftover, SideEffecting, NewOp,
     NoOp
<1>8. RecoveryOK'
  BY DEF BeginModelAttempt, Leave, Begun, Reusable, Leftover, SideEffecting, NewOp,
     NoOp
<1>9. Undisturbed'
  BY ZenonT(60) DEF BeginModelAttempt, Leave, Begun, Reusable, Leftover, SideEffecting, NewOp,
     NoOp
<1> QED
  BY ONLY <1>1, <1>2, <1>3, <1>4, <1>5, <1>6, <1>7, <1>8, <1>9 DEF RunInv

LEMMA SendModelKeeps ==
  ASSUME RunInv, SendModel, UNCHANGED others
  PROVE  RunInv'
<1>1. RunOK'
  BY DEF SendModel
<1>2. (op \in OpRecords)'
  <2>1. op.sent < MaxTries
    BY DEF SendModel
  <2> QED
    BY <2>1, OpSends DEF SendModel
<1>3. HostOK'
  BY DEF SendModel
<1>4. LabelsOK'
  BY DEF SendModel
<1>5. OperationOK'
  BY DEF SendModel
<1>6. PendingOK'
  BY DEF SendModel
<1>7. EndingOK'
  BY DEF SendModel
<1>8. RecoveryOK'
  BY DEF SendModel
<1>9. Undisturbed'
  BY DEF SendModel
<1> QED
  BY ONLY <1>1, <1>2, <1>3, <1>4, <1>5, <1>6, <1>7, <1>8, <1>9 DEF RunInv

LEMMA ModelAnswersKeeps ==
  ASSUME RunInv, ModelAnswers, UNCHANGED others
  PROVE  RunInv'
<1>1. RunOK'
  BY ZenonT(60) DEF ModelAnswers, Leave
<1>2. (op \in OpRecords)'
  BY DEF ModelAnswers, Leave
<1>3. HostOK'
  BY DEF ModelAnswers, Leave
<1>4. LabelsOK'
  BY DEF ModelAnswers, Leave
<1>5. OperationOK'
  BY DEF ModelAnswers, Leave
<1>6. PendingOK'
  BY DEF ModelAnswers, Leave
<1>7. EndingOK'
  BY DEF ModelAnswers, Leave
<1>8. RecoveryOK'
  BY DEF ModelAnswers, Leave
<1>9. Undisturbed'
  BY DEF ModelAnswers, Leave
<1> QED
  BY ONLY <1>1, <1>2, <1>3, <1>4, <1>5, <1>6, <1>7, <1>8, <1>9 DEF RunInv

LEMMA ModelCallsToolKeeps ==
  ASSUME RunInv, ModelCallsTool, UNCHANGED others
  PROVE  RunInv'
<1>1. RunOK' /\ (op \in OpRecords)' /\ HostOK'
  BY DEF ModelCallsTool
<1>2. LabelsOK' /\ OperationOK' /\ PendingOK'
  BY DEF ModelCallsTool
<1>3. EndingOK' /\ RecoveryOK'
  BY DEF ModelCallsTool
<1>4. Undisturbed'
  BY DEF ModelCallsTool
<1> QED
  BY ONLY <1>1, <1>2, <1>3, <1>4 DEF RunInv

LEMMA ModelFailsKeeps ==
  ASSUME RunInv, ModelFails, UNCHANGED others
  PROVE  RunInv'
<1>1. RunOK'
  BY DEF ModelFails, Leave
<1>2. (op \in OpRecords)'
  BY ZenonT(60) DEF ModelFails, Leave
<1>3. HostOK'
  BY DEF ModelFails, Leave
<1>4. LabelsOK'
  BY DEF ModelFails, Leave
<1>5. OperationOK'
  BY ZenonT(60) DEF ModelFails, Leave
<1>6. PendingOK'
  BY DEF ModelFails, Leave
<1>7. EndingOK'
  BY DEF ModelFails, Leave
<1>8. RecoveryOK'
  BY DEF ModelFails, Leave
<1>9. Undisturbed'
  BY DEF ModelFails, Leave
<1> QED
  BY ONLY <1>1, <1>2, <1>3, <1>4, <1>5, <1>6, <1>7, <1>8, <1>9 DEF RunInv

LEMMA RetryModelKeeps ==
  ASSUME RunInv, RetryModel, UNCHANGED others
  PROVE  RunInv'
<1>1. RunOK' /\ (op \in OpRecords)' /\ HostOK'
  BY DEF RetryModel
<1>2. LabelsOK' /\ OperationOK' /\ PendingOK'
  BY DEF RetryModel
<1>3. EndingOK' /\ RecoveryOK'
  BY DEF RetryModel
<1>4. Undisturbed'
  BY DEF RetryModel
<1> QED
  BY ONLY <1>1, <1>2, <1>3, <1>4 DEF RunInv

LEMMA PrepareToolKeeps ==
  ASSUME RunInv, PrepareTool, UNCHANGED others
  PROVE  RunInv'
<1>1. RunOK'
  BY DEF PrepareTool, Begun, Leftover, SideEffecting, NewOp, NoOp
<1>2. (op \in OpRecords)'
  <2>1. PICK idem \in Idems : \E ask \in { FALSE } \cup { idem # "pure" } :
          op' = NewOp("tool", idem, ask)
    BY ZenonT(60) DEF PrepareTool
  <2>2. PICK ask \in BOOLEAN : op' = NewOp("tool", idem, ask)
    BY <2>1
  <2> QED
    BY <2>2, OpNew
<1>3. HostOK'
  BY DEF PrepareTool, Begun, Leftover, SideEffecting, NewOp, NoOp
<1>4. LabelsOK'
  BY DEF PrepareTool, Begun, Leftover, SideEffecting, NewOp, NoOp
<1>5. OperationOK'
  BY DEF PrepareTool, Begun, Leftover, SideEffecting, NewOp, NoOp
<1>6. PendingOK'
  BY DEF PrepareTool, Begun, Leftover, SideEffecting, NewOp, NoOp
<1>7. EndingOK'
  BY DEF PrepareTool, Begun, Leftover, SideEffecting, NewOp, NoOp
<1>8. RecoveryOK'
  BY DEF PrepareTool, Begun, Leftover, SideEffecting, NewOp, NoOp
<1>9. Undisturbed'
  BY DEF PrepareTool, Begun, Leftover, SideEffecting, NewOp, NoOp
<1> QED
  BY ONLY <1>1, <1>2, <1>3, <1>4, <1>5, <1>6, <1>7, <1>8, <1>9 DEF RunInv

LEMMA WaitingHumanKeeps ==
  ASSUME RunInv, WaitingHuman, UNCHANGED others
  PROVE  RunInv'
<1>1. RunOK'
  <2>1. CASE run' = [ run EXCEPT !.exec = "waiting_human" ] /\ run.exec = "thinking"
    BY <2>1
  <2>2. CASE run' = run
    BY <2>2
  <2>3. CASE run' = [ run EXCEPT !.exec = "finished", !.outcome = "error" ]
    BY <2>3
  <2> QED
    BY <2>1, <2>2, <2>3 DEF WaitingHuman, preexecution_failed_if_safe
<1>2. (op \in OpRecords)'
  BY DEF WaitingHuman, preexecution_failed_if_safe, Leave
<1>3. HostOK'
  BY DEF WaitingHuman, preexecution_failed_if_safe, Leave
<1>4. LabelsOK'
  BY DEF WaitingHuman, preexecution_failed_if_safe, Leave
<1>5. OperationOK'
  BY DEF WaitingHuman, preexecution_failed_if_safe, Leave
<1>6. PendingOK'
  BY DEF WaitingHuman, preexecution_failed_if_safe, Leave
<1>7. EndingOK'
  BY ZenonT(60) DEF WaitingHuman, preexecution_failed_if_safe, Leave
<1>8. RecoveryOK'
  BY DEF WaitingHuman, preexecution_failed_if_safe, Leave
<1>9. Undisturbed'
  BY DEF WaitingHuman, preexecution_failed_if_safe, Leave
<1> QED
  BY ONLY <1>1, <1>2, <1>3, <1>4, <1>5, <1>6, <1>7, <1>8, <1>9 DEF RunInv

LEMMA RequestApprovalKeeps ==
  ASSUME RunInv, RequestApproval, UNCHANGED others
  PROVE  RunInv'
<1>1. RunOK' /\ (op \in OpRecords)' /\ HostOK'
  BY DEF RequestApproval
<1>2. LabelsOK' /\ OperationOK' /\ PendingOK'
  BY DEF RequestApproval
<1>3. EndingOK' /\ RecoveryOK'
  BY DEF RequestApproval
<1>4. Undisturbed'
  BY DEF RequestApproval
<1> QED
  BY ONLY <1>1, <1>2, <1>3, <1>4 DEF RunInv

LEMMA ApprovalTimesOutKeeps ==
  ASSUME RunInv, ApprovalTimesOut, UNCHANGED others
  PROVE  RunInv'
<1>1. RunOK' /\ (op \in OpRecords)' /\ HostOK'
  BY DEF ApprovalTimesOut
<1>2. LabelsOK' /\ OperationOK' /\ PendingOK'
  BY DEF ApprovalTimesOut
<1>3. EndingOK' /\ RecoveryOK'
  BY DEF ApprovalTimesOut
<1>4. Undisturbed'
  BY DEF ApprovalTimesOut
<1> QED
  BY ONLY <1>1, <1>2, <1>3, <1>4 DEF RunInv

LEMMA ApprovalDecidedKeeps ==
  ASSUME RunInv, ApprovalDecided, UNCHANGED others
  PROVE  RunInv'
<1>1. RunOK'
  <2>1. CASE \E to \in { "acting", "observing" } : CanExec(to) /\ Exec(to)
    BY <2>1, InnerTable DEF CanExec
  <2>2. CASE run' = run
    BY <2>2
  <2>3. CASE run' = [ run EXCEPT !.exec = "finished", !.outcome = "error" ]
    BY <2>3
  <2> QED
    BY <2>1, <2>2, <2>3 DEF ApprovalDecided, preexecution_failed_if_safe
<1>2. (op \in OpRecords)'
  BY InnerTable DEF ApprovalDecided, CanExec, preexecution_failed_if_safe, Leave
<1>3. HostOK'
  BY InnerTable DEF ApprovalDecided, CanExec, preexecution_failed_if_safe, Leave
<1>4. LabelsOK'
  BY InnerTable DEF ApprovalDecided, CanExec, preexecution_failed_if_safe, Leave
<1>5. OperationOK'
  BY InnerTable DEF ApprovalDecided, CanExec, preexecution_failed_if_safe, Leave
<1>6. PendingOK'
  BY InnerTable DEF ApprovalDecided, CanExec, preexecution_failed_if_safe, Leave
<1>7. EndingOK'
  <2>1. run.exec # "finished" /\ run.task \notin TERMINAL_STATES /\ run'.task = run.task
    BY ZenonT(60) DEF ApprovalDecided, preexecution_failed_if_safe
  <2>2. CASE pc' \in { "execute", "publish" } /\ run'.exec # "finished"
    BY <2>1, <2>2 DEF ApprovalDecided
  <2>3. CASE pc' \in { None, "handler" }
    BY <2>1, <2>3 DEF ApprovalDecided
  <2> QED
    BY <2>2, <2>3 DEF ApprovalDecided, Leave
<1>8. RecoveryOK'
  BY InnerTable DEF ApprovalDecided, CanExec, preexecution_failed_if_safe, Leave
<1>9. Undisturbed'
  BY InnerTable DEF ApprovalDecided, CanExec, preexecution_failed_if_safe, Leave
<1> QED
  BY ONLY <1>1, <1>2, <1>3, <1>4, <1>5, <1>6, <1>7, <1>8, <1>9 DEF RunInv

LEMMA EnterActingKeeps ==
  ASSUME RunInv, EnterActing, UNCHANGED others
  PROVE  RunInv'
<1>1. RunOK' /\ (op \in OpRecords)' /\ HostOK'
  BY DEF EnterActing
<1>2. LabelsOK' /\ OperationOK' /\ PendingOK'
  BY DEF EnterActing
<1>3. EndingOK' /\ RecoveryOK'
  BY DEF EnterActing
<1>4. Undisturbed'
  BY DEF EnterActing
<1> QED
  BY ONLY <1>1, <1>2, <1>3, <1>4 DEF RunInv

LEMMA DispatchKeeps ==
  ASSUME RunInv, Dispatch, UNCHANGED others
  PROVE  RunInv'
<1>1. RunOK'
  BY DEF Dispatch
<1>2. (op \in OpRecords)'
  <2>1. op.sent < MaxTries
    BY DEF Dispatch
  <2> QED
    BY <2>1, OpSends DEF Dispatch
<1>3. HostOK'
  BY DEF Dispatch
<1>4. LabelsOK'
  BY DEF Dispatch
<1>5. OperationOK'
  BY DEF Dispatch
<1>6. PendingOK'
  BY DEF Dispatch
<1>7. EndingOK'
  BY DEF Dispatch
<1>8. RecoveryOK'
  BY DEF Dispatch
<1>9. Undisturbed'
  BY DEF Dispatch
<1> QED
  BY ONLY <1>1, <1>2, <1>3, <1>4, <1>5, <1>6, <1>7, <1>8, <1>9 DEF RunInv

LEMMA ToolEndsKeeps ==
  ASSUME RunInv, ToolEnds, UNCHANGED others
  PROVE  RunInv'
<1>1. RunOK' /\ (op \in OpRecords)' /\ HostOK'
  BY DEF ToolEnds
<1>2. LabelsOK' /\ OperationOK' /\ PendingOK'
  BY DEF ToolEnds
<1>3. EndingOK' /\ RecoveryOK'
  BY DEF ToolEnds
<1>4. Undisturbed'
  BY DEF ToolEnds
<1> QED
  BY ONLY <1>1, <1>2, <1>3, <1>4 DEF RunInv

LEMMA ToolReturnsKeeps ==
  ASSUME RunInv, ToolReturns, UNCHANGED others
  PROVE  RunInv'
<1>1. RunOK' /\ (op \in OpRecords)' /\ HostOK'
  BY DEF ToolReturns
<1>2. LabelsOK' /\ OperationOK' /\ PendingOK'
  BY DEF ToolReturns
<1>3. EndingOK' /\ RecoveryOK'
  BY DEF ToolReturns
<1>4. Undisturbed'
  BY DEF ToolReturns
<1> QED
  BY ONLY <1>1, <1>2, <1>3, <1>4 DEF RunInv

LEMMA ToolRaisesKeeps ==
  ASSUME RunInv, ToolRaises, UNCHANGED others
  PROVE  RunInv'
<1>1. RunOK'
  BY DEF ToolRaises, Leave
<1>2. (op \in OpRecords)'
  BY ZenonT(60) DEF ToolRaises, Leave
<1>3. HostOK'
  BY DEF ToolRaises, Leave
<1>4. LabelsOK'
  BY DEF ToolRaises, Leave
<1>5. OperationOK'
  BY ZenonT(60) DEF ToolRaises, Leave
<1>6. PendingOK'
  BY DEF ToolRaises, Leave
<1>7. EndingOK'
  BY DEF ToolRaises, Leave
<1>8. RecoveryOK'
  BY DEF ToolRaises, Leave
<1>9. Undisturbed'
  BY ZenonT(60) DEF ToolRaises, Leave
<1> QED
  BY ONLY <1>1, <1>2, <1>3, <1>4, <1>5, <1>6, <1>7, <1>8, <1>9 DEF RunInv

LEMMA ToolAbortedKeeps ==
  ASSUME RunInv, ToolAborted, UNCHANGED others
  PROVE  RunInv'
<1>0. pc = "aborted" /\ At("aborted") /\ UNCHANGED << approval, orphan >>
  BY DEF ToolAborted
<1>1. CASE /\ op.status = "running" /\ UNCHANGED run
             /\ op' = [ op EXCEPT !.status = "unknown" ]
             /\ pc' = "uncertain" /\ exit' = "cancelled" /\ UNCHANGED << calls, left >>
  <2>1. RunOK'
    BY <1>0, <1>1
  <2>2. (op \in OpRecords)'
    BY <1>0, <1>1, OpSettles
  <2>3. HostOK' /\ LabelsOK'
    BY <1>0, <1>1
  <2>4. OperationOK'
    BY <1>0, <1>1
  <2>5. PendingOK'
    BY <1>0, <1>1
  <2>6. EndingOK' /\ RecoveryOK'
    BY <1>0, <1>1
  <2>7. Undisturbed'
    BY <1>0, <1>1
  <2> QED
    BY ONLY <2>1, <2>2, <2>3, <2>4, <2>5, <2>6, <2>7 DEF RunInv
<1>2. CASE /\ op.status = "running" /\ ~ Uncertain(op)
             /\ op' = [ op EXCEPT !.status = "failed", !.retryable = TRUE ]
             /\ run' = [ run EXCEPT !.exec = "finished", !.outcome = "cancelled" ]
             /\ Leave("cancelled")
  <2>1. RunOK'
    BY <1>0, <1>2 DEF Leave
  <2>2. (op \in OpRecords)'
    BY <1>0, <1>2, OpSettles DEF Leave
  <2>3. HostOK' /\ LabelsOK'
    BY <1>0, <1>2 DEF Leave
  <2>4. OperationOK'
    BY <1>0, <1>2 DEF Leave
  <2>5. PendingOK'
    BY <1>0, <1>2 DEF Leave
  <2>6. EndingOK' /\ RecoveryOK'
    BY <1>0, <1>2 DEF Leave
  <2>7. Undisturbed'
    BY <1>0, <1>2 DEF Leave
  <2> QED
    BY ONLY <2>1, <2>2, <2>3, <2>4, <2>5, <2>6, <2>7 DEF RunInv
<1>3. CASE /\ op.status # "running"
             /\ UNCHANGED << run, op >> /\ Leave("error")
  <2>1. RunOK'
    BY <1>0, <1>3 DEF Leave
  <2>2. (op \in OpRecords)'
    BY <1>0, <1>3, OpSettles DEF Leave
  <2>3. HostOK' /\ LabelsOK'
    BY <1>0, <1>3 DEF Leave
  <2>4. OperationOK'
    BY <1>0, <1>3 DEF Leave
  <2>5. PendingOK'
    BY <1>0, <1>3 DEF Leave
  <2>6. EndingOK' /\ RecoveryOK'
    BY <1>0, <1>3 DEF Leave
  <2>7. Undisturbed'
    BY <1>0, <1>3 DEF Leave
  <2> QED
    BY ONLY <2>1, <2>2, <2>3, <2>4, <2>5, <2>6, <2>7 DEF RunInv
<1> QED
  BY <1>1, <1>2, <1>3 DEF ToolAborted

LEMMA RequireRecoveryKeeps ==
  ASSUME RunInv, RequireRecovery, UNCHANGED others
  PROVE  RunInv'
<1>1. RunOK' /\ (op \in OpRecords)' /\ HostOK'
  BY OuterTable DEF RequireRecovery, CanTask, Leave
<1>2. LabelsOK' /\ OperationOK' /\ PendingOK'
  BY OuterTable DEF RequireRecovery, CanTask, Leave
<1>3. EndingOK' /\ RecoveryOK'
  BY OuterTable DEF RequireRecovery, CanTask, Leave
<1>4. Undisturbed'
  BY OuterTable DEF RequireRecovery, CanTask, Leave
<1> QED
  BY ONLY <1>1, <1>2, <1>3, <1>4 DEF RunInv

LEMMA RetryToolKeeps ==
  ASSUME RunInv, RetryTool, UNCHANGED others
  PROVE  RunInv'
<1>1. RunOK'
  BY DEF RetryTool
<1>2. (op \in OpRecords)'
  BY OpRetried DEF RetryTool
<1>3. HostOK'
  BY DEF RetryTool
<1>4. LabelsOK'
  BY DEF RetryTool
<1>5. OperationOK'
  BY DEF RetryTool
<1>6. PendingOK'
  BY DEF RetryTool
<1>7. EndingOK'
  BY DEF RetryTool
<1>8. RecoveryOK'
  BY DEF RetryTool
<1>9. Undisturbed'
  BY DEF RetryTool
<1> QED
  BY ONLY <1>1, <1>2, <1>3, <1>4, <1>5, <1>6, <1>7, <1>8, <1>9 DEF RunInv

LEMMA ObserveKeeps ==
  ASSUME RunInv, Observe, UNCHANGED others
  PROVE  RunInv'
<1>1. RunOK' /\ (op \in OpRecords)' /\ HostOK'
  BY InnerTable DEF Observe, CanExec, Leave
<1>2. LabelsOK' /\ OperationOK' /\ PendingOK'
  BY InnerTable DEF Observe, CanExec, Leave
<1>3. EndingOK' /\ RecoveryOK'
  BY InnerTable DEF Observe, CanExec, Leave
<1>4. Undisturbed'
  BY InnerTable DEF Observe, CanExec, Leave
<1> QED
  BY ONLY <1>1, <1>2, <1>3, <1>4 DEF RunInv

LEMMA PublishObservationKeeps ==
  ASSUME RunInv, PublishObservation, UNCHANGED others
  PROVE  RunInv'
<1>1. RunOK'
  BY ZenonT(60) DEF PublishObservation, Leave
<1>2. (op \in OpRecords)'
  BY DEF PublishObservation, Leave
<1>3. HostOK'
  BY DEF PublishObservation, Leave
<1>4. LabelsOK'
  BY DEF PublishObservation, Leave
<1>5. OperationOK'
  BY DEF PublishObservation, Leave
<1>6. PendingOK'
  BY DEF PublishObservation, Leave
<1>7. EndingOK'
  BY DEF PublishObservation, Leave
<1>8. RecoveryOK'
  BY DEF PublishObservation, Leave
<1>9. Undisturbed'
  BY DEF PublishObservation, Leave
<1> QED
  BY ONLY <1>1, <1>2, <1>3, <1>4, <1>5, <1>6, <1>7, <1>8, <1>9 DEF RunInv

LEMMA HandleKeeps ==
  ASSUME RunInv, Handle, UNCHANGED others
  PROVE  RunInv'
<1>1. RunOK' /\ (op \in OpRecords)' /\ HostOK'
  BY DEF Handle
<1>2. LabelsOK' /\ OperationOK' /\ PendingOK'
  BY DEF Handle
<1>3. EndingOK' /\ RecoveryOK'
  BY DEF Handle
<1>4. Undisturbed'
  BY DEF Handle
<1> QED
  BY ONLY <1>1, <1>2, <1>3, <1>4 DEF RunInv

LEMMA FinishRunKeeps ==
  ASSUME RunInv, FinishRun, UNCHANGED others
  PROVE  RunInv'
<1>1. RunOK'
  <2>1. exit \in Outcomes /\ TargetOf(exit) \in NORMAL_TERMINALS
    BY TargetTable DEF FinishRun
  <2>2. CASE run' = run
    BY <2>2
  <2>3. CASE run' = [ run EXCEPT !.exec = "finished", !.outcome = exit ]
    <3>1. /\ run'.exec = "finished" /\ run'.outcome = exit /\ exit # None
          /\ run'.task = run.task /\ run'.target = run.target
      BY <2>1, <2>3
    <3> QED
      BY <3>1, <2>1, <2>3, RunFinishes
  <2>4. CASE run' = [ run EXCEPT !.task = "cancelling" ]
    BY <2>4
  <2>5. CASE run' = [ run EXCEPT !.task = "finalizing", !.target = TargetOf(exit) ]
    BY ZenonT(60), <2>1, <2>5
  <2> QED
    BY <2>2, <2>3, <2>4, <2>5 DEF FinishRun
<1>2. (op \in OpRecords)'
  BY TargetTable DEF FinishRun, Die
<1>3. HostOK'
  BY TargetTable DEF FinishRun, Die
<1>4. LabelsOK'
  BY TargetTable DEF FinishRun, Die
<1>5. OperationOK'
  BY TargetTable DEF FinishRun, Die
<1>6. PendingOK'
  BY ZenonT(60), TargetTable DEF FinishRun, Die
<1>7. EndingOK'
  BY ZenonT(60), TargetTable DEF FinishRun, Die
<1>8. RecoveryOK'
  BY TargetTable DEF FinishRun, Die
<1>9. Undisturbed'
  BY TargetTable DEF FinishRun, Die
<1> QED
  BY ONLY <1>1, <1>2, <1>3, <1>4, <1>5, <1>6, <1>7, <1>8, <1>9 DEF RunInv

LEMMA FinalizeKeeps ==
  ASSUME RunInv, Finalize, UNCHANGED others
  PROVE  RunInv'
<1>1. RunOK' /\ (op \in OpRecords)' /\ HostOK'
  BY DEF Finalize, Finalized, Projects, Die
<1>2. LabelsOK' /\ OperationOK' /\ PendingOK'
  BY DEF Finalize, Finalized, Projects, Die
<1>3. EndingOK' /\ RecoveryOK'
  BY DEF Finalize, Finalized, Projects, Die
<1>4. Undisturbed'
  BY DEF Finalize, Finalized, Projects, Die
<1> QED
  BY ONLY <1>1, <1>2, <1>3, <1>4 DEF RunInv

LEMMA InterruptedKeeps ==
  ASSUME RunInv, Interrupted, UNCHANGED others
  PROVE  RunInv'
<1>0. /\ rpc = None /\ proc = "serving" /\ signal' = FALSE
      /\ UNCHANGED << approval, orphan, proc, closing, rpc, crashes >>
  BY DEF Interrupted
<1>1. CASE /\ pc \in { "claim", "open", "think", "retry", "backoff", "publish", "finalize" }
             /\ UNCHANGED << run, op >>
             /\ Leave("cancelled")
  <2>1. RunOK'
    BY <1>0, <1>1 DEF Leave
  <2>2. (op \in OpRecords)'
    BY <1>0, <1>1, OpSettles DEF Leave
  <2>3. HostOK' /\ LabelsOK'
    BY <1>0, <1>1 DEF Leave
  <2>4. OperationOK'
    BY <1>0, <1>1 DEF Leave
  <2>5. PendingOK'
    BY <1>0, <1>1 DEF Leave
  <2>6. EndingOK' /\ RecoveryOK'
    BY <1>0, <1>1 DEF Leave
  <2>7. Undisturbed'
    BY <1>0, <1>1 DEF Leave
  <2> QED
    BY ONLY <2>1, <2>2, <2>3, <2>4, <2>5, <2>6, <2>7 DEF RunInv
<1>2. CASE /\ pc = "model" /\ UNCHANGED run
             /\ op' = [ op EXCEPT !.status = "failed", !.retryable = FALSE ]
             /\ Leave("cancelled")
  <2>1. RunOK'
    BY <1>0, <1>2 DEF Leave
  <2>2. (op \in OpRecords)'
    BY <1>0, <1>2, OpSettles DEF Leave
  <2>3. HostOK' /\ LabelsOK'
    BY <1>0, <1>2 DEF Leave
  <2>4. OperationOK'
    BY <1>0, <1>2 DEF Leave
  <2>5. PendingOK'
    BY <1>0, <1>2 DEF Leave
  <2>6. EndingOK' /\ RecoveryOK'
    BY <1>0, <1>2 DEF Leave
  <2>7. Undisturbed'
    BY <1>0, <1>2 DEF Leave
  <2> QED
    BY ONLY <2>1, <2>2, <2>3, <2>4, <2>5, <2>6, <2>7 DEF RunInv
<1>3. CASE /\ pc = "await" /\ preexecution_failed_if_safe /\ op.status = "prepared"
             /\ Leave("cancelled")
  <2>1. RunOK'
    BY ZenonT(60), <1>0, <1>3 DEF Leave, preexecution_failed_if_safe
  <2>2. (op \in OpRecords)'
    BY <1>0, <1>3, OpSettles DEF Leave, preexecution_failed_if_safe
  <2>3. HostOK' /\ LabelsOK'
    BY <1>0, <1>3 DEF Leave, preexecution_failed_if_safe
  <2>4. OperationOK'
    BY <1>0, <1>3 DEF Leave, preexecution_failed_if_safe
  <2>5. PendingOK'
    BY <1>0, <1>3 DEF Leave, preexecution_failed_if_safe
  <2>6. EndingOK' /\ RecoveryOK'
    BY <1>0, <1>3 DEF Leave, preexecution_failed_if_safe
  <2>7. Undisturbed'
    BY <1>0, <1>3 DEF Leave, preexecution_failed_if_safe
  <2> QED
    BY ONLY <2>1, <2>2, <2>3, <2>4, <2>5, <2>6, <2>7 DEF RunInv
<1>4. CASE /\ pc = "await" /\ preexecution_failed_if_safe /\ op.status # "prepared"
             /\ Leave("cancelled")
  <2>1. RunOK'
    BY <1>0, <1>4 DEF Leave, preexecution_failed_if_safe
  <2>2. (op \in OpRecords)'
    BY <1>0, <1>4, OpSettles DEF Leave, preexecution_failed_if_safe
  <2>3. HostOK' /\ LabelsOK'
    BY <1>0, <1>4 DEF Leave, preexecution_failed_if_safe
  <2>4. OperationOK'
    BY <1>0, <1>4 DEF Leave, preexecution_failed_if_safe
  <2>5. PendingOK'
    BY <1>0, <1>4 DEF Leave, preexecution_failed_if_safe
  <2>6. EndingOK' /\ RecoveryOK'
    BY <1>0, <1>4 DEF Leave, preexecution_failed_if_safe
  <2>7. Undisturbed'
    BY <1>0, <1>4 DEF Leave, preexecution_failed_if_safe
  <2> QED
    BY ONLY <2>1, <2>2, <2>3, <2>4, <2>5, <2>6, <2>7 DEF RunInv
<1>5. CASE /\ pc = "tool" /\ UNCHANGED << run, op >>
             /\ pc' = "aborted" /\ UNCHANGED << exit, calls, left >>
  <2>1. RunOK'
    BY <1>0, <1>5
  <2>2. (op \in OpRecords)'
    BY <1>0, <1>5, OpSettles
  <2>3. HostOK' /\ LabelsOK'
    BY <1>0, <1>5
  <2>4. OperationOK'
    BY <1>0, <1>5
  <2>5. PendingOK'
    BY <1>0, <1>5
  <2>6. EndingOK' /\ RecoveryOK'
    BY <1>0, <1>5
  <2>7. Undisturbed'
    BY <1>0, <1>5
  <2> QED
    BY ONLY <2>1, <2>2, <2>3, <2>4, <2>5, <2>6, <2>7 DEF RunInv
<1>6. CASE /\ pc \in Stopping \cup { "model" } /\ UNCHANGED run
             /\ op' = [ op EXCEPT !.cut = TRUE ]
             /\ Leave("cancelled")
  <2>1. RunOK'
    BY <1>0, <1>6 DEF Leave
  <2>2. (op \in OpRecords)'
    BY <1>0, <1>6, OpSettles DEF Leave
  <2>3. HostOK' /\ LabelsOK'
    BY <1>0, <1>6 DEF Leave
  <2>4. OperationOK'
    BY <1>0, <1>6 DEF Leave
  <2>5. PendingOK'
    BY <1>0, <1>6 DEF Leave
  <2>6. EndingOK' /\ RecoveryOK'
    BY <1>0, <1>6 DEF Leave
  <2>7. Undisturbed'
    BY <1>0, <1>6 DEF Leave
  <2> QED
    BY ONLY <2>1, <2>2, <2>3, <2>4, <2>5, <2>6, <2>7 DEF RunInv
<1>7. CASE /\ pc = "handler" /\ UNCHANGED << run, op >>
             /\ \/ pc' = "finish" /\ exit' = "cancelled" /\ UNCHANGED << calls, left >>
                \/ Die
  <2>1. RunOK'
    BY <1>0, <1>7 DEF Die
  <2>2. (op \in OpRecords)'
    BY <1>0, <1>7, OpSettles DEF Die
  <2>3. HostOK' /\ LabelsOK'
    BY <1>0, <1>7 DEF Die
  <2>4. OperationOK'
    BY <1>0, <1>7 DEF Die
  <2>5. PendingOK'
    BY <1>0, <1>7 DEF Die
  <2>6. EndingOK' /\ RecoveryOK'
    BY <1>0, <1>7 DEF Die
  <2>7. Undisturbed'
    BY <1>0, <1>7 DEF Die
  <2> QED
    BY ONLY <2>1, <2>2, <2>3, <2>4, <2>5, <2>6, <2>7 DEF RunInv
<1> QED
  BY <1>1, <1>2, <1>3, <1>4, <1>5, <1>6, <1>7 DEF Interrupted

LEMMA ScanKeeps ==
  ASSUME RunInv, Scan, UNCHANGED others
  PROVE  RunInv'
<1>1. RunOK' /\ (op \in OpRecords)' /\ HostOK'
  BY DEF Scan, Recovering, ScanWaiting, ScanActing, Then, Serve, RecoverRaises,
     ModelInFlight, Determined, SideEffecting
<1>2. LabelsOK' /\ OperationOK' /\ PendingOK'
  BY DEF Scan, Recovering, ScanWaiting, ScanActing, Then, Serve, RecoverRaises,
     ModelInFlight, Determined, SideEffecting
<1>3. EndingOK' /\ RecoveryOK'
  BY DEF Scan, Recovering, ScanWaiting, ScanActing, Then, Serve, RecoverRaises,
     ModelInFlight, Determined, SideEffecting
<1>4. Undisturbed'
  <2>0. /\ rpc = "scan" /\ UNCHANGED << approval, orphan, closing, signal, crashes >>
        /\ ~ others => pc = None
        /\ ~ others /\ op.status = "running" /\ ~ op.cut => run.task = "running" /\ proc # "serving"
    BY DEF Scan, Recovering
  <2>1. CASE (Terminal \/ run.task = "recovery_required") /\ UNCHANGED << run, op >> /\ Serve
    <3>1. /\ pc' = pc /\ rpc' = None /\ proc' = "serving" /\ UNCHANGED << run, op, others >>
          /\ run.task \in TERMINAL_STATES \cup { "recovery_required" }
      BY <2>1 DEF Serve
    <3>2. ~ others /\ op.status = "unknown" => run.task = "recovery_required"
      BY <3>1
    <3>3. ~ others => InStep'
      BY <2>0, <3>1
    <3>4. ~ others => InFlightOK'
      BY <2>0, <3>1
    <3>5. ~ others => UnknownOK'
      BY <2>0, <3>1, <3>2
    <3> QED
      BY ONLY <3>1, <3>3, <3>4, <3>5 DEF Undisturbed
  <2>2. CASE ScanWaiting /\ run.exec = "waiting_human"
    <3>1. /\ pc' = pc /\ UNCHANGED << run, others >>
          /\ op'.cut = op.cut /\ op'.kind = op.kind
          /\ op'.status \in { op.status, "skipped" } /\ rpc' \in { None, "resume" }
      BY <2>2 DEF ScanWaiting, Serve, Then
    <3>2. ~ others => op.status \notin { "running", "unknown" }
      BY <2>2
    <3>3. ~ others => InStep'
      BY <2>0, <2>2, <3>1
    <3>4. ~ others => InFlightOK' /\ UnknownOK'
      BY <3>1, <3>2
    <3> QED
      BY ONLY <3>1, <3>3, <3>4 DEF Undisturbed
  <2>3. CASE Task("recovery_required") /\ UNCHANGED op /\ Serve /\ run.task = "cancelling"
    <3>1. /\ pc' = pc /\ rpc' = None /\ UNCHANGED << op, others >>
          /\ run'.exec = run.exec /\ run'.task = "recovery_required"
      BY <2>3 DEF Serve
    <3>2. ~ others => op.status # "unknown" /\ (op.status = "running" => run.exec = "finished" /\ op.cut)
      BY <2>3
    <3>3. ~ others => InStep'
      BY <2>0, <3>1
    <3>4. ~ others => InFlightOK' /\ UnknownOK'
      BY <2>0, <3>1, <3>2
    <3> QED
      BY ONLY <3>1, <3>3, <3>4 DEF Undisturbed
  <2>7. CASE /\ UNCHANGED << run, op >>
             /\ \/ run.task = "finalizing" /\ Then("finalize")
                \/ (run.task = "cancelling" \/ run.exec = "finished") /\ Then("outcome")
    <3>1. /\ pc' = pc /\ UNCHANGED << run, op, others, proc >>
          /\ rpc' \in { "finalize", "outcome" }
          /\ rpc' = "outcome" => run.task = "cancelling" \/ run.exec = "finished"
      BY <2>7 DEF Then
    <3>2. ~ others /\ op.status = "running" => run.exec = "finished"
      BY <2>7
    <3>3. ~ others => InStep'
      BY <2>0, <3>1
    <3>4. ~ others => InFlightOK'
      BY <2>0, <3>1, <3>2
    <3>5. ~ others => UnknownOK'
      BY <2>0, <3>1
    <3> QED
      BY ONLY <3>1, <3>3, <3>4, <3>5 DEF Undisturbed
  <2>4. CASE run.exec = "acting" /\ ScanActing
    BY <2>0, <2>4 DEF Scan, ScanActing, Then, Determined
  <2>5. CASE ModelInFlight /\ RecoverRaises
    BY <2>0, <2>5 DEF Scan, ModelInFlight, RecoverRaises, Serve
  <2>6. CASE /\ run.exec \in { None, "observing" } \/ (run.exec = "thinking" /\ ~ ModelInFlight)
             /\ UNCHANGED << run, op >> /\ Then("queue")
    BY <2>0, <2>6 DEF Scan, Then, ModelInFlight
  <2> QED
    BY ONLY Scan, <2>1, <2>2, <2>3, <2>4, <2>5, <2>6, <2>7 DEF Scan
<1> QED
  BY ONLY <1>1, <1>2, <1>3, <1>4 DEF RunInv

LEMMA ResumeDecidedKeeps ==
  ASSUME RunInv, ResumeDecided, UNCHANGED others
  PROVE  RunInv'
<1>1. RunOK' /\ (op \in OpRecords)' /\ HostOK'
  BY DEF ResumeDecided, Recovering, Then
<1>2. LabelsOK' /\ OperationOK' /\ PendingOK'
  BY DEF ResumeDecided, Recovering, Then
<1>3. EndingOK' /\ RecoveryOK'
  BY DEF ResumeDecided, Recovering, Then
<1>4. Undisturbed'
  BY DEF ResumeDecided, Recovering, Then
<1> QED
  BY ONLY <1>1, <1>2, <1>3, <1>4 DEF RunInv

LEMMA QueueForRecoveryKeeps ==
  ASSUME RunInv, QueueForRecovery, UNCHANGED others
  PROVE  RunInv'
<1>1. RunOK' /\ (op \in OpRecords)' /\ HostOK'
  BY DEF QueueForRecovery, Recovering, Then
<1>2. LabelsOK' /\ OperationOK' /\ PendingOK'
  BY DEF QueueForRecovery, Recovering, Then
<1>3. EndingOK' /\ RecoveryOK'
  BY DEF QueueForRecovery, Recovering, Then
<1>4. Undisturbed'
  BY DEF QueueForRecovery, Recovering, Then
<1> QED
  BY ONLY <1>1, <1>2, <1>3, <1>4 DEF RunInv

LEMMA RequireRecoveryAfterRestartKeeps ==
  ASSUME RunInv, RequireRecoveryAfterRestart, UNCHANGED others
  PROVE  RunInv'
<1>1. RunOK' /\ (op \in OpRecords)' /\ HostOK'
  BY OuterTable DEF RequireRecoveryAfterRestart, Recovering, CanTask, Then, Serve,
     RecoverRaises
<1>2. LabelsOK' /\ OperationOK' /\ PendingOK'
  BY OuterTable DEF RequireRecoveryAfterRestart, Recovering, CanTask, Then, Serve,
     RecoverRaises
<1>3. EndingOK' /\ RecoveryOK'
  BY OuterTable DEF RequireRecoveryAfterRestart, Recovering, CanTask, Then, Serve,
     RecoverRaises
<1>4. Undisturbed'
  BY OuterTable DEF RequireRecoveryAfterRestart, Recovering, CanTask, Then, Serve,
     RecoverRaises
<1> QED
  BY ONLY <1>1, <1>2, <1>3, <1>4 DEF RunInv

LEMMA FinishFromOutcomeKeeps ==
  ASSUME RunInv, FinishFromOutcome, UNCHANGED others
  PROVE  RunInv'
<1>1. RunOK'
  <2>1. CASE run' = [ run EXCEPT !.task = "cancelling" ]
    BY <2>1
  <2>2. CASE run' = [ run EXCEPT !.task = "finalizing", !.target = "cancelled" ]
    BY ZenonT(60), <2>2
  <2>3. CASE run.exec = "finished"
             /\ run' = [ run EXCEPT !.task = "finalizing", !.target = TargetOf(run.outcome) ]
    <3>1. TargetOf(run.outcome) \in NORMAL_TERMINALS
      BY <2>3, TargetTable
    <3> QED
      BY <2>3, <3>1
  <2> QED
    BY <2>1, <2>2, <2>3 DEF FinishFromOutcome
<1>2. (op \in OpRecords)'
  BY TargetTable DEF FinishFromOutcome, Recovering, Then
<1>3. HostOK'
  BY TargetTable DEF FinishFromOutcome, Recovering, Then
<1>4. LabelsOK'
  BY TargetTable DEF FinishFromOutcome, Recovering, Then
<1>5. OperationOK'
  BY TargetTable DEF FinishFromOutcome, Recovering, Then
<1>6. PendingOK'
  <2>1. UNCHANGED << op, approval, pc >> /\ run'.exec = run.exec
    BY ZenonT(60) DEF FinishFromOutcome, Recovering, Then
  <2> QED
    BY <2>1
<1>7. EndingOK'
  <2>1. /\ run'.exec = run.exec /\ run'.task \in { "cancelling", "finalizing" }
        /\ UNCHANGED << pc, proc >> /\ rpc = "outcome" /\ rpc' # None
    BY ZenonT(60) DEF FinishFromOutcome, Recovering, Then
  <2> QED
    BY <2>1
<1>8. RecoveryOK'
  BY ZenonT(60), TargetTable DEF FinishFromOutcome, Recovering, Then
<1>9. Undisturbed'
  <2>1. /\ UNCHANGED << op, pc, others >> /\ run'.exec = run.exec
        /\ run'.task \in { "cancelling", "finalizing" }
        /\ rpc = "outcome" /\ rpc' \in { "outcome", "finalize" }
    BY ZenonT(60) DEF FinishFromOutcome, Recovering, Then
  <2>2. ~ others => (op.status = "running" => run.exec = "finished") /\ op.status # "unknown"
    BY <2>1
  <2> QED
    BY <2>1, <2>2
<1> QED
  BY ONLY <1>1, <1>2, <1>3, <1>4, <1>5, <1>6, <1>7, <1>8, <1>9 DEF RunInv

LEMMA FinalizeRecoveredKeeps ==
  ASSUME RunInv, FinalizeRecovered, UNCHANGED others
  PROVE  RunInv'
<1>1. RunOK' /\ (op \in OpRecords)' /\ HostOK'
  BY DEF FinalizeRecovered, Recovering, Finalized, Projects, Serve
<1>2. LabelsOK' /\ OperationOK' /\ PendingOK'
  BY DEF FinalizeRecovered, Recovering, Finalized, Projects, Serve
<1>3. EndingOK' /\ RecoveryOK'
  BY DEF FinalizeRecovered, Recovering, Finalized, Projects, Serve
<1>4. Undisturbed'
  BY DEF FinalizeRecovered, Recovering, Finalized, Projects, Serve
<1> QED
  BY ONLY <1>1, <1>2, <1>3, <1>4 DEF RunInv

LEMMA ResumeFinalizingKeeps ==
  ASSUME RunInv, ResumeFinalizing, UNCHANGED others
  PROVE  RunInv'
<1>1. RunOK' /\ (op \in OpRecords)' /\ HostOK'
  BY DEF ResumeFinalizing
<1>2. LabelsOK' /\ OperationOK' /\ PendingOK'
  BY DEF ResumeFinalizing
<1>3. EndingOK' /\ RecoveryOK'
  BY DEF ResumeFinalizing
<1>4. Undisturbed'
  BY DEF ResumeFinalizing
<1> QED
  BY ONLY <1>1, <1>2, <1>3, <1>4 DEF RunInv

LEMMA DecideKeeps ==
  ASSUME RunInv, NEW approved \in BOOLEAN, Decide(approved), UNCHANGED others
  PROVE  RunInv'
<1>1. RunOK' /\ (op \in OpRecords)' /\ HostOK'
  BY DEF Decide
<1>2. LabelsOK' /\ OperationOK' /\ PendingOK'
  BY DEF Decide
<1>3. EndingOK' /\ RecoveryOK'
  BY DEF Decide
<1>4. Undisturbed'
  BY DEF Decide
<1> QED
  BY ONLY <1>1, <1>2, <1>3, <1>4 DEF RunInv

LEMMA DecideOtherKeeps ==
  ASSUME RunInv, DecideOther, UNCHANGED others
  PROVE  RunInv'
<1>1. RunOK' /\ (op \in OpRecords)' /\ HostOK'
  BY DEF DecideOther
<1>2. LabelsOK' /\ OperationOK' /\ PendingOK'
  BY DEF DecideOther
<1>3. EndingOK' /\ RecoveryOK'
  BY DEF DecideOther
<1>4. Undisturbed'
  BY DEF DecideOther
<1> QED
  BY ONLY <1>1, <1>2, <1>3, <1>4 DEF RunInv

LEMMA RecoveryDecisionKeeps ==
  ASSUME RunInv, RecoveryDecision, UNCHANGED others
  PROVE  RunInv'
<1>1. RunOK'
  BY DEF RecoveryDecision
<1>2. (op \in OpRecords)'
  <2>1. CASE \E to \in { "completed", "failed" } : op' = [ op EXCEPT !.status = to ]
    BY <2>1, OpSettles
  <2>2. CASE op.tries < MaxTries
             /\ op' = [ op EXCEPT !.status = "prepared", !.retryable = FALSE, !.tries = @ + 1 ]
    BY <2>2, OpRetried
  <2> QED
    BY <2>1, <2>2 DEF RecoveryDecision
<1>3. HostOK'
  BY DEF RecoveryDecision
<1>4. LabelsOK'
  BY DEF RecoveryDecision
<1>5. OperationOK'
  <2>1. CASE \E to \in { "completed", "failed" } : op' = [ op EXCEPT !.status = to ]
    BY <2>1 DEF RecoveryDecision
  <2>2. CASE op' = [ op EXCEPT !.status = "prepared", !.retryable = FALSE, !.tries = @ + 1 ]
    <3>1. /\ op'.kind = op.kind /\ op'.idem = op.idem /\ op'.ask = op.ask /\ op'.sent = op.sent
          /\ op'.tries = op.tries + 1 /\ op.tries \in Nat /\ op.sent \in Nat
      BY <2>2
    <3>2. pc' = None /\ approval' = approval
      BY DEF RecoveryDecision
    <3> QED
      BY <3>1, <3>2
  <2> QED
    BY <2>1, <2>2 DEF RecoveryDecision
<1>6. PendingOK'
  BY DEF RecoveryDecision
<1>7. EndingOK'
  BY DEF RecoveryDecision
<1>8. RecoveryOK'
  BY DEF RecoveryDecision
<1>9. Undisturbed'
  <2>1. /\ op'.status \in { "completed", "failed", "prepared" }
        /\ UNCHANGED << run, pc, rpc, proc, others >>
    BY DEF RecoveryDecision
  <2>2. ~ others => InStep' /\ InFlightOK' /\ UnknownOK'
    BY <2>1
  <2> QED
    BY ONLY <2>1, <2>2 DEF Undisturbed
<1> QED
  BY ONLY <1>1, <1>2, <1>3, <1>4, <1>5, <1>6, <1>7, <1>8, <1>9 DEF RunInv

LEMMA RetryFinalizeKeeps ==
  ASSUME RunInv, RetryFinalize, UNCHANGED others
  PROVE  RunInv'
<1>1. RunOK' /\ (op \in OpRecords)' /\ HostOK'
  BY DEF RetryFinalize
<1>2. LabelsOK' /\ OperationOK' /\ PendingOK'
  BY DEF RetryFinalize
<1>3. EndingOK' /\ RecoveryOK'
  BY DEF RetryFinalize
<1>4. Undisturbed'
  BY DEF RetryFinalize
<1> QED
  BY ONLY <1>1, <1>2, <1>3, <1>4 DEF RunInv

LEMMA CancelKeeps ==
  ASSUME RunInv, Cancel, UNCHANGED others
  PROVE  RunInv'
<1>1. RunOK'
  BY DEF Cancel
<1>2. (op \in OpRecords)'
  BY DEF Cancel
<1>3. HostOK'
  BY DEF Cancel
<1>4. LabelsOK'
  BY DEF Cancel
<1>5. OperationOK'
  BY DEF Cancel
<1>6. PendingOK'
  BY DEF Cancel
<1>7. EndingOK'
  BY DEF Cancel
<1>8. RecoveryOK'
  BY DEF Cancel
<1>9. Undisturbed'
  BY DEF Cancel
<1> QED
  BY ONLY <1>1, <1>2, <1>3, <1>4, <1>5, <1>6, <1>7, <1>8, <1>9 DEF RunInv

LEMMA CloseKeeps ==
  ASSUME RunInv, Close, UNCHANGED others
  PROVE  RunInv'
<1>1. RunOK' /\ (op \in OpRecords)' /\ HostOK'
  BY DEF Close
<1>2. LabelsOK' /\ OperationOK' /\ PendingOK'
  BY DEF Close
<1>3. EndingOK' /\ RecoveryOK'
  BY DEF Close
<1>4. Undisturbed'
  BY DEF Close
<1> QED
  BY ONLY <1>1, <1>2, <1>3, <1>4 DEF RunInv

LEMMA CloseCancelsKeeps ==
  ASSUME RunInv, CloseCancels, UNCHANGED others
  PROVE  RunInv'
<1>1. RunOK' /\ (op \in OpRecords)' /\ HostOK'
  BY DEF CloseCancels
<1>2. LabelsOK' /\ OperationOK' /\ PendingOK'
  BY DEF CloseCancels
<1>3. EndingOK' /\ RecoveryOK'
  BY DEF CloseCancels
<1>4. Undisturbed'
  BY DEF CloseCancels
<1> QED
  BY ONLY <1>1, <1>2, <1>3, <1>4 DEF RunInv

LEMMA ExitKeeps ==
  ASSUME RunInv, Exit, UNCHANGED others
  PROVE  RunInv'
<1>1. RunOK'
  BY DEF Exit
<1>2. (op \in OpRecords)'
  BY DEF Exit
<1>3. HostOK'
  BY DEF Exit
<1>4. LabelsOK'
  BY DEF Exit
<1>5. OperationOK'
  BY DEF Exit
<1>6. PendingOK'
  BY DEF Exit
<1>7. EndingOK'
  BY DEF Exit
<1>8. RecoveryOK'
  BY DEF Exit
<1>9. Undisturbed'
  BY DEF Exit
<1> QED
  BY ONLY <1>1, <1>2, <1>3, <1>4, <1>5, <1>6, <1>7, <1>8, <1>9 DEF RunInv

LEMMA CrashKeeps ==
  ASSUME RunInv, Crash, UNCHANGED others
  PROVE  RunInv'
<1>1. RunOK'
  BY DEF Crash
<1>2. (op \in OpRecords)'
  BY DEF Crash
<1>3. HostOK'
  <2>1. crashes' \in 0..MaxCrashes
    BY DEF Crash
  <2>2. calls' \in 0..MaxCalls /\ left' \in 0..MaxTools
    BY DEF Crash
  <2>3. UNCHANGED << approval, orphan, others >>
    BY DEF Crash
  <2>4. proc' = "down" /\ closing' = FALSE /\ signal' = FALSE
    BY DEF Crash
  <2> QED
    BY <2>1, <2>2, <2>3, <2>4
<1>4. LabelsOK'
  BY DEF Crash
<1>5. OperationOK'
  BY DEF Crash
<1>6. PendingOK'
  BY DEF Crash
<1>7. EndingOK'
  BY DEF Crash
<1>8. RecoveryOK'
  BY DEF Crash
<1>9. Undisturbed'
  BY DEF Crash
<1> QED
  BY ONLY <1>1, <1>2, <1>3, <1>4, <1>5, <1>6, <1>7, <1>8, <1>9 DEF RunInv

LEMMA RestartKeeps ==
  ASSUME RunInv, Restart, UNCHANGED others
  PROVE  RunInv'
<1>1. RunOK' /\ (op \in OpRecords)' /\ HostOK'
  BY DEF Restart
<1>2. LabelsOK' /\ OperationOK' /\ PendingOK'
  BY DEF Restart
<1>3. EndingOK' /\ RecoveryOK'
  BY DEF Restart
<1>4. Undisturbed'
  BY DEF Restart
<1> QED
  BY ONLY <1>1, <1>2, <1>3, <1>4 DEF RunInv

-----------------------------------------------------------------------------
(* The invariant holds. *)

LEMMA InitKeeps ==
  ASSUME Init
  PROVE  RunInv
<1>1. 0 \in 0..MaxTries /\ 0 \in 0..MaxCalls /\ 0 \in 0..MaxTools /\ 0 \in 0..MaxCrashes
  OBVIOUS
<1>2. RunOK /\ op \in OpRecords /\ HostOK
  BY <1>1 DEF Init, NoOp
<1>3. LabelsOK /\ OperationOK /\ PendingOK /\ EndingOK
  BY <1>1 DEF Init, NoOp
<1>4. RecoveryOK /\ Undisturbed
  BY DEF Init, NoOp
<1> QED
  BY ONLY <1>2, <1>3, <1>4 DEF RunInv

LEMMA StutterKeeps ==
  ASSUME RunInv, UNCHANGED vars
  PROVE  RunInv'
BY DEF vars

LEMMA NextKeeps ==
  ASSUME RunInv, [Next]_vars
  PROVE  RunInv'
<1>1. ASSUME TaskStep, UNCHANGED others PROVE RunInv'
  BY ONLY ZenonT(60), SubmitKeeps, ClaimKeeps, StartKeeps, OpenRuntimeKeeps,
          BeginModelAttemptKeeps,
     SendModelKeeps, ModelAnswersKeeps, ModelCallsToolKeeps, ModelFailsKeeps,
     RetryModelKeeps, PrepareToolKeeps, WaitingHumanKeeps, RequestApprovalKeeps,
     ApprovalTimesOutKeeps, ApprovalDecidedKeeps, EnterActingKeeps, DispatchKeeps,
     ToolEndsKeeps, ToolReturnsKeeps, ToolRaisesKeeps, ToolAbortedKeeps, RequireRecoveryKeeps, RetryToolKeeps,
     ObserveKeeps, PublishObservationKeeps, HandleKeeps, FinishRunKeeps, FinalizeKeeps,
     InterruptedKeeps,
     RunInv, <1>1 DEF TaskStep
<1>2. ASSUME RecoverStep, UNCHANGED others PROVE RunInv'
  BY ONLY ScanKeeps, ResumeDecidedKeeps, QueueForRecoveryKeeps,
     RequireRecoveryAfterRestartKeeps, FinishFromOutcomeKeeps,
     FinalizeRecoveredKeeps, ResumeFinalizingKeeps,
     RunInv, <1>2 DEF RecoverStep
<1>3. ASSUME ClientStep, UNCHANGED others PROVE RunInv'
  BY ONLY DecideKeeps, DecideOtherKeeps, RecoveryDecisionKeeps, RetryFinalizeKeeps,
     CancelKeeps,
     RunInv, <1>3 DEF ClientStep
<1>4. ASSUME Close \/ CloseCancels \/ Exit \/ Crash \/ Restart, UNCHANGED others PROVE RunInv'
  BY ONLY CloseKeeps, CloseCancelsKeeps, ExitKeeps, CrashKeeps, RestartKeeps,
     RunInv, <1>4
<1> QED
  BY ONLY <1>1, <1>2, <1>3, <1>4, StutterKeeps, RunInv, [Next]_vars DEF Next

HIDE DEF RunInv

(* Whatever the task, a recovery pass, clients, crashes and shutdowns do,  *)
(* the rows agree with where everybody is.                                 *)
THEOREM RunInvariant == Spec => []RunInv
BY InitKeeps, NextKeeps, PTL DEF Spec

-----------------------------------------------------------------------------
(* What the invariant gives. *)

(* Effects stay under control: for any number of calls, retries, crashes,  *)
(* cancellations and decisions, a Tool whose effect cannot be undone or    *)
(* deduplicated is dispatched at most once, and a Tool that asks for       *)
(* approval only after it was granted (durable_execution.execute).         *)
THEOREM EffectsUnderControl == Spec => []EffectsControlled
<1>1. RunInv => EffectsControlled
  BY DEF RunInv, EffectsControlled, TypeOK
<1> QED
  BY <1>1, RunInvariant, PTL

(* What a Run rests as is what happened in it: a normal terminal state is  *)
(* the projection of the loop's outcome (_validate_terminal_mapping), and  *)
(* an unknown effect keeps the Run in RECOVERY_REQUIRED.                   *)
THEOREM RestsHonestly == Spec => []RestsAsItHappened
<1>1. RunInv => RestsAsItHappened
  BY DEF RunInv, RestsAsItHappened, UnknownIsParked, CutShort
<1> QED
  BY <1>1, RunInvariant, PTL

LEMMA ClosedIsFinal ==
  ASSUME RunInv, [Next]_vars, Terminal
  PROVE  run' = run /\ op' = op
<1>0. /\ pc \in Ending /\ rpc \in { None, "scan" }
      /\ run.task \notin { "created", "starting", "recovery_required", "finalizing" }
      /\ run.exec # None => run.exec = "finished"
      /\ approval = "pending" => op.status # "prepared"
  BY DEF RunInv
<1>1. CASE UNCHANGED vars
  BY <1>1 DEF vars
<1>2. CASE FinishRun
  BY <1>2 DEF FinishRun
<1>3. CASE Interrupted
  BY <1>3, <1>0 DEF Interrupted
<1>4. CASE TaskStep /\ ~ FinishRun /\ ~ Interrupted
  BY <1>4, <1>0 DEF TaskStep, Submit, Claim, Start, OpenRuntime, BeginModelAttempt,
     SendModel,
         ModelAnswers, ModelCallsTool, ModelFails, RetryModel, PrepareTool,
         WaitingHuman, RequestApproval, ApprovalTimesOut, ApprovalDecided,
         EnterActing, Dispatch, ToolEnds, ToolReturns, ToolRaises, ToolAborted,
         RequireRecovery, RetryTool, Handle, Observe, PublishObservation, Finalize
<1>5. CASE Scan
  BY <1>5, <1>0 DEF Scan, RecoverRaises
<1>6. CASE RecoverStep /\ ~ Scan
  BY <1>6, <1>0 DEF RecoverStep, ResumeDecided, QueueForRecovery,
     RequireRecoveryAfterRestart,
         FinishFromOutcome, FinalizeRecovered, ResumeFinalizing, Recovering
<1>7. ASSUME NEW approved \in BOOLEAN, Decide(approved) PROVE run' = run /\ op' = op
  BY <1>7, <1>0 DEF Decide
<1>8. CASE DecideOther \/ RecoveryDecision \/ RetryFinalize \/ Cancel
  BY <1>8, <1>0 DEF DecideOther, RecoveryDecision, RetryFinalize, Cancel
<1>9. CASE Close \/ CloseCancels \/ Exit \/ Crash \/ Restart
  BY <1>9 DEF Close, CloseCancels, Exit, Crash, Restart
<1> QED
  BY <1>1, <1>2, <1>3, <1>4, <1>5, <1>6, <1>7, <1>8, <1>9 DEF Next, ClientStep

LEMMA RequestsLeaveRunning ==
  ASSUME RunInv, [Next]_vars, ~ others, op'.sent > op.sent, op'.kind = op.kind
  PROVE  run.task = "running" /\ run.exec \in { "thinking", "acting" }
<1>1. CASE SendModel \/ Dispatch
  BY <1>1 DEF RunInv, SendModel, Dispatch
<1>2. CASE ~ (SendModel \/ Dispatch)
  <2>1. op \in OpRecords /\ op.sent \in Nat
    BY DEF RunInv
  <2>2. op'.sent = op.sent \/ op'.sent = 0
    <3>1. CASE UNCHANGED vars
      BY <3>1 DEF vars
    <3>2. CASE BeginModelAttempt
      BY <2>1, <3>2 DEF BeginModelAttempt, NewOp, NoOp
    <3>3. CASE PrepareTool
      BY <3>3 DEF PrepareTool, NewOp, NoOp
    <3>4. CASE UNCHANGED op \/ \E s \in AttemptStatus : \/ op' = [ op EXCEPT !.status = s ]
                 \/ \E r \in BOOLEAN : op' = [ op EXCEPT !.status = s, !.retryable = r ]
                 \/ op' = [ op EXCEPT !.cut = TRUE ]
      BY <2>1, <3>4
    <3>9. CASE RetryTool
      BY <2>1, <3>9 DEF RetryTool
    <3>10. CASE Submit \/ Claim \/ Start \/ OpenRuntime \/ RetryModel \/ RequestApproval
      BY <3>10, <3>4 DEF Submit, Claim, Start, OpenRuntime, RetryModel,
         RequestApproval
    <3>11. CASE ModelAnswers \/ ModelCallsTool \/ ModelFails \/ ApprovalTimesOut
      BY <3>11, <3>4 DEF ModelAnswers, ModelCallsTool, ModelFails, ApprovalTimesOut
    <3>12. CASE WaitingHuman \/ ApprovalDecided \/ EnterActing
      BY <3>12, <3>4 DEF WaitingHuman, ApprovalDecided, EnterActing,
         preexecution_failed_if_safe
    <3>13. CASE ToolEnds \/ ToolReturns \/ ToolRaises \/ ToolAborted \/ Handle
      BY <3>13, <3>4 DEF ToolEnds, ToolReturns, ToolRaises, ToolAborted, Handle
    <3>14. CASE RequireRecovery \/ Observe \/ PublishObservation \/ FinishRun \/ Finalize
      BY <3>14, <3>4 DEF RequireRecovery, Observe, PublishObservation, FinishRun,
         Finalize
    <3>15. CASE Interrupted
      BY <3>15, <3>4 DEF Interrupted, preexecution_failed_if_safe
    <3>5. CASE RecoverStep
      BY <2>1, <3>5 DEF RecoverStep, Scan, ResumeDecided, QueueForRecovery,
         RequireRecoveryAfterRestart,
         FinishFromOutcome, FinalizeRecovered, ResumeFinalizing, Recovering,
         ScanWaiting, ScanActing, RecoverRaises
    <3>6. CASE ClientStep
      BY <2>1, <3>6 DEF ClientStep, Decide, DecideOther, RecoveryDecision,
         RetryFinalize, Cancel
    <3>7. CASE Close \/ CloseCancels \/ Exit \/ Crash \/ Restart
      BY <3>7 DEF Close, CloseCancels, Exit, Crash, Restart
    <3> QED
      BY <1>2, <3>1, <3>2, <3>3, <3>5, <3>6, <3>7, <3>9, <3>10, <3>11, <3>12,
         <3>13, <3>14,
         <3>15 DEF Next, TaskStep
  <2> QED
    BY <2>1, <2>2
<1> QED
  BY <1>1, <1>2

(* Nothing starts where nothing may happen any more: a terminal Run keeps  *)
(* its row and its ledger, and a waiting or parked Run sends no request.   *)
THEOREM RestsQuietly == Spec => RestIsQuiet
<1>1. RunInv /\ [Next]_vars => [ Terminal => run' = run /\ op' = op ]_vars
  BY ClosedIsFinal
<1>2. RunInv /\ [Next]_vars =>
        [ ~ others /\ op'.sent > op.sent /\ op'.kind = op.kind =>
            run.task = "running" /\ run.exec \in { "thinking", "acting" } ]_vars
  BY RequestsLeaveRunning
<1> QED
  BY <1>1, <1>2, RunInvariant, PTL DEF Spec, RestIsQuiet, TerminalIsFinal,
     RequestsOnlyWhileRunning
=============================================================================
