---------------------------- MODULE RunLifecycle ----------------------------
(***************************************************************************)
(* One chat Run from submission to its terminal state: the Runtime pool    *)
(* task (gateway/runtime_pool.py) that drives the React loop, the durable  *)
(* model and Tool boundaries (gateway/durable_execution.py), the approval  *)
(* broker (gateway/approval.py), cancellation, shutdown, crashes and the   *)
(* RecoveryCoordinator (gateway/recovery.py) after a restart.              *)
(*                                                                         *)
(* A step is one committed StateController command, or several that follow *)
(* each other without a suspension and whose intermediate states recovery  *)
(* treats alike.  A crash may fall between any two steps; another asyncio  *)
(* task may run only where the Run's task is suspended (Suspended).        *)
(* The history of earlier Operations is abstracted to the current one and  *)
(* to orphan; OperationLedger has the full ledger.                         *)
(***************************************************************************)
EXTENDS AgentState

CONSTANTS
  Idems,            \* idempotency classes of the Tools the model may call
  MaxCalls,         \* config.max_steps: model calls of one task
  MaxTools,         \* Tool calls of one model reply
  MaxTries,         \* retry_policy_snapshot.max_attempts
  MaxCrashes,       \* bound on process crashes
  MayCancel,        \* clients cancel the Run
  MayClose,         \* the Gateway is stopped gracefully
  OtherDecisions,   \* approvals of other Runs may be decided in this process
  EvidenceMayFail   \* a FINALIZING artifact may not be provable

ASSUME IdemsAssumption == Idems \subseteq Idempotency
ASSUME LimitsAssumption ==
  MaxCalls \in Nat \ {0} /\ MaxTools \in Nat /\ MaxTries \in Nat \ {0} /\ MaxCrashes \in Nat
ASSUME SwitchesAssumption ==
  /\ MayCancel \in BOOLEAN /\ MayClose \in BOOLEAN
  /\ OtherDecisions \in BOOLEAN /\ EvidenceMayFail \in BOOLEAN

VARIABLES
  run,       \* agent_states row of the Run
  op,        \* its current Operation and that Operation's current Attempt
  approval,  \* durable Approval of the current Operation
  orphan,    \* an earlier side-effecting Attempt is still PREPARED
  proc,      \* the Gateway process: "down", "booting" (recover()), "serving"
  closing,   \* RuntimePool.close has begun
  signal,    \* task.cancel() was called and is not yet delivered
  pc,        \* where the Run's asyncio task is; None: no live task
  exit,      \* the outcome its handlers are closing the Run with
  rpc,       \* where recover() is with this Run; None: not at it
  calls,     \* model calls made by the live task
  left,      \* Tool calls of the last reply not yet made
  crashes,
  others     \* fixed: other Runs of this process wait for approvals

durable == << run, op, approval, orphan >>
host == << proc, closing, signal >>
task == << pc, exit, calls, left >>
vars == << durable, host, task, rpc, crashes, others >>

NoOp == [ kind |-> None, idem |-> "pure", status |-> None, retryable |-> FALSE,
          tries |-> 0, sent |-> 0, ask |-> FALSE,
          cut |-> FALSE ]   \* history: a cancellation cut its recording

NewOp(kind, idem, ask) ==
  [ NoOp EXCEPT !.kind = kind, !.idem = idem, !.status = "prepared",
                !.tries = 1, !.ask = ask ]

SideEffecting(o) == o.kind = "tool" /\ o.idem # "pure"
Uncertain(o)     == o.idem \in { "externally_idempotent", "non_idempotent" }
Terminal         == run.task \in TERMINAL_STATES

(* Where execute stops the heartbeat of a Tool that returned, raised or    *)
(* was cancelled, before it records what became of the Attempt.            *)
Stopping == { "returned", "raised", "aborted" }

Suspended == { "claim", "open", "think", "model", "retry", "await", "tool",
               "backoff", "publish", "handler", "finalize" } \cup Stopping

Init ==
  /\ run = [ task |-> "created", exec |-> None, outcome |-> None, target |-> None,
             cancel |-> FALSE, ckpt |-> FALSE ]
  /\ op = NoOp
  /\ approval = None
  /\ orphan = FALSE
  /\ proc = "serving"
  /\ closing = FALSE
  /\ signal = FALSE
  /\ pc = "submit"
  /\ exit = None
  /\ rpc = None
  /\ calls = 0
  /\ left = 0
  /\ crashes = 0
  /\ others \in { FALSE, OtherDecisions }

-----------------------------------------------------------------------------
(* How the task moves. *)

At(l) ==
  /\ proc = "serving" /\ rpc = None /\ pc = l /\ ~ signal
  /\ UNCHANGED << host, rpc, crashes >>

Goto(l) == pc' = l /\ UNCHANGED << exit, calls, left >>

(* Slip: the handler reports an error and does not close the Run.          *)
SlipLeave(o) ==
  /\ UNCHANGED << calls, left >>
  /\ IF run'.task = "recovery_required" \/ o = "error"
       THEN pc' = None /\ exit' = None
       ELSE pc' = "handler" /\ exit' = o

(* run_task ends with outcome o.  An exception goes through the handlers   *)
(* of _execute, which wait for the Session records or an event before they *)
(* close the Run, unless the Run already needs a human.                    *)
Leave(o) ==
  /\ UNCHANGED << calls, left >>
  /\ IF run'.task = "recovery_required"
       THEN pc' = None /\ exit' = None
       ELSE pc' = (IF o = "success" THEN "finish" ELSE "handler") /\ exit' = o

(* The exception escapes the handlers too: the task ends.                  *)
Die == pc' = None /\ exit' = None /\ UNCHANGED << calls, left >>

Exec(to) == run' = [ run EXCEPT !.exec = to ]
Task(to) == run' = [ run EXCEPT !.task = to ]

CanTask(to) == to \in OUTER_TRANSITIONS[run.task]
CanExec(to) == InnerStep(run.exec, to)

-----------------------------------------------------------------------------
(* Submission and start. *)

Submit ==
  /\ At("submit")
  /\ Task("queued")
  /\ Goto("claim")
  /\ UNCHANGED << op, approval, orphan >>

(* The scheduler's durable claim.  The branches for a claim lost to        *)
(* another task need two tasks for one Run, which pool.submit excludes.    *)
Claim ==
  /\ At("claim")
  /\ run.task = "queued"
  /\ Task("starting")
  /\ Goto("start")
  /\ UNCHANGED << op, approval, orphan >>

Start ==
  /\ At("start")
  /\ run' = [ run EXCEPT !.task = "running",
                         !.exec = IF @ = None THEN "thinking" ELSE @ ]
  /\ Goto("open")
  /\ UNCHANGED << op, approval, orphan >>

(* The Runtime is built or reused; observations left unpublished by an     *)
(* earlier process are published.                                          *)
OpenRuntime ==
  /\ At("open")
  /\ UNCHANGED durable
  /\ \/ pc' = "think" /\ exit' = exit /\ calls' = 0 /\ left' = 0
     \/ Leave("error")

-----------------------------------------------------------------------------
(* Model calls. *)

(* begin_model_attempt and prepare step from OBSERVING to THINKING.        *)
Begun == IF run.exec = "observing" THEN "thinking" ELSE run.exec

Leftover == orphan \/ (SideEffecting(op) /\ op.status = "prepared")

Reusable ==
  op.kind = "model" /\ (op.status = "abandoned" \/ (op.status = "failed" /\ op.retryable))

BeginModelAttempt ==
  /\ At("think")
  /\ UNCHANGED approval
  /\ \/ /\ calls < MaxCalls
        /\ ~ Reusable
        /\ Exec(Begun)
        /\ op' = NewOp("model", "pure", FALSE)
        /\ orphan' = Leftover
        /\ pc' = "send" /\ calls' = calls + 1 /\ UNCHANGED << exit, left >>
     \/ /\ Reusable
        /\ op.tries < MaxTries
        /\ Exec(Begun)
        /\ op' = [ op EXCEPT !.status = "prepared", !.retryable = FALSE,
                             !.tries = @ + 1 ]
        /\ Goto("send")
        /\ UNCHANGED orphan
     \/ \* request_hash changed since the crash
        /\ Reusable /\ calls = 0
        /\ CanTask("recovery_required")
        /\ run' = [ run EXCEPT !.exec = Begun, !.task = "recovery_required" ]
        /\ Leave("error")
        /\ UNCHANGED << op, orphan >>
     \/ \* call limit, retry not due, or a model_before hook raised
        /\ UNCHANGED << run, op, orphan >>
        /\ Leave("error")

SendModel ==
  /\ At("send")
  /\ op' = [ op EXCEPT !.status = "running", !.sent = @ + 1, !.cut = FALSE ]
  /\ Goto("model")
  /\ UNCHANGED << run, approval, orphan >>

(* The final answer is persisted and TURN_END takes a SafeCheckpoint,      *)
(* which StateController refuses while a side effect is undetermined.      *)
ModelAnswers ==
  /\ At("model")
  /\ op' = [ op EXCEPT !.status = "completed" ]
  /\ UNCHANGED << approval, orphan >>
  /\ \/ /\ ~ orphan
        /\ run' = [ run EXCEPT !.ckpt = TRUE ]
        /\ Leave("success")
     \/ /\ orphan
        /\ UNCHANGED run
        /\ Leave("error")

ModelCallsTool ==
  /\ At("model")
  /\ op' = [ op EXCEPT !.status = "completed" ]
  /\ left' \in 1..MaxTools
  /\ pc' = "prepare"
  /\ UNCHANGED << run, approval, orphan, exit, calls >>

ModelFails ==
  /\ At("model")
  /\ UNCHANGED << run, approval, orphan >>
  /\ \/ /\ op.tries < MaxTries
        /\ op' = [ op EXCEPT !.status = "failed", !.retryable = TRUE ]
        /\ Goto("retry")
     \/ /\ op' = [ op EXCEPT !.status = "failed", !.retryable = FALSE ]
        /\ Leave("error")

RetryModel ==
  /\ At("retry")
  /\ Goto("think")
  /\ UNCHANGED durable

-----------------------------------------------------------------------------
(* Tool calls. *)

PrepareTool ==
  /\ At("prepare")
  /\ Exec(Begun)
  /\ orphan' = Leftover
  /\ approval' = None
  /\ \E idem \in Idems : \E ask \in { FALSE } \cup { idem # "pure" } :
       /\ op' = NewOp("tool", idem, ask)
       /\ pc' = IF ask THEN "ask" ELSE "execute"
  /\ left' = left - 1
  /\ UNCHANGED << exit, calls >>

(* An error before dispatch determines the Attempt and, if the Run was     *)
(* waiting for a human, finishes the inner machine with ERROR.             *)
preexecution_failed_if_safe ==
  /\ op' = IF op.status = "prepared"
             THEN [ op EXCEPT !.status = "failed" ] ELSE op
  /\ run' = IF op.status = "prepared" /\ run.exec = "waiting_human"
              THEN [ run EXCEPT !.exec = "finished", !.outcome = "error" ] ELSE run

WaitingHuman ==
  /\ At("ask")
  /\ UNCHANGED << approval, orphan >>
  /\ \/ /\ run.exec = "thinking"
        /\ Exec("waiting_human")
        /\ Goto("request")
        /\ UNCHANGED op
     \/ /\ run.exec # "thinking"
        /\ preexecution_failed_if_safe
        /\ Leave("error")

RequestApproval ==
  /\ At("request")
  /\ approval' = "pending"
  /\ Goto("await")
  /\ UNCHANGED << run, op, orphan >>

(* wait_for ends without an answer. *)
ApprovalTimesOut ==
  /\ At("await")
  /\ approval = "pending"
  /\ op.status = "prepared"
  /\ approval' = "timeout"
  /\ op' = [ op EXCEPT !.status = "skipped" ]
  /\ Goto("await")
  /\ UNCHANGED << run, orphan >>

ApprovalDecided ==
  /\ At("await")
  /\ approval \notin { None, "pending" }
  /\ UNCHANGED << approval, orphan >>
  /\ \/ /\ approval = "approved" /\ CanExec("acting")
        /\ Exec("acting")
        /\ Goto("execute")
        /\ UNCHANGED op
     \/ /\ approval # "approved" /\ CanExec("observing")
        /\ Exec("observing")
        /\ Goto("publish")
        /\ UNCHANGED op
     \/ /\ ~ CanExec(IF approval = "approved" THEN "acting" ELSE "observing")
        /\ preexecution_failed_if_safe
        /\ Leave("error")

(* The inner machine reaches ACTING before the Attempt is started.  While  *)
(* the Gateway drains for maintenance, Tools that spawn work are skipped.  *)
EnterActing ==
  /\ At("execute")
  /\ UNCHANGED << approval, orphan >>
  /\ \/ /\ run.exec \in { "thinking", "acting" }
        /\ Exec("acting")
        /\ Goto("dispatch")
        /\ UNCHANGED op
     \/ /\ run.exec \in { "thinking", "acting" }
        /\ Exec("observing")
        /\ op' = [ op EXCEPT !.status = "skipped" ]
        /\ Goto("publish")

Dispatch ==
  /\ At("dispatch")
  /\ op' = [ op EXCEPT !.status = "running", !.sent = @ + 1, !.cut = FALSE ]
  /\ Goto("tool")
  /\ UNCHANGED << run, approval, orphan >>

(* The Tool is over; stopping its heartbeat is one more await.             *)
ToolEnds ==
  /\ At("tool")
  /\ Goto("returned") \/ Goto("raised")
  /\ UNCHANGED durable

(* A result is recorded even when a recovery pass marked the Attempt       *)
(* UNKNOWN meanwhile.                                                      *)
ToolReturns ==
  /\ At("returned")
  /\ op.status \in { "running", "unknown" }
  /\ op' = [ op EXCEPT !.status = "completed" ]
  /\ Goto("observe")
  /\ UNCHANGED << run, approval, orphan >>

(* Slip: a Tool that raised is retried whatever its idempotency.           *)
SlipToolRaises ==
  /\ At("raised")
  /\ UNCHANGED << run, approval, orphan >>
  /\ op.status = "running"
  /\ \/ /\ op.tries < MaxTries
        /\ op' = [ op EXCEPT !.status = "failed", !.retryable = TRUE ]
        /\ Goto("backoff")
     \/ /\ op' = [ op EXCEPT !.status = "failed", !.retryable = FALSE ]
        /\ Goto("observe")

(* Slip: the effect of a Tool that raised is taken for determined.         *)
SlipUncertainFails ==
  /\ At("raised")
  /\ UNCHANGED << run, approval, orphan >>
  /\ op.status = "running"
  /\ op' = [ op EXCEPT !.status = "unknown" ]
  /\ Goto("observe")

(* A Tool that raised: uncertain effects become UNKNOWN, safe ones are     *)
(* retried within the policy or reported to the model.                     *)
ToolRaises ==
  /\ At("raised")
  /\ UNCHANGED << run, approval, orphan >>
  /\ \/ /\ op.status = "running" /\ Uncertain(op)
        /\ op' = [ op EXCEPT !.status = "unknown" ]
        /\ pc' = "uncertain" /\ exit' = "error" /\ UNCHANGED << calls, left >>
     \/ /\ op.status = "running" /\ ~ Uncertain(op)
        /\ op.tries < MaxTries
        /\ op' = [ op EXCEPT !.status = "failed", !.retryable = TRUE ]
        /\ Goto("backoff")
     \/ /\ op.status = "running" /\ ~ Uncertain(op)
        /\ op' = [ op EXCEPT !.status = "failed", !.retryable = FALSE ]
        /\ Goto("observe")
     \/ /\ op.status # "running"
        /\ UNCHANGED op
        /\ Leave("error")

(* A Tool that was cancelled: _record_uncertain_or_failed.                 *)
ToolAborted ==
  /\ At("aborted")
  /\ UNCHANGED << approval, orphan >>
  /\ \/ /\ op.status = "running" /\ Uncertain(op)
        /\ op' = [ op EXCEPT !.status = "unknown" ]
        /\ UNCHANGED run
        /\ pc' = "uncertain" /\ exit' = "cancelled" /\ UNCHANGED << calls, left >>
     \/ /\ op.status = "running" /\ ~ Uncertain(op)
        /\ op' = [ op EXCEPT !.status = "failed", !.retryable = TRUE ]
        /\ run' = [ run EXCEPT !.exec = "finished", !.outcome = "cancelled" ]
        /\ Leave("cancelled")
     \/ /\ op.status # "running"
        /\ UNCHANGED << run, op >>
        /\ Leave("error")

RequireRecovery ==
  /\ At("uncertain")
  /\ UNCHANGED << op, approval, orphan >>
  /\ \/ CanTask("recovery_required") /\ Task("recovery_required") /\ Leave(exit)
     \/ ~ CanTask("recovery_required") /\ UNCHANGED run /\ Leave(exit)

RetryTool ==
  /\ At("backoff")
  /\ op' = [ op EXCEPT !.status = "prepared", !.retryable = FALSE, !.tries = @ + 1 ]
  /\ Goto("dispatch")
  /\ UNCHANGED << run, approval, orphan >>

Observe ==
  /\ At("observe")
  /\ UNCHANGED << op, approval, orphan >>
  /\ \/ CanExec("observing") /\ Exec("observing") /\ Goto("publish")
     \/ ~ CanExec("observing") /\ UNCHANGED run /\ Leave("error")

(* The observation is materialised, published to the Session and followed  *)
(* by a SafeCheckpoint.                                                    *)
PublishObservation ==
  /\ At("publish")
  /\ UNCHANGED << op, approval, orphan >>
  /\ \/ /\ ~ orphan
        /\ run' = [ run EXCEPT !.ckpt = TRUE ]
        /\ \/ Goto(IF left > 0 THEN "prepare" ELSE "think")
           \/ op.status = "completed" /\ Leave("success")   \* registry.ends_turn
     \/ /\ orphan
        /\ UNCHANGED run
        /\ Leave("error")

-----------------------------------------------------------------------------
(* Closing the Run. *)

(* The handler closes the Run once its await is over. *)
Handle ==
  /\ At("handler")
  /\ Goto("finish")
  /\ UNCHANGED durable

(* _finish_run, one commit at a time. *)
FinishRun ==
  /\ At("finish")
  /\ UNCHANGED << op, approval, orphan >>
  /\ LET inner  == run.exec \notin { None, "finished" }
         cancel == exit = "cancelled" /\ run.task # "cancelling"
         to     == IF cancel THEN "cancelling" ELSE "finalizing"
     IN  \/ Terminal /\ UNCHANGED run /\ Die
         \/ /\ ~ Terminal /\ inner
            /\ run' = [ run EXCEPT !.exec = "finished", !.outcome = exit ]
            /\ Goto("finish")
         \/ /\ ~ Terminal /\ ~ inner /\ cancel /\ CanTask(to)
            /\ Task(to)
            /\ Goto("finish")
         \/ /\ ~ Terminal /\ ~ inner /\ ~ cancel /\ CanTask(to)
            /\ run' = [ run EXCEPT !.task = to, !.target = TargetOf(exit) ]
            /\ Goto("finalize")
         \/ ~ Terminal /\ ~ inner /\ ~ CanTask(to) /\ UNCHANGED run /\ Die

(* _validate_terminal_mapping *)
Projects ==
  run.exec # None =>
    IF run.outcome = None THEN FALSE ELSE TargetOf(run.outcome) = run.target

(* FinalizeCoordinator: the terminal command commits only when the inner   *)
(* outcome projects to terminal_target; anything else invalidates the      *)
(* generation and waits for a human.                                       *)
Finalized ==
  \/ /\ Projects
     /\ Task(run.target)
  \/ /\ EvidenceMayFail \/ ~ Projects
     /\ Task("recovery_required")

Finalize ==
  /\ At("finalize")
  /\ run.task = "finalizing"
  /\ Finalized
  /\ Die
  /\ UNCHANGED << op, approval, orphan >>

-----------------------------------------------------------------------------
(* Cancellation and shutdown reach the task where it is suspended. *)

(* Slip: cancel() does not look whether the Run is closed.                 *)
SlipCancel ==
  /\ MayCancel
  /\ proc = "serving" /\ rpc = None /\ ~ closing
  /\ pc \in Suspended \cup { None } /\ ~ signal
  /\ run' = [ run EXCEPT !.cancel = TRUE ]
  /\ signal' = (pc # None)
  /\ UNCHANGED << op, approval, orphan, proc, closing, task, rpc, crashes >>

(* RuntimePool.cancel: the durable flag, the first time, then task.cancel()*)
(* if the task is live, every time.                                        *)
Cancel ==
  /\ MayCancel
  /\ proc = "serving" /\ rpc = None /\ ~ closing
  /\ pc \in Suspended \cup { None } /\ ~ signal
  /\ run' = IF Terminal THEN run ELSE [ run EXCEPT !.cancel = TRUE ]
  /\ signal' = (pc # None)
  /\ UNCHANGED << op, approval, orphan, proc, closing, task, rpc, crashes >>

(* CancelledError arrives.  A Tool's own handler takes it only while the   *)
(* Tool runs: where the heartbeat is being stopped it goes to the handlers *)
(* of _execute and what became of the Attempt is never recorded.  In those *)
(* handlers it ends the task; a cancel() that still waits for the task     *)
(* then closes the Run itself.                                             *)
Interrupted ==
  /\ signal /\ proc = "serving" /\ rpc = None
  /\ signal' = FALSE
  /\ UNCHANGED << approval, orphan, proc, closing, rpc, crashes >>
  /\ \/ /\ pc \in { "claim", "open", "think", "retry", "backoff", "publish", "finalize" }
        /\ UNCHANGED << run, op >>
        /\ Leave("cancelled")
     \/ /\ pc = "model"
        /\ \/ op' = [ op EXCEPT !.status = "failed", !.retryable = FALSE ]
           \/ op' = [ op EXCEPT !.cut = TRUE ]   \* in _finish_model_attempt
        /\ UNCHANGED run
        /\ Leave("cancelled")
     \/ /\ pc = "await"
        /\ preexecution_failed_if_safe
        /\ Leave("cancelled")
     \/ /\ pc = "tool"
        /\ UNCHANGED << run, op >>
        /\ pc' = "aborted" /\ UNCHANGED << exit, calls, left >>
     \/ /\ pc \in Stopping
        /\ op' = [ op EXCEPT !.cut = TRUE ]
        /\ UNCHANGED run
        /\ Leave("cancelled")
     \/ /\ pc = "handler"
        /\ UNCHANGED << run, op >>
        /\ \/ pc' = "finish" /\ exit' = "cancelled" /\ UNCHANGED << calls, left >>
           \/ Die

Close ==
  /\ MayClose
  /\ proc = "serving" /\ rpc = None /\ ~ closing
  /\ closing' = TRUE
  /\ UNCHANGED << durable, proc, signal, task, rpc, crashes >>

(* deny_all cancels the approval waiter at once, the end of the grace      *)
(* period cancels every other task.                                        *)
CloseCancels ==
  /\ closing /\ proc = "serving" /\ rpc = None
  /\ pc \in Suspended /\ ~ signal
  /\ signal' = TRUE
  /\ UNCHANGED << durable, proc, closing, task, rpc, crashes >>

Exit ==
  /\ closing /\ proc = "serving" /\ pc = None /\ rpc = None
  /\ proc' = "down" /\ closing' = FALSE
  /\ UNCHANGED << durable, signal, task, rpc, crashes >>

Crash ==
  /\ crashes < MaxCrashes
  /\ proc # "down"
  /\ proc' = "down" /\ closing' = FALSE /\ signal' = FALSE
  /\ pc' = None /\ exit' = None /\ rpc' = None /\ calls' = 0 /\ left' = 0
  /\ crashes' = crashes + 1
  /\ UNCHANGED durable

-----------------------------------------------------------------------------
(* Clients decide approvals and recoveries. *)

(* decide_approval: the durable decision, then the waiter; recover() runs  *)
(* when the Run has no live task.                                          *)
Decide(approved) ==
  /\ proc = "serving" /\ rpc = None
  /\ approval = "pending"
  /\ ~ approved => op.status = "prepared"
  /\ approval' = IF approved THEN "approved" ELSE "denied"
  /\ op' = IF approved THEN op ELSE [ op EXCEPT !.status = "skipped" ]
  /\ rpc' = IF pc = None THEN "scan" ELSE None
  /\ UNCHANGED << run, orphan, host, task, crashes >>

(* The approval of another, not running, Run makes this process recover    *)
(* every nonterminal Run, this one included.                               *)
DecideOther ==
  /\ others
  /\ proc = "serving" /\ rpc = None /\ ~ closing
  /\ pc \in Suspended \cup { None } /\ ~ signal /\ ~ Terminal
  /\ rpc' = "scan"
  /\ UNCHANGED << durable, host, task, crashes >>

(* POST /runs/{id}/recovery on the current Operation of a Run at rest.     *)
RecoveryDecision ==
  /\ proc = "serving" /\ rpc = None /\ pc = None
  /\ run.task = "recovery_required"
  /\ \/ /\ op.status = "unknown"
        /\ \E to \in { "completed", "failed" } : op' = [ op EXCEPT !.status = to ]
     \/ /\ op.status = "unknown" \/ (op.status = "failed" /\ op.retryable)
        /\ op.tries < MaxTries
        /\ op' = [ op EXCEPT !.status = "prepared", !.retryable = FALSE, !.tries = @ + 1 ]
  /\ UNCHANGED << run, approval, orphan, host, task, rpc, crashes >>

(* POST /runs/{id}/recovery without an Operation: recover_generation.      *)
RetryFinalize ==
  /\ proc = "serving" /\ rpc = None /\ pc = None
  /\ run.task = "recovery_required" /\ run.target # None
  /\ Task("recovering")
  /\ rpc' = "generation"
  /\ UNCHANGED << op, approval, orphan, host, task, crashes >>

ResumeFinalizing ==
  /\ rpc = "generation"
  /\ Task("finalizing")
  /\ rpc' = "finalize"
  /\ UNCHANGED << op, approval, orphan, host, task, crashes >>

-----------------------------------------------------------------------------
(* Restart and recovery. *)

Restart ==
  /\ proc = "down" /\ ~ Terminal
  /\ proc' = "booting"
  /\ rpc' = "scan"
  /\ UNCHANGED << durable, closing, signal, task, crashes >>

Recovering(l) ==
  /\ rpc = l
  /\ UNCHANGED << approval, orphan, closing, signal, crashes >>

Serve    == proc' = "serving" /\ rpc' = None /\ UNCHANGED task
Then(l)  == rpc' = l /\ UNCHANGED << proc, task >>

(* An exception in recover() aborts the Gateway's start; in a serving      *)
(* process only the request that asked for it fails.                       *)
RecoverRaises ==
  /\ UNCHANGED << run, op >>
  /\ IF proc = "booting"
       THEN proc' = "down" /\ rpc' = None /\ UNCHANGED task
       ELSE Serve

ModelInFlight ==
  op.kind = "model" /\ op.status \in { "prepared", "running" }

(* _recover_acting *)
ScanActing ==
  \/ op.status \in Determined /\ Exec("observing") /\ UNCHANGED op /\ Then("queue")
  \/ op.status = "prepared" /\ run.ckpt /\ UNCHANGED << run, op >> /\ Then("queue")
  \/ /\ op.status = "running"
     /\ op' = [ op EXCEPT !.status = "unknown" ]
     /\ UNCHANGED run /\ Then("require")
  \/ /\ op.status \in { "unknown", None } \/ (op.status = "prepared" /\ ~ run.ckpt)
     /\ UNCHANGED << run, op >> /\ Then("require")

ScanWaiting ==
  \/ approval = "pending" /\ UNCHANGED << run, op >> /\ Serve
  \/ approval = None /\ UNCHANGED << run, op >> /\ Serve
  \/ /\ approval \notin { None, "pending" }
     /\ op' = IF op.status = "prepared" THEN [ op EXCEPT !.status = "skipped" ] ELSE op
     /\ UNCHANGED run
     /\ Then("resume")

(* recover(): the branches in the order the code tests them. *)
Scan ==
  /\ Recovering("scan")
  /\ LET settled == Terminal \/ run.task = "recovery_required"
         waiting == ~ settled /\ run.exec = "waiting_human"
         rest    == ~ settled /\ ~ waiting
         going   == rest /\ run.task \notin { "finalizing", "cancelling" }
     IN  \/ settled /\ UNCHANGED << run, op >> /\ Serve
         \/ waiting /\ ScanWaiting
         \/ rest /\ run.task = "finalizing" /\ UNCHANGED << run, op >> /\ Then("finalize")
         \/ /\ rest /\ run.task = "cancelling"
            /\ \/ /\ SideEffecting(op) /\ op.status \in { "running", "unknown" }
                  /\ Task("recovery_required") /\ UNCHANGED op /\ Serve
               \/ /\ ~ (SideEffecting(op) /\ op.status \in { "running", "unknown" })
                  /\ UNCHANGED << run, op >> /\ Then("outcome")
         \/ going /\ run.exec = "finished" /\ UNCHANGED << run, op >> /\ Then("outcome")
         \/ going /\ run.exec = "acting" /\ ScanActing
         \/ going /\ run.exec = "thinking" /\ ModelInFlight /\ RecoverRaises
         \/ /\ going
            /\ \/ run.exec \in { None, "observing" }
               \/ run.exec = "thinking" /\ ~ ModelInFlight
            /\ UNCHANGED << run, op >> /\ Then("queue")

(* An approval decided while no task waited: the Tool is not executed.     *)
ResumeDecided ==
  /\ Recovering("resume")
  /\ Exec("observing")
  /\ UNCHANGED op
  /\ Then("scan")

(* _queue_for_recovery, then pool.submit, which leaves a live task alone.  *)
QueueForRecovery ==
  /\ Recovering("queue")
  /\ UNCHANGED op
  /\ \/ run.task \in { "created", "recovering" } /\ Task("queued") /\ Then("queue")
     \/ /\ run.task = "queued"
        /\ UNCHANGED run
        /\ proc' = "serving" /\ rpc' = None
        /\ pc' = IF pc = None THEN "claim" ELSE pc
        /\ UNCHANGED << exit, calls, left >>
     \/ /\ run.task \notin { "created", "queued", "recovering" }
        /\ CanTask("recovering")
        /\ Task("recovering") /\ Then("queue")

RequireRecoveryAfterRestart ==
  /\ Recovering("require")
  /\ UNCHANGED op
  /\ \/ run.task # "recovering" /\ CanTask("recovering") /\ Task("recovering") /\ Then("require")
     \/ run.task = "recovering" /\ Task("recovery_required") /\ Serve
     \/ run.task # "recovering" /\ ~ CanTask("recovering") /\ RecoverRaises

(* _finish_cancel and _finish_from_outcome, one commit at a time. *)
FinishFromOutcome ==
  /\ Recovering("outcome")
  /\ UNCHANGED op
  /\ \/ /\ run.exec = "finished" /\ run.outcome = "cancelled" /\ run.task # "cancelling"
        /\ Task("cancelling")
        /\ Then("outcome")
     \/ /\ run.task = "cancelling" \/ (run.exec = "finished" /\ run.outcome # "cancelled")
        /\ run' = [ run EXCEPT !.task = "finalizing",
                      !.target = IF run.task = "cancelling" THEN "cancelled"
                                 ELSE TargetOf(run.outcome) ]
        /\ Then("finalize")

FinalizeRecovered ==
  /\ Recovering("finalize")
  /\ Finalized
  /\ UNCHANGED op
  /\ Serve

-----------------------------------------------------------------------------
TaskStep ==
  \/ Submit \/ Claim \/ Start \/ OpenRuntime
  \/ BeginModelAttempt \/ SendModel \/ ModelAnswers \/ ModelCallsTool \/ ModelFails \/ RetryModel
  \/ PrepareTool \/ WaitingHuman \/ RequestApproval \/ ApprovalTimesOut \/ ApprovalDecided
  \/ EnterActing \/ Dispatch \/ ToolEnds \/ ToolReturns \/ ToolRaises \/ ToolAborted
  \/ RequireRecovery \/ RetryTool \/ Observe \/ PublishObservation
  \/ Handle \/ FinishRun \/ Finalize \/ Interrupted

RecoverStep ==
  \/ Scan \/ ResumeDecided \/ QueueForRecovery \/ RequireRecoveryAfterRestart
  \/ FinishFromOutcome \/ FinalizeRecovered \/ ResumeFinalizing

ClientStep ==
  \/ \E approved \in BOOLEAN : Decide(approved)
  \/ DecideOther \/ RecoveryDecision \/ RetryFinalize \/ Cancel

Next ==
  /\ \/ TaskStep \/ RecoverStep \/ ClientStep
     \/ Close \/ CloseCancels \/ Exit \/ Crash \/ Restart
  /\ UNCHANGED others

Spec == Init /\ [][Next]_vars

(* asyncio resumes a task whose await has ended, and every await of the    *)
(* task ends: provider and Tool calls have timeouts, wait_for bounds an    *)
(* approval.  A process that starts runs recover(); a stopped one is       *)
(* started again by the next client.  Clients, crashes and shutdowns are   *)
(* under no obligation.                                                    *)
FairSpec ==
  /\ Spec
  /\ WF_vars(TaskStep /\ UNCHANGED others) /\ WF_vars(RecoverStep /\ UNCHANGED others)
  /\ WF_vars(Restart /\ UNCHANGED others)
  /\ WF_vars((CloseCancels \/ Exit) /\ UNCHANGED others)
-----------------------------------------------------------------------------
(* Properties. *)

OpRecords ==
  [ kind : { None, "model", "tool" }, idem : Idempotency,
    status : AttemptStatus \cup { None }, retryable : BOOLEAN,
    tries : 0..MaxTries, sent : 0..MaxTries, ask : BOOLEAN, cut : BOOLEAN ]

(* Values the AgentState and OperationAttempt models accept; FINISHED and  *)
(* only FINISHED carries an outcome, FINALIZING and every normal terminal  *)
(* state carry a terminal_target.                                          *)
TypeOK ==
  /\ run \in [ task : TaskStates, exec : ExecutionStates \cup { None },
               outcome : Outcomes \cup { None }, target : NORMAL_TERMINALS \cup { None },
               cancel : BOOLEAN, ckpt : BOOLEAN ]
  /\ run.outcome # None <=> run.exec = "finished"
  /\ run.task \in NORMAL_TERMINALS \cup { "finalizing" } => run.target # None
  /\ op \in OpRecords
  /\ approval \in ApprovalStatus \cup { None }
  /\ orphan \in BOOLEAN
  /\ proc \in { "down", "booting", "serving" }
  /\ closing \in BOOLEAN /\ signal \in BOOLEAN
  /\ calls \in 0..MaxCalls /\ left \in 0..MaxTools /\ crashes \in 0..MaxCrashes
  /\ others \in BOOLEAN

(* A Tool whose effect cannot be undone or deduplicated is dispatched at   *)
(* most once, whatever crashes, restarts, retries, cancellations and       *)
(* recovery decisions happen around it (durable_execution.execute,         *)
(* recovery._recover_acting).                                              *)
UncertainToolSentOnce ==
  op.kind = "tool" /\ Uncertain(op) => op.sent <= 1

(* A Tool that asks for approval is dispatched only after the Approval was *)
(* granted, and never once it was denied or timed out, also when the       *)
(* answer arrives after a restart (registry.execute_prepared, broker).     *)
DispatchNeedsApproval ==
  op.ask /\ op.sent > 0 => approval = "approved"

(* Effects stay under control: no uncertain one is repeated, none that     *)
(* needs a human's consent is requested without it.                        *)
EffectsControlled == TypeOK /\ UncertainToolSentOnce /\ DispatchNeedsApproval

(* The terminal state a client sees agrees with how the Agent loop ended,  *)
(* whichever of task, canceller and recovery committed it.                 *)
TerminalMatchesOutcome ==
  run.task \in NORMAL_TERMINALS /\ run.exec # None =>
    run.exec = "finished" /\ TargetOf(run.outcome) = run.task

(* The one way the code has of losing an effect: the Attempt is RUNNING    *)
(* and the cancellation that ended the task came while its heartbeat was   *)
(* being stopped.  The Run is then closed CANCELLED, or left as it is.     *)
CutShort == op.cut /\ op.status = "running"

(* Otherwise a Tool whose effect nobody knows is never left behind by a    *)
(* process at rest: whether the Attempt is UNKNOWN or still RUNNING, the   *)
(* Run is parked in RECOVERY_REQUIRED for a human.  (A recovery pass       *)
(* started by another Run's approval can disturb this.)                    *)
UnknownIsParked ==
  /\ ~ others /\ proc = "serving" /\ pc = None /\ rpc = None
  /\ op.kind = "tool" /\ op.status \in { "running", "unknown" } /\ ~ CutShort
  => run.task = "recovery_required"

(* What a Run ends or rests as is what happened in it: the terminal state  *)
(* is the loop's, and an effect nobody knows of keeps the Run open, unless *)
(* a cancellation cut its recording short.                                 *)
RestsAsItHappened == TerminalMatchesOutcome /\ UnknownIsParked

(* README: WAITING_HUMAN, RECOVERY_REQUIRED and unknown effects spend no   *)
(* model tokens.  A request leaves only while the Run is RUNNING and the   *)
(* inner machine is at the matching state.  (Again without recovery passes *)
(* started by other Runs' approvals, which requeue a live Run.)            *)
RequestsOnlyWhileRunning ==
  [][ ~ others /\ op'.sent > op.sent /\ op'.kind = op.kind =>
        /\ run.task = "running"
        /\ run.exec \in { "thinking", "acting" } ]_vars

(* A terminal Run is closed: no late result, approval, recovery pass or    *)
(* retry changes its state or its ledger.                                  *)
TerminalIsFinal ==
  [][ Terminal => run' = run /\ op' = op ]_vars

(* Nothing starts where nothing may happen any more: a closed Run keeps    *)
(* its state, a waiting or parked one sends no request.                    *)
RestIsQuiet == TerminalIsFinal /\ RequestsOnlyWhileRunning

(* Every Run comes to rest, closed or parked for a human decision, and     *)
(* comes back to rest after every decision that moves it.                  *)
Settles == []<>(Terminal \/ run.task = "recovery_required")

-----------------------------------------------------------------------------
(* What the repository's documents say, checked as they say it. *)

(* README: after an abnormal restart Runs that are provably safe resume.   *)
(* A model call has no side effect, so the Gateway comes up and serves.    *)
GatewayComesBack == (proc = "booting") ~> (proc = "serving")

=============================================================================
