---------------------------- MODULE Maintenance ----------------------------
(***************************************************************************)
(* The maintenance gate of the Agent home (backup/maintenance.py), its     *)
(* durable state (backup/lifecycle_store.py), and everyone who closes and  *)
(* opens it: the administrator's API, a backup (backup/service.py), the    *)
(* operator's stop request (gateway/process.py) and the restart after a    *)
(* Harness Dream (gateway/restart.py), over deaths of the process.         *)
(*                                                                         *)
(* A member stands for a database or file of the home, its version for its *)
(* contents.  The offline restore is the module Restore.                   *)
(***************************************************************************)
EXTENDS Naturals, Sequences, FiniteSets

CONSTANTS
    Works,          \* pieces of normal work: Runs, requests, background jobs
    Participants,   \* sequence of participants in the order of registration
    Members,        \* what a backup copies
    MaxEpochs,      \* bound: freezes
    MaxResumes,     \* bound: resumes asked for by the administrator
    MaxWrites,      \* bound: version of a member
    MaxDeaths       \* bound: process deaths

ASSUME MntAssumption ==
    /\ Participants \in Seq(STRING)
    /\ {MaxEpochs, MaxResumes, MaxDeaths} \subseteq Nat
    /\ MaxWrites \in Nat \ {0}
    /\ Works \cap {"control", "maintenance"} = {}

VARIABLES
    life,       \* lifecycle_state: state, reason, maintenance_epoch; and whether stopped.json
                \* names this very snapshot (every transition changes the revision it names)
    active,     \* AgentHomeWriteGate._active: scopes of this process
    paused,     \* participants that acknowledged
    coord,      \* the coordinator under its lock: step, and the caller it serves
    proc,       \* the Gateway process
    services,   \* GatewayApplication._services_started
    op,         \* the latest backup operation: phase, maintenance epoch, kind
    task,       \* the backup in this process
    held,       \* the epoch freeze returned to it
    home,       \* version of each member in the home
    staged,     \* version of each member in the staging directory, 0 for none
    copied,     \* members settled by the frozen pass
    stop,       \* stop.request and its ack
    row,        \* gateway_restart_requests.status
    restart,    \* restart.request exists
    helper,     \* the restart helper process; "reopen" while the Gateway undoes its freeze
    cut,        \* history: home at the moment the backup's freeze was complete
    lifted,     \* history: someone else ended the backup's freeze
    resumes, deaths

mntVars == <<life, active, paused, coord, proc, services, op, task, held, home, staged, copied,
             stop, row, restart, helper, cut, lifted, resumes, deaths>>

lifeVars == <<life, active, paused, coord>>
copyVars == <<op, task, held, home, staged, copied, cut, lifted>>
fileVars == <<stop, row, restart, helper>>

States == {"running", "quiescing", "quiesced", "resuming", "failed"}
Callers == {"admin", "backup", "stop", "restart", "boot"}
Terminal == {"none", "completed", "failed", "recovery_required"}
Part == {Participants[i] : i \in DOMAIN Participants}
NoOp == [phase |-> "none", epoch |-> 0, kind |-> "manual"]
Free == [pc |-> "idle", who |-> "admin"]

------------------------------------------------------------------------------
(* The gate                                                                  *)

\* transition(): one compare-and-set of the snapshot under a new revision.
Transition(state, reason) ==
    life' = [life EXCEPT !.state = state, !.reason = reason, !.proven = FALSE]

\* fail(): a gate that has failed already keeps its evidence.
GateFail == IF life.state = "failed" THEN UNCHANGED life ELSE Transition("failed", "failure")

\* check_mutation_admission for the scope of work w.
MayMutate(w) == w \in active /\ life.state \in {"running", "quiescing", "failed"}

\* work(): only RUNNING admits a new workflow.
Admit(w) ==
    /\ proc = "up"
    /\ life.state = "running"
    /\ w \notin active
    /\ active' = active \cup {w}
    /\ UNCHANGED <<life, paused, coord, proc, services, copyVars, fileVars, resumes, deaths>>

\* An admitted workflow, or a continuation under it, writes to the home.
Mutate(w, m) ==
    /\ MayMutate(w)
    /\ home[m] < MaxWrites
    /\ home' = [home EXCEPT ![m] = @ + 1]
    /\ UNCHANGED <<lifeVars, proc, services, op, task, held, staged, copied, cut, lifted, fileVars,
                   resumes, deaths>>

Leave(w) ==
    /\ w \in active
    /\ active' = active \ {w}
    /\ UNCHANGED <<life, paused, coord, proc, services, copyVars, fileVars, resumes, deaths>>

\* existing_work_control: a decision or cancellation of an existing Run, also while draining.
Control ==
    /\ proc = "up"
    /\ life.state \in {"running", "quiescing", "failed"}
    /\ "control" \notin active
    /\ active' = active \cup {"control"}
    /\ UNCHANGED <<life, paused, coord, proc, services, copyVars, fileVars, resumes, deaths>>

------------------------------------------------------------------------------
(* Callers of the coordinator learn how their call ended                     *)

\* The step of the backup task after freeze or resume returns.
TaskAfter(ok) ==
    CASE task = "freeze" -> IF ok THEN "frozen" ELSE "none"
      [] task = "resume" -> IF ok THEN "finish" ELSE "none"
      [] OTHER -> "none"

\* The operation after freeze or resume returns: a refused freeze fails it, a failed resume of a
\* published snapshot leaves it to the operator.
OpAfter(ok) ==
    IF ok THEN op
    ELSE CASE task = "freeze" -> [op EXCEPT !.phase = "failed"]
           [] task = "resume" -> [op EXCEPT !.phase = "recovery_required"]
           [] OTHER -> op

\* What happens to the caller when freeze (or resume) is over.
Return(who, ok) ==
    /\ IF who = "backup" THEN task' = TaskAfter(ok) /\ op' = OpAfter(ok)
                         ELSE UNCHANGED <<task, op>>
    /\ stop' = IF who = "stop" THEN (IF ok THEN "acked" ELSE "refused") ELSE stop
    /\ row' = IF who # "restart" THEN row
              ELSE IF helper = "reopen" THEN (IF ok THEN "failed" ELSE row)
              ELSE (IF ok THEN row ELSE "timeout")
    /\ helper' = IF who = "restart" THEN "none" ELSE helper
    /\ UNCHANGED restart

------------------------------------------------------------------------------
(* freeze                                                                    *)

MayFreeze == life.state \in {"running", "failed"}

FreezeBegin(who) ==
    /\ coord.pc = "idle"
    /\ MayFreeze
    /\ life.epoch < MaxEpochs
    /\ life' = [state |-> "quiescing", reason |-> who, epoch |-> life.epoch + 1, proven |-> FALSE]
    /\ coord' = [pc |-> "drain", who |-> who]

\* wait_for_idle, then the drain scope.
Drained ==
    /\ coord.pc = "drain"
    /\ life.state = "quiescing"
    /\ active = {}
    /\ active' = {"maintenance"}
    /\ coord' = [coord EXCEPT !.pc = "quiesce"]
    /\ UNCHANGED <<life, paused, proc, services, copyVars, fileVars, resumes, deaths>>

\* The next participant in the order of registration acknowledges a safe boundary.
QuiesceOne ==
    /\ coord.pc \in {"quiesce", "requiesce"}
    /\ \E i \in DOMAIN Participants :
          /\ Participants[i] \notin paused
          /\ \A k \in 1 .. i - 1 : Participants[k] \in paused
          /\ paused' = paused \cup {Participants[i]}
    /\ UNCHANGED <<life, active, coord, proc, services, copyVars, fileVars, resumes, deaths>>

\* The databases are checked and checkpointed; the drain scope ends.
Flush ==
    /\ coord.pc = "quiesce"
    /\ paused = Part
    /\ active' = active \ {"maintenance"}
    /\ coord' = [coord EXCEPT !.pc = "settle"]
    /\ UNCHANGED <<life, paused, proc, services, copyVars, fileVars, resumes, deaths>>

\* Slip: the last wait and the check inside transition() look at normal work only.
FreezeEndBusy ==
    /\ coord.pc = "settle"
    /\ Transition("quiesced", coord.who)
    /\ coord' = Free
    /\ Return(coord.who, TRUE)
    /\ held' = IF coord.who = "backup" THEN life.epoch ELSE held
    /\ cut' = IF coord.who = "backup" THEN home ELSE cut
    /\ UNCHANGED <<active, paused, proc, services, home, staged, copied, lifted,
                   resumes, deaths>>

\* QUIESCED is written only while no scope is active.
FreezeEnd ==
    /\ coord.pc = "settle"
    /\ life.state = "quiescing"
    /\ active = {}
    /\ Transition("quiesced", coord.who)
    /\ coord' = IF coord.who = "restart" THEN [coord EXCEPT !.pc = "spawn"] ELSE Free
    /\ Return(coord.who, TRUE)
    /\ held' = IF coord.who = "backup" THEN life.epoch ELSE held
    /\ cut' = IF coord.who = "backup" THEN home ELSE cut
    /\ UNCHANGED <<active, paused, proc, services, home, staged, copied, lifted,
                   resumes, deaths>>

\* Timeout, cancellation, or a participant that does not acknowledge: FAILED, nothing is resumed.
FreezeFail ==
    /\ coord.pc \in {"drain", "quiesce", "settle"}
    /\ GateFail
    /\ active' = active \ {"maintenance"}
    /\ coord' = Free
    /\ Return(coord.who, FALSE)
    /\ UNCHANGED <<paused, proc, services, held, home, staged, copied, cut, lifted, resumes, deaths>>

------------------------------------------------------------------------------
(* resume                                                                    *)

MayResume(epoch) ==
    /\ life.epoch = epoch
    /\ life.state \in {"quiesced", "failed"}
    /\ active = {}

Reopen(who) ==
    /\ Transition("resuming", "resume")
    /\ active' = {"maintenance"}
    /\ coord' = [pc |-> "requiesce", who |-> who]

ResumeBegin(who, epoch) ==
    /\ coord.pc = "idle"
    /\ MayResume(epoch)
    /\ Reopen(who)

\* Everyone is paused again, the health check passed, the maintenance scope ends.
HealthPassed ==
    /\ coord.pc = "requiesce"
    /\ paused = Part
    /\ active' = active \ {"maintenance"}
    /\ coord' = [coord EXCEPT !.pc = "revive"]
    /\ UNCHANGED <<life, paused, proc, services, copyVars, fileVars, resumes, deaths>>

ReviveOne ==
    /\ coord.pc = "revive"
    /\ \E i \in DOMAIN Participants :
          /\ Participants[i] \in paused
          /\ \A k \in 1 .. i - 1 : Participants[k] \notin paused
          /\ paused' = paused \ {Participants[i]}
    /\ UNCHANGED <<life, active, coord, proc, services, copyVars, fileVars, resumes, deaths>>

\* GatewayApplication.resume starts the services of a control-only process; a backup does not.
ResumeEnd ==
    /\ coord.pc = "revive"
    /\ life.state = "resuming"
    /\ paused = {}
    /\ active = {}
    /\ Transition("running", "healthy")
    /\ coord' = Free
    /\ Return(coord.who, TRUE)
    /\ lifted' = (lifted \/ (coord.who # "backup" /\ task \in {"frozen", "stage", "resume", "failing"}))
    /\ proc' = IF proc = "up" /\ coord.who \in {"admin", "restart"} /\ ~services
               THEN "recover" ELSE proc
    /\ UNCHANGED <<active, paused, services, held, home, staged, copied, cut, resumes, deaths>>

\* A participant, a database or the health check fails: FAILED.  At a start the process gives up.
ResumeFail ==
    /\ coord.pc \in {"requiesce", "revive"}
    /\ GateFail
    /\ active' = active \ {"maintenance"}
    /\ coord' = Free
    /\ Return(coord.who, FALSE)
    /\ proc' = IF coord.who = "boot" THEN "exit" ELSE proc
    /\ UNCHANGED <<paused, services, held, home, staged, copied, cut, lifted, resumes, deaths>>

AdminFreeze ==
    /\ proc = "up"
    /\ FreezeBegin("admin")
    /\ UNCHANGED <<active, paused, proc, services, copyVars, fileVars, resumes, deaths>>

AdminResume ==
    /\ proc = "up"
    /\ resumes < MaxResumes
    /\ ResumeBegin("admin", life.epoch)
    /\ resumes' = resumes + 1
    /\ UNCHANGED <<paused, proc, services, copyVars, fileVars, deaths>>

------------------------------------------------------------------------------
(* Backup                                                                    *)

\* create(): the operation takes the only active slot.  The scheduler asks for an idle, running
\* Gateway with its services; a manual backup for neither.
BackupCreate(kind) ==
    /\ proc = "up"
    /\ task = "none"
    /\ op.phase \in Terminal
    /\ kind = "automatic" => life.state = "running" /\ active = {} /\ services
    /\ life.epoch < MaxEpochs
    /\ op' = [phase |-> "preparing", epoch |-> 0, kind |-> kind]
    /\ task' = "prestage"
    /\ staged' = [m \in Members |-> 0]
    /\ copied' = {}
    /\ lifted' = FALSE
    /\ UNCHANGED <<lifeVars, proc, services, held, home, cut, fileVars, resumes, deaths>>

\* _prestage_sources: a member is copied while work goes on.
Prestage(m) ==
    /\ task = "prestage"
    /\ staged[m] = 0
    /\ staged' = [staged EXCEPT ![m] = home[m]]
    /\ UNCHANGED <<lifeVars, proc, services, op, task, held, home, copied, cut, lifted, fileVars,
                   resumes, deaths>>

\* A copy that changed under the reader is dropped, so any subset may be there when freeze is called.
BackupFreeze ==
    /\ task = "prestage"
    /\ IF MayFreeze
       THEN /\ FreezeBegin("backup")
            /\ task' = "freeze"
            /\ UNCHANGED op
       ELSE /\ coord.pc = "idle"
            /\ task' = "none"
            /\ op' = [op EXCEPT !.phase = "failed"]
            /\ UNCHANGED <<life, coord>>
    /\ UNCHANGED <<active, paused, proc, services, held, home, staged, copied, cut, lifted, fileVars,
                   resumes, deaths>>

MarkSnapshotting ==
    /\ task = "frozen"
    /\ op' = [op EXCEPT !.phase = "snapshotting", !.epoch = held]
    /\ task' = "stage"
    /\ UNCHANGED <<lifeVars, proc, services, held, home, staged, copied, cut, lifted, fileVars,
                   resumes, deaths>>

\* _stage_consistent_sources: the prestaged copy if the source is unchanged, else a new one.
StageMember(m) ==
    /\ task = "stage"
    /\ m \notin copied
    /\ staged' = [staged EXCEPT ![m] = home[m]]
    /\ copied' = copied \cup {m}
    /\ UNCHANGED <<lifeVars, proc, services, op, task, held, home, cut, lifted, fileVars, resumes, deaths>>

\* The staging directory gets its final name and the operation becomes SNAPSHOT_READY.
Publish ==
    /\ task = "stage"
    /\ copied = Members
    /\ op' = [op EXCEPT !.phase = "snapshot_ready"]
    /\ task' = "resume"
    /\ UNCHANGED <<lifeVars, proc, services, held, home, staged, copied, cut, lifted, fileVars,
                   resumes, deaths>>

\* Copying fails: the operation fails, the gate is marked FAILED, outside the coordinator's lock and
\* whoever froze it meanwhile; then it is resumed all the same.
StageFail ==
    /\ task \in {"frozen", "stage"}
    /\ op' = [op EXCEPT !.phase = "failed"]
    /\ task' = "failing"
    /\ GateFail
    /\ UNCHANGED <<active, paused, coord, proc, services, held, home, staged, copied, cut, lifted, fileVars,
                   resumes, deaths>>

\* _resume_after_snapshot: refused unless the freeze of this very backup is still the current one.
BackupResume ==
    /\ task \in {"resume", "failing"}
    /\ coord.pc = "idle"
    /\ IF MayResume(held)
       THEN ResumeBegin("backup", held) /\ UNCHANGED <<op, task>>
       ELSE task' = TaskAfter(FALSE) /\ op' = OpAfter(FALSE) /\ UNCHANGED <<life, active, coord>>
    /\ UNCHANGED <<paused, proc, services, held, home, staged, copied, cut, lifted, fileVars,
                   resumes, deaths>>

\* The scheduler of a started, running and idle Gateway takes up a completion a death interrupted.
FinishPending ==
    /\ proc = "up" /\ services
    /\ task = "none"
    /\ life.state = "running" /\ active = {}
    /\ op.phase \in {"snapshot_ready", "storing_objects", "verifying"}
    /\ task' = "finish"
    /\ UNCHANGED <<lifeVars, proc, services, op, held, home, staged, copied, cut, lifted, fileVars,
                   resumes, deaths>>

\* _finish_operation: SNAPSHOT_READY, STORING_OBJECTS, VERIFYING, COMPLETED; any step may fail.
FinishStep(ok) ==
    /\ task = "finish"
    /\ op' = [op EXCEPT !.phase =
                 IF ~ok THEN "failed"
                 ELSE CASE @ = "snapshot_ready" -> "storing_objects"
                        [] @ = "storing_objects" -> "verifying"
                        [] OTHER -> "completed"]
    /\ task' = IF op'.phase \in Terminal THEN "none" ELSE "finish"
    /\ UNCHANGED <<lifeVars, proc, services, held, home, staged, copied, cut, lifted, fileVars,
                   resumes, deaths>>

------------------------------------------------------------------------------
(* Stop and restart                                                          *)

\* GatewayProcessManager.stop writes the request of this instance.
StopRequest ==
    /\ proc = "up"
    /\ stop = "none"
    /\ stop' = "requested"
    /\ UNCHANGED <<lifeVars, proc, services, copyVars, row, restart, helper, resumes, deaths>>

BackupInProgress == life.reason = "backup" /\ life.state \in {"quiescing", "quiesced", "resuming"}

\* process_control_request: a backup's freeze is left alone; an existing QUIESCED is accepted; any
\* other state needs a drain of its own, which may be refused.
ControlRequest ==
    /\ proc = "up"
    /\ stop = "requested"
    /\ coord.pc = "idle"
    /\ ~BackupInProgress
    /\ IF life.state = "quiesced"
       THEN stop' = "acked" /\ UNCHANGED <<life, coord>>
       ELSE IF MayFreeze
       THEN FreezeBegin("stop") /\ stop' = "draining"
       ELSE stop' = "refused" /\ UNCHANGED <<life, coord>>
    /\ UNCHANGED <<active, paused, proc, services, copyVars, row, restart, helper,
                   resumes, deaths>>

\* The serving loop leaves on an acknowledged stop, or on restart.request between two polls.
ServeEnds ==
    /\ proc = "up"
    /\ stop = "acked" \/ (restart /\ stop # "draining")
    /\ proc' = "exit"
    /\ UNCHANGED <<lifeVars, services, copyVars, fileVars, resumes, deaths>>

\* A process that ends takes its scopes, tasks and locks with it.
Gone ==
    /\ proc' = "down"
    /\ active' = {} /\ paused' = {} /\ coord' = Free
    /\ services' = FALSE
    /\ task' = "none"
    /\ stop' = "none"
    /\ helper' = IF helper = "reopen" THEN "none" ELSE helper

\* Teardown, then stopped.json, but only for a completed operator stop.
Exit ==
    /\ proc = "exit"
    /\ coord.pc = "idle"
    /\ Gone
    /\ life' = [life EXCEPT !.proven = @ \/ (stop = "acked" /\ life.state = "quiesced"
                                               /\ life.reason = "stop")]
    /\ op' = IF task = "prestage" THEN [op EXCEPT !.phase = "failed"] ELSE op
    /\ UNCHANGED <<held, home, staged, copied, cut, lifted, row, restart, resumes, deaths>>

\* request(): one durable intent; the task waits for the pool to be idle.
RestartRequest ==
    /\ proc = "up" /\ services
    /\ row = "none"
    /\ life.state = "running"
    /\ row' = "waiting"
    /\ UNCHANGED <<lifeVars, proc, services, copyVars, stop, restart, helper, resumes, deaths>>

\* _wait_and_restart: a refused freeze and a deadline end in restart_wait_timeout.
RestartFreeze ==
    /\ proc = "up" /\ services
    /\ row = "waiting"
    /\ active \cap Works = {}
    /\ coord.pc = "idle"
    /\ IF MayFreeze THEN FreezeBegin("restart") /\ row' = "requested"
                    ELSE row' = "timeout" /\ UNCHANGED <<life, coord>>
    /\ UNCHANGED <<active, paused, proc, services, copyVars, stop, restart, helper,
                   resumes, deaths>>

RestartTimeout ==
    /\ \/ proc = "up" /\ services /\ row = "waiting" /\ UNCHANGED helper
       \/ helper = "wait" /\ proc # "down" /\ helper' = "none"
    /\ row' = "timeout"
    /\ UNCHANGED <<lifeVars, proc, services, copyVars, stop, restart, resumes, deaths>>

\* The helper is started and restart.request published, before anyone else gets the lock.
SpawnHelper ==
    /\ coord.pc = "spawn"
    /\ coord' = Free
    /\ helper' = "wait"
    /\ restart' = TRUE
    /\ UNCHANGED <<life, active, paused, proc, services, copyVars, stop, row, resumes, deaths>>

\* The helper cannot be started: the freeze is undone.
SpawnFails ==
    /\ coord.pc = "spawn"
    /\ MayResume(life.epoch)
    /\ Reopen("restart")
    /\ helper' = "reopen"
    /\ UNCHANGED <<paused, proc, services, copyVars, stop, row, restart, resumes, deaths>>

\* run_restart_helper after the old process is gone: ensure_running starts another one.
HelperStarts ==
    /\ helper = "wait"
    /\ proc = "down"
    /\ restart' = FALSE
    /\ helper' = "starting"
    /\ proc' = "boot"
    /\ UNCHANGED <<lifeVars, services, copyVars, stop, row, resumes, deaths>>

\* ensure_running raises when the process is up and takes no work; only a Gateway that takes work
\* gets as far as the helper's own resume.
HelperChecks ==
    /\ helper = "starting"
    /\ proc = "up"
    /\ helper' = "none"
    /\ row' = IF life.state = "running" THEN "completed" ELSE "failed"
    /\ UNCHANGED <<lifeVars, proc, services, copyVars, stop, restart, resumes, deaths>>

------------------------------------------------------------------------------
(* Death and start                                                           *)

Death ==
    /\ proc # "down"
    /\ deaths < MaxDeaths
    /\ deaths' = deaths + 1
    /\ Gone
    /\ UNCHANGED <<life, op, held, home, staged, copied, cut, lifted, row, restart, resumes>>

\* run_gateway under the instance lock.
Start ==
    /\ proc = "down"
    /\ proc' = "boot"
    /\ UNCHANGED <<lifeVars, services, copyVars, fileVars, resumes, deaths>>

\* resume_completed_operator_stop_before_bootstrap: exactly the proven stop is undone.
ProvenStop ==
    /\ life.state = "quiesced" /\ life.reason = "stop"
    /\ life.proven

BootResume ==
    /\ proc = "boot"
    /\ IF ProvenStop THEN Transition("resuming", "resume") /\ proc' = "opening"
                     ELSE proc' = "recover" /\ UNCHANGED life
    /\ UNCHANGED <<active, paused, coord, services, copyVars, fileVars, resumes, deaths>>

\* The home's databases are checked; a bad one ends this start with FAILED.
BootResumed(ok) ==
    /\ proc = "opening"
    /\ IF ok THEN Transition("running", "healthy") /\ proc' = "recover"
             ELSE Transition("failed", "failure") /\ proc' = "exit"
    /\ UNCHANGED <<active, paused, coord, services, copyVars, fileVars, resumes, deaths>>

\* Slip: the reason of the freeze is not compared.
BackupOwnsFreezeLoose ==
    /\ life.state # "running"
    /\ op.phase \notin Terminal => op.epoch = life.epoch

\* reconcile_startup may end a freeze only if it is the backup's own: the stored epoch of an active
\* operation, or no active operation at all.
BackupOwnsFreeze ==
    /\ life.state # "running"
    /\ life.reason = "backup"
    /\ op.phase \notin Terminal => op.epoch = life.epoch

\* What is left of the operation: nothing was published, or its passphrase is gone.
Abandoned ==
    \/ op.phase \in {"preparing", "snapshotting"}
    \/ op.phase \notin Terminal /\ op.kind = "manual"

\* reconcile_startup at the beginning of start(); an interrupted change is failed and then resumed.
Reconcile ==
    /\ proc = "recover"
    /\ op' = IF Abandoned THEN [op EXCEPT !.phase = "failed"] ELSE op
    /\ IF BackupOwnsFreeze
       THEN Reopen("boot")
       ELSE UNCHANGED <<life, active, coord>>
    /\ proc' = "starting"
    /\ UNCHANGED <<paused, services, task, held, home, staged, copied, cut, lifted, fileVars, resumes, deaths>>

\* Slip: a start that finds a change under way waits for somebody to end it.
StartServicesKeep ==
    /\ proc = "starting"
    /\ coord.pc = "idle"
    /\ services' = (life.state = "running")
    /\ proc' = "up"
    /\ UNCHANGED <<lifeVars, copyVars, fileVars, resumes, deaths>>

\* The rest of start(): services in RUNNING, else control only; an interrupted change becomes FAILED.
StartServices ==
    /\ proc = "starting"
    /\ coord.pc = "idle"
    /\ IF life.state \in {"quiescing", "resuming"} THEN Transition("failed", "failure")
                                                  ELSE UNCHANGED life
    /\ services' = (life.state = "running")
    /\ proc' = "up"
    /\ UNCHANGED <<active, paused, coord, copyVars, fileVars, resumes, deaths>>

------------------------------------------------------------------------------
MntInit ==
    /\ life = [state |-> "running", reason |-> "none", epoch |-> 0, proven |-> FALSE]
    /\ active = {} /\ paused = {} /\ coord = Free
    /\ proc = "down" /\ services = FALSE
    /\ op = NoOp /\ task = "none" /\ held = 0
    /\ home = [m \in Members |-> 1]
    /\ staged = [m \in Members |-> 0] /\ copied = {}
    /\ stop = "none"
    /\ row = "none" /\ restart = FALSE /\ helper = "none"
    /\ cut = home /\ lifted = FALSE
    /\ resumes = 0 /\ deaths = 0

CoordinatorStep ==
    \/ Drained \/ QuiesceOne \/ Flush \/ FreezeEnd \/ FreezeFail \/ SpawnHelper
    \/ HealthPassed \/ ReviveOne \/ ResumeEnd \/ ResumeFail

StartStep ==
    \/ Start \/ BootResume \/ \E ok \in BOOLEAN : BootResumed(ok)
    \/ Reconcile \/ StartServices \/ Exit

MntNext ==
    \/ \E w \in Works : Admit(w)
    \/ \E w \in Works, m \in Members : Mutate(w, m)
    \/ \E w \in Works \cup {"control"} : Leave(w)
    \/ Control
    \/ Drained
    \/ QuiesceOne
    \/ Flush
    \/ FreezeEnd
    \/ FreezeFail
    \/ HealthPassed
    \/ ReviveOne
    \/ ResumeEnd
    \/ ResumeFail
    \/ AdminFreeze
    \/ AdminResume
    \/ \E kind \in {"manual", "automatic"} : BackupCreate(kind)
    \/ \E m \in Members : Prestage(m)
    \/ BackupFreeze
    \/ MarkSnapshotting
    \/ \E m \in Members : StageMember(m)
    \/ Publish
    \/ StageFail
    \/ BackupResume
    \/ FinishPending
    \/ \E ok \in BOOLEAN : FinishStep(ok)
    \/ StopRequest
    \/ ControlRequest
    \/ ServeEnds
    \/ Exit
    \/ RestartRequest
    \/ RestartFreeze
    \/ RestartTimeout
    \/ SpawnHelper
    \/ SpawnFails
    \/ HelperStarts
    \/ HelperChecks
    \/ Death
    \/ Start
    \/ BootResume
    \/ \E ok \in BOOLEAN : BootResumed(ok)
    \/ Reconcile
    \/ StartServices

\* The coordinator's steps run on the event loop and freeze has a timeout; someone starts a Gateway
\* that is down (every client does).
MntFairness ==
    /\ WF_mntVars(CoordinatorStep)
    /\ WF_mntVars(StartStep)

MntSpec == MntInit /\ [][MntNext]_mntVars /\ MntFairness

------------------------------------------------------------------------------
MntTypeOK ==
    /\ life \in [state : States, reason : Callers \cup {"none", "failure", "resume", "healthy"},
                 epoch : 0 .. MaxEpochs, proven : BOOLEAN]
    /\ active \subseteq Works \cup {"control", "maintenance"}
    /\ paused \subseteq Part
    /\ coord \in [pc : {"idle", "drain", "quiesce", "settle", "spawn", "requiesce", "revive"}, who : Callers]
    /\ proc \in {"down", "boot", "opening", "recover", "starting", "up", "exit"}
    /\ row \in {"none", "waiting", "requested", "timeout", "completed", "failed"}
    /\ helper \in {"none", "reopen", "wait", "starting"}
    /\ task \in {"none", "prestage", "freeze", "frozen", "stage", "resume", "failing", "finish"}
    /\ home \in [Members -> 1 .. MaxWrites] /\ staged \in [Members -> 0 .. MaxWrites]

\* The gate tells the truth about the process: while it is QUIESCED no scope of any kind is active
\* and every participant of a started Gateway is paused, and once it is RUNNING every participant
\* works again, whatever freezes and resumes failed half way before.
GateMatchesProcess ==
    /\ life.state = "quiesced" => active = {} /\ (services => paused = Part)
    /\ life.state = "running" => paused = {}

\* A backup that is published as complete holds every member as it was at one moment, the end of its
\* own freeze, although members are copied before, during and between deaths, provided nobody else
\* opened the gate while it was copying.
BackupIsCut ==
    (op.phase = "completed" /\ ~lifted) => staged = cut

\* The gate tells the truth, and a backup taken behind it is one moment of the Gateway.
MaintenanceSound == MntTypeOK /\ GateMatchesProcess /\ BackupIsCut

\* A complete freeze is ended by the administrator or by whoever asked for it: a start, a backup and
\* a restart leave an administrator's maintenance alone.
OwnerResumes ==
    [][(life.state = "quiesced" /\ life'.state = "resuming") =>
          \/ coord'.who = "admin"
          \/ coord'.who = life.reason
          \/ coord'.who = "boot" /\ life.reason = "backup"
          \/ proc = "boot" /\ life.reason = "stop"]_mntVars

\* Draining and resuming end: in QUIESCED, RUNNING or FAILED, also when the process dies.
TransitionsEnd ==
    /\ (life.state = "quiescing") ~> (life.state # "quiescing")
    /\ (life.state = "resuming") ~> (life.state # "resuming")

=============================================================================
