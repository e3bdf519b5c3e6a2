----------------------------- MODULE HarnessDream -----------------------------
(***************************************************************************)
(* The daily Harness Dream: one changeset of the day's merges is claimed   *)
(* (gateway/state_controller.py), a generation of it is started under a    *)
(* compare-and-set, a Run and an Operation are created for it, the engine  *)
(* is called once and the result is recorded in three further commits      *)
(* (gateway/application.py).  After a death the next Gateway settles the   *)
(* generation from the recorded result or from the engine's audit; an      *)
(* UNKNOWN one waits for an operator, whose decision is another request    *)
(* that runs beside everything else.                                       *)
(***************************************************************************)
EXTENDS HarnessEngine

VARIABLES
    row,        \* harness_dream_changesets
    dreamRun,   \* agent_states of each generation's Run
    dreamOp,    \* its Operation: status and recorded engine result
    tick,       \* next step of run_harness_dream (under its lock)
    verdict,    \* reconcile result a decision request holds
    revert,     \* harness_dream_reverts
    restart     \* gateway_restart_requests

dreamVars == <<row, dreamRun, dreamOp, tick, verdict, revert, restart>>

Gens == 1..MaxGenerations
Dream(g) == <<"dream", g>>
NoRow == [status |-> "absent", gen |-> 0, active |-> 0, rev |-> 0, res |-> "none"]
Outcomes == {"success", "deferred", "blocked", "failed", "unknown"}

DreamInit ==
    /\ row = NoRow
    /\ dreamRun = [g \in Gens |-> "none"]
    /\ dreamOp = [g \in Gens |-> [status |-> "none", res |-> "none"]]
    /\ tick = [at |-> "idle", rev |-> 0, blocked |-> FALSE]
    /\ verdict = [gen |-> 0, status |-> "none"]
    /\ revert = "none"
    /\ restart = "none"

Tick(at) == evoUp /\ tick.at = at
StepTo(at) == tick' = [tick EXCEPT !.at = at]

------------------------------------------------------------------------------
(* run_harness_dream                                                         *)

RowClaimed(status) == [NoRow EXCEPT !.status = status]

\* The scan of the day's merge receipts found some, or none.
Claim ==
    /\ evoUp /\ tick.at = "idle" /\ row.status = "absent"
    /\ \E found \in {"discovered", "no_changes"} : row' = RowClaimed(found)
    /\ UNCHANGED <<engineVars, dreamRun, dreamOp, tick, verdict, revert, restart>>

\* The statuses the method itself refuses to run from.
Runnable(status, caller) ==
    /\ status \notin {"absent", "success", "no_changes", "running", "unknown", "restart_wait_timeout"}
    /\ caller = "scheduler" => status = "discovered"
    /\ status = "blocked" <=> caller = "decision"

\* The scheduler (unless frozen), `harness dream run`, or the approval of a BLOCKED changeset.
SelectChangeset(caller) ==
    /\ evoUp /\ tick.at = "idle"
    /\ Runnable(row.status, caller)
    /\ tick' = [at |-> "start", rev |-> row.rev, blocked |-> caller = "decision"]
    /\ UNCHANGED <<engineVars, row, dreamRun, dreamOp, verdict, revert, restart>>

\* The compare-and-set of start_harness_dream_generation.
MayStart ==
    /\ row.rev = tick.rev /\ row.active = 0
    /\ row.status \in {"discovered", "deferred", "failed", "restart_wait_timeout"}
                      \cup (IF tick.blocked THEN {"blocked"} ELSE {})

StartDreamGeneration ==
    /\ Tick("start")
    /\ IF MayStart
       THEN /\ row.gen < MaxGenerations
            /\ row' = [row EXCEPT !.status = "running", !.gen = @ + 1, !.active = row.gen + 1, !.rev = @ + 1]
            /\ StepTo("run")
       ELSE UNCHANGED row /\ StepTo("idle")
    /\ UNCHANGED <<engineVars, dreamRun, dreamOp, verdict, revert, restart>>

BeginRun ==
    /\ Tick("run")
    /\ dreamRun' = [dreamRun EXCEPT ![row.gen] = "running"]
    /\ StepTo("create")
    /\ UNCHANGED <<engineVars, row, dreamOp, verdict, revert, restart>>

CreateAttempt ==
    /\ Tick("create")
    /\ dreamOp' = [dreamOp EXCEPT ![row.gen].status = "prepared"]
    /\ StepTo("attempt")
    /\ UNCHANGED <<engineVars, row, dreamRun, verdict, revert, restart>>

ExecuteDream(g) == Called(Dream(g), 0, "open")

StartDreamAttempt ==
    /\ Tick("attempt")
    /\ dreamOp' = [dreamOp EXCEPT ![row.gen].status = "running"]
    /\ ExecuteDream(row.gen)
    /\ StepTo("record")
    /\ UNCHANGED <<gitVars, inv, cap, proposal, evoUp, evoDeaths,
                   row, dreamRun, verdict, revert, restart>>

\* _map_harness_dream_outcome.
OutcomeOf(res) ==
    CASE res \in {"merged", "no_code_changes"} -> "success"
      [] res = "deferred" -> "deferred"
      [] res \in {"blocked_main_changed", "requires_broader_source_change"} -> "blocked"
      [] res \in {"unknown", "raised"} -> "unknown"
      [] OTHER -> "failed"

RecordAttempt ==
    LET res == task[Dream(row.gen)].res
        outcome == OutcomeOf(res)
    IN
    /\ Tick("record") /\ EngineAt(Dream(row.gen), "done")
    /\ dreamOp' = [dreamOp EXCEPT ![row.gen] =
          [status |-> IF outcome \in {"unknown", "failed"} THEN outcome ELSE "completed",
           res |-> IF outcome \in {"unknown", "failed"} THEN "none" ELSE res]]
    /\ StepTo("finish")
    /\ UNCHANGED <<engineVars, row, dreamRun, verdict, revert, restart>>

\* finish_harness_dream_generation: an unknown outcome keeps its Run active.
Finished(outcome, res) ==
    row' = [row EXCEPT !.status = outcome, !.rev = @ + 1, !.res = res,
                       !.active = IF outcome = "unknown" THEN @ ELSE 0]

FinishGeneration ==
    LET res == task[Dream(row.gen)].res IN
    /\ Tick("finish")
    /\ Finished(OutcomeOf(res), res)
    /\ StepTo("end")
    /\ UNCHANGED <<engineVars, dreamRun, dreamOp, verdict, revert, restart>>

\* The Run ends, and a merge that needs it asks for a restart of the Gateway.
FinishRun ==
    /\ Tick("end")
    /\ dreamRun' = [dreamRun EXCEPT ![row.gen] = IF row.status = "unknown" THEN "recovery" ELSE "terminal"]
    /\ restart' = IF row.status = "success" /\ row.res = "merged" /\ restart = "none"
                  THEN "waiting" ELSE restart
    /\ StepTo("idle")
    /\ UNCHANGED <<engineVars, row, dreamOp, verdict, revert>>

------------------------------------------------------------------------------
(* Restart of the Gateway                                                    *)

RowTimedOut == [row EXCEPT !.status = "restart_wait_timeout", !.rev = @ + 1]

\* _wait_and_restart waits for an idle Gateway; at its deadline it marks the changeset.
RestartTimesOut ==
    /\ evoUp /\ restart = "waiting"
    /\ restart' = "restart_wait_timeout"
    /\ row' = RowTimedOut
    /\ UNCHANGED <<engineVars, dreamRun, dreamOp, tick, verdict, revert>>

\* Slip: a missing receipt is taken for a merge that did not happen.
DreamEvidenceReceiptOnly(g) ==
    LET i == inv[Dream(g)] IN
    CASE ~i.open -> "NOT_APPLIED"
      [] i.committed /\ HeadCommit = Dream(g) -> "COMPLETED"
      [] i.intent /\ ~i.committed -> "NOT_APPLIED"
      [] OTHER -> "UNKNOWN"

\* reconcile_dream: COMPLETED needs the receipt and the candidate at the head of the branch.
DreamEvidence(g) ==
    LET i == inv[Dream(g)] IN
    CASE ~i.open -> "NOT_APPLIED"
      [] i.committed /\ HeadCommit = Dream(g) -> "COMPLETED"
      [] i.intent /\ ~i.committed /\ Len(hist) = i.base -> "NOT_APPLIED"
      [] OTHER -> "UNKNOWN"

\* A recorded result counts only when it is a merge.
Recovered(g) ==
    CASE dreamOp[g].status = "none" -> "UNKNOWN"
      [] dreamOp[g].status = "completed" -> IF dreamOp[g].res = "merged" THEN "COMPLETED" ELSE "UNKNOWN"
      [] OTHER -> DreamEvidence(g)

ReconciledOp(g, status) ==
    [dreamOp EXCEPT ![g].status =
        IF @ \in {"running", "unknown"}
        THEN CASE status = "COMPLETED" -> "completed" [] status = "NOT_APPLIED" -> "failed"
               [] OTHER -> "unknown"
        ELSE @]

DreamSettled(status) ==
    CASE status = "COMPLETED" -> Finished("success", "merged")
      [] status = "NOT_APPLIED" -> Finished("failed", "confirmed_failed")
      [] OTHER -> Finished("unknown", "unknown")

RowReleased == [row EXCEPT !.status = "discovered", !.active = 0, !.rev = @ + 1]

\* _recover_harness_dream_generations, before the next Gateway serves.
DreamRestarts ==
    /\ ~evoUp /\ evoUp' = TRUE
    /\ IF row.active = 0 THEN UNCHANGED <<row, dreamRun, dreamOp>>
       ELSE IF dreamRun[row.active] = "none"
       THEN /\ row' = RowReleased
            /\ UNCHANGED <<dreamRun, dreamOp>>
       ELSE LET g == row.active
                status == Recovered(g)
            IN /\ dreamOp' = ReconciledOp(g, status)
               /\ DreamSettled(status)
               /\ dreamRun' = [dreamRun EXCEPT ![g] = IF status = "UNKNOWN" THEN "recovery" ELSE "terminal"]
    /\ UNCHANGED <<gitVars, task, inv, cap, proposal, evoDeaths, tick, verdict, revert, restart>>

------------------------------------------------------------------------------
(* Requests of the operator                                                  *)

\* decide_harness_dream on an UNKNOWN changeset: reconcile, await, then finish under the active Run.
DecideReconciles ==
    /\ evoUp /\ verdict.gen = 0
    /\ row.status = "unknown" /\ DreamEvidence(row.gen) # "UNKNOWN"
    /\ verdict' = [gen |-> row.active, status |-> DreamEvidence(row.gen)]
    /\ UNCHANGED <<engineVars, row, dreamRun, dreamOp, tick, revert, restart>>

DecideFinishes ==
    /\ evoUp /\ verdict.gen # 0
    /\ verdict' = [gen |-> 0, status |-> "none"]
    /\ dreamOp' = ReconciledOp(verdict.gen, verdict.status)
    /\ IF row.active = verdict.gen
       THEN /\ DreamSettled(verdict.status)
            /\ dreamRun' = [dreamRun EXCEPT ![verdict.gen] = "terminal"]
            /\ restart' = IF verdict.status = "COMPLETED" /\ restart = "none" THEN "waiting" ELSE restart
       ELSE UNCHANGED <<row, dreamRun, restart>>
    /\ UNCHANGED <<engineVars, tick, revert>>

\* The candidate's "proposed" is no status decide_harness_dream_revert accepts: only the placeholder
\* row remains of a revert that could be built.
RevertCreated ==
    /\ evoUp /\ revert = "none"
    /\ row.status = "success" /\ row.res = "merged"
    /\ revert' \in {"proposed", "blocked"}
    /\ UNCHANGED <<engineVars, row, dreamRun, dreamOp, tick, verdict, restart>>

RevertRejected ==
    /\ evoUp /\ revert \in {"proposed", "blocked"}
    /\ revert' = "rejected"
    /\ UNCHANGED <<engineVars, row, dreamRun, dreamOp, tick, verdict, restart>>

DreamNext ==
    \/ Claim \/ \E caller \in {"scheduler", "user", "decision"} : SelectChangeset(caller)
    \/ StartDreamGeneration \/ BeginRun \/ CreateAttempt \/ StartDreamAttempt
    \/ RecordAttempt \/ FinishGeneration \/ FinishRun
    \/ RestartTimesOut
    \/ DecideReconciles \/ DecideFinishes \/ RevertCreated \/ RevertRejected
==============================================================================
