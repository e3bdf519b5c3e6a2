------------------------------- MODULE Harness -------------------------------
(***************************************************************************)
(* The four users of the Harness engine against one repository: the daily  *)
(* Dream, a /code session, the harness_capability Tool and ERROR           *)
(* proposals.  A behaviour has some of them as its workload.               *)
(***************************************************************************)
EXTENDS HarnessDream, HarnessCode

CONSTANTS Workloads    \* bound: the users of the engine that meet in one behaviour

VARIABLES workload

evoVars == <<engineVars, dreamVars, codeVars, workload>>

Users == {"dream", "code", "capability", "error"}

ASSUME WorkloadsAssumption == Workloads \subseteq SUBSET Users

EvoInit ==
    /\ EngineInit /\ DreamInit /\ CodeInit
    /\ workload \in Workloads

GatewayDies ==
    /\ EngineDies
    /\ tick' = [tick EXCEPT !.at = "idle"]
    /\ verdict' = [gen |-> 0, status |-> "none"]
    /\ session' = NoSession
    /\ stray' = IF session.status = "none" THEN stray ELSE session
    /\ UNCHANGED <<row, dreamRun, dreamOp, revert, restart, begun, intents, workload>>

\* Grant intents are settled when the application is built, Dream generations when it starts.
GatewayRestarts == DreamRestarts /\ CodeRestarts /\ UNCHANGED workload

EngineNext == \E t \in Tasks : EngineStep(t)
UserNext == UserEdits \/ UserCommits

EvoNext ==
    \/ (EngineNext \/ UserNext) /\ UNCHANGED <<dreamVars, codeVars, workload>>
    \/ "capability" \in workload /\ CapabilityNext /\ UNCHANGED <<dreamVars, codeVars, workload>>
    \/ "error" \in workload /\ ErrorNext /\ UNCHANGED <<dreamVars, codeVars, workload>>
    \/ "dream" \in workload /\ DreamNext /\ UNCHANGED <<codeVars, workload>>
    \/ "code" \in workload /\ CodeNext /\ UNCHANGED <<dreamVars, workload>>
    \/ GatewayDies \/ GatewayRestarts

EvoSpec == EvoInit /\ [][EvoNext]_evoVars

------------------------------------------------------------------------------
(* Properties                                                                *)

EvoTypeOK ==
    /\ \A i \in DOMAIN hist : hist[i] \in Tasks \cup ({"user"} \X Nat)
    /\ row.status \in Outcomes \cup {"absent", "discovered", "no_changes", "running", "restart_wait_timeout"}
    /\ row.active \in {0, row.gen}
    /\ \A n \in 1..MaxTurns : intents[n] \in {"none", "pending", "committed", "recovery_required"}

\* What the Gateway records of a change agrees with the repository, whatever died or moved in between:
\* a change recorded as merged is in the history, one recorded as failed, deferred, blocked or not
\* applied is not, and its engine is not at work any more (finish_harness_dream_generation,
\* reconcile_dream, reconcile_capability, execute_error).
RecordMatchesHistory ==
    /\ row.status \in {"success", "restart_wait_timeout"} =>
          (row.res = "merged" <=> Merged(Dream(row.gen)))
    /\ row.status \in {"discovered", "failed", "deferred", "blocked"} =>
          row.gen = 0 \/ (~Merged(Dream(row.gen)) /\ task[Dream(row.gen)].pc \in {"none", "done"})
    /\ cap.op = "completed" /\ cap.res = "merged" => Merged(Cap)
    /\ cap.op = "not_applied" => ~Merged(Cap)
    /\ proposal = "merged" => Merged(<<"error", 1>>) \/ Merged(<<"error", 2>>)

\* No change is applied twice: a changeset's generations merge at most one candidate, and no commit is
\* in the history twice (the CAS on the changeset, and recovery that never replays the engine).
AppliedOnce ==
    /\ Cardinality({g \in Gens : Merged(Dream(g))}) <= 1
    /\ \A i, j \in DOMAIN hist : hist[i] = hist[j] => i = j

\* A capability grant is committed only for a candidate that is in the history, however the merge,
\* the death and the reconciliation at the next start fall (begin_extension_grant_intent before the
\* merge, commit_extension_grant_intent after it).
GrantIsMerged ==
    \A n \in 1..MaxTurns : intents[n] = "committed" => Merged(Manual(n))

\* The records of the Gateway, the grants and the history of the repository agree.
HarnessSound == EvoTypeOK /\ RecordMatchesHistory /\ AppliedOnce /\ GrantIsMerged
==============================================================================
