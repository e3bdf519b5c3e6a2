----------------------------- MODULE HarnessCode -----------------------------
(***************************************************************************)
(* An interactive /code session (harness-evolution/harness.py): turns are  *)
(* verified and committed on an isolated branch, and /exit merges the last *)
(* verified one.  The capability grants of the Extensions it brings are    *)
(* recorded as an intent before the merge and committed after it; an       *)
(* intent left pending by a death is settled by the next Gateway from the  *)
(* ancestry of its candidate (gateway/application.py).                     *)
(***************************************************************************)
EXTENDS HarnessEngine

VARIABLES
    session,    \* the controller's record, in memory
    begun,      \* the session was started (bound: one)
    stray,      \* base and turns of a branch whose session a death took
    intents     \* extension_grant_intents, one per verified commit

codeVars == <<session, begun, stray, intents>>

NoSession == [status |-> "none", base |-> 0, turns |-> 0]
Manual(n) == <<"manual", n>>

CodeInit ==
    /\ session = NoSession /\ begun = FALSE /\ stray = NoSession
    /\ intents = [n \in 1..MaxTurns |-> "none"]

Finalizing == \E n \in 1..MaxTurns : task[Manual(n)].pc # "none"
Active == evoUp /\ session.status # "none" /\ ~Finalizing

\* A dirty repository does not matter here.
CodeStart ==
    /\ evoUp /\ ~begun
    /\ begun' = TRUE
    /\ session' = [status |-> "active", base |-> Len(hist), turns |-> 0]
    /\ UNCHANGED <<engineVars, stray, intents>>

\* Verified and committed, or the worktree is left (or reset) unverified.
CodeTurn ==
    /\ Active
    /\ \/ /\ session.turns < MaxTurns
          /\ session' = [session EXCEPT !.turns = @ + 1, !.status = "active"]
       \/ session' = [session EXCEPT !.status = "unverified"]
    /\ UNCHANGED <<engineVars, begun, stray, intents>>

\* /exit: the plan of the last verified commit was confirmed; its intent is durable before the merge.
Finalize ==
    LET n == session.turns IN
    /\ Active /\ session.status # "unverified"
    /\ IF n = 0
       THEN session' = NoSession /\ UNCHANGED <<task, intents>>
       ELSE /\ intents' = [intents EXCEPT ![n] = IF @ = "none" THEN "pending" ELSE @]
            /\ Called(Manual(n), session.base, "check")
            /\ UNCHANGED session
    /\ UNCHANGED <<gitVars, inv, cap, proposal, evoUp, evoDeaths, begun, stray>>

\* Any refused or doubtful merge keeps the session.
FinalizeBlocked ==
    /\ \E n \in 1..MaxTurns : EngineAt(Manual(n), "done") /\ task' = [task EXCEPT ![Manual(n)] = NotCalled]
    /\ session' = [session EXCEPT !.status = "main_changed"]
    /\ UNCHANGED <<gitVars, inv, cap, proposal, evoUp, evoDeaths, begun, stray, intents>>

CommitGrants ==
    /\ \E n \in 1..MaxTurns :
          /\ EngineAt(Manual(n), "merged")
          /\ intents' = [intents EXCEPT ![n] = "committed"]
          /\ Goto(Manual(n), "granted")
    /\ UNCHANGED <<gitVars, inv, cap, proposal, evoUp, evoDeaths, session, begun, stray>>

\* Memory, worktree and branch; the session is over.
FinalizeEnds ==
    /\ \E n \in 1..MaxTurns : EngineAt(Manual(n), "granted") /\ task' = [task EXCEPT ![Manual(n)] = NotCalled]
    /\ session' = NoSession
    /\ UNCHANGED <<gitVars, inv, cap, proposal, evoUp, evoDeaths, begun, stray, intents>>

Abort ==
    /\ Active
    /\ session' = NoSession
    /\ UNCHANGED <<engineVars, begun, stray, intents>>

\* The branch of a lost session is still in the repository.
UserMergesStray ==
    /\ userSteps < MaxUserSteps /\ userSteps' = userSteps + 1
    /\ stray.turns > 0 /\ Len(hist) = stray.base
    /\ hist' = hist \o Candidate(Manual(stray.turns))
    /\ UNCHANGED <<dirty, task, inv, cap, proposal, evoUp, evoDeaths, codeVars>>

\* The candidate of a lost session is deleted; its pending intent stays.
DeleteStray ==
    /\ evoUp /\ stray # NoSession
    /\ stray' = NoSession
    /\ UNCHANGED <<engineVars, session, begun, intents>>

\* A later commit of the user may have changed the hook that was granted.
ChangedSince(n) ==
    \E i, j \in DOMAIN hist : i < j /\ hist[i] = Manual(n) /\ hist[j][1] = "user"

\* _reconcile_extension_grant_intents.
Reconciled(n, intent) ==
    IF intent # "pending" THEN {intent}
    ELSE IF ~Merged(Manual(n)) THEN {"pending"}
    ELSE IF ChangedSince(n) THEN {"committed", "recovery_required"} ELSE {"committed"}

CodeRestarts ==
    /\ ~evoUp /\ evoUp' = TRUE
    /\ intents' \in {f \in [1..MaxTurns -> {"none", "pending", "committed", "recovery_required"}] :
                        \A n \in 1..MaxTurns : f[n] \in Reconciled(n, intents[n])}
    /\ UNCHANGED <<gitVars, task, inv, cap, proposal, evoDeaths, session, begun, stray>>

CodeNext ==
    \/ CodeStart \/ CodeTurn \/ Finalize \/ FinalizeBlocked \/ CommitGrants \/ FinalizeEnds
    \/ Abort \/ DeleteStray \/ UserMergesStray
==============================================================================
