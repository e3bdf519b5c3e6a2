---------------------------- MODULE HarnessEngine ----------------------------
(***************************************************************************)
(* The Harness evolution engine (harness-evolution/harness.py): a change   *)
(* of the program's own source is coded in an isolated worktree, validated *)
(* and merged fast-forward into the branch the user works on, around an    *)
(* append-only audit (merge_intent before the merge, merge_committed after *)
(* it).  The user commits and edits in the same repository at any moment,  *)
(* and the Gateway may die between any two commands.                       *)
(*                                                                         *)
(* Two of its callers are here: the harness_capability Tool, whose unknown *)
(* result is reconciled from the audit, and confirmed ERROR proposals.     *)
(*                                                                         *)
(* A task is <<trigger, n>> and names the commit it produces.  The history *)
(* is linear (only fast-forwards and commits), so a base is a length.      *)
(***************************************************************************)
EXTENDS Naturals, Sequences, FiniteSets

CONSTANTS
    MaxGenerations,  \* bound: generations of the Dream changeset
    MaxTurns,        \* bound: verified turns of a Coding Session
    MaxRepairs,      \* repair_policy.max_attempts
    MaxUserSteps,    \* bound: edits and commits of the user
    MaxEvoDeaths     \* bound: deaths of the Gateway

ASSUME EvoAssumption ==
    /\ {MaxGenerations, MaxTurns, MaxRepairs} \subseteq Nat \ {0}
    /\ {MaxUserSteps, MaxEvoDeaths} \subseteq Nat

VARIABLES
    hist,       \* commits of the checked-out branch of the source repository
    dirty,      \* the user has uncommitted changes in it
    task,       \* engine calls in memory
    inv,        \* invocation audits and candidate branches, on disk
    cap,        \* Operation of harness_capability and its result
    proposal,   \* status in the file of the ERROR proposal
    evoUp,      \* the Gateway serves
    userSteps, evoDeaths

gitVars == <<hist, dirty, userSteps>>
engineVars == <<hist, dirty, task, inv, cap, proposal, evoUp, userSteps, evoDeaths>>

Tasks == {<<"dream", g>> : g \in 1..MaxGenerations} \cup {<<"manual", n>> : n \in 1..MaxTurns}
         \cup {<<"capability", 1>>, <<"error", 1>>, <<"error", 2>>}

\* Two confirmations of one ERROR proposal share its invocation id.
InvOf(t) == IF t[1] = "error" THEN <<"error", 1>> ELSE t

HeadCommit == hist[Len(hist)]
Merged(t) == \E i \in DOMAIN hist : hist[i] = t

\* A Coding Session merges all its verified turns.
Candidate(t) == IF t[1] = "manual" THEN [k \in 1..t[2] |-> <<"manual", k>>] ELSE <<t>>

NotCalled == [pc |-> "none", base |-> 0, try |-> 0, res |-> "none"]
NoAudit == [open |-> FALSE, intent |-> FALSE, committed |-> FALSE, base |-> 0, branch |-> FALSE]

EngineInit ==
    /\ hist = <<<<"user", 0>>>> /\ dirty = FALSE
    /\ task = [t \in Tasks |-> NotCalled]
    /\ inv = [t \in Tasks |-> NoAudit]
    /\ cap = [op |-> "none", res |-> "none"]
    /\ proposal = "proposed"
    /\ evoUp = TRUE
    /\ userSteps = 0 /\ evoDeaths = 0

EngineAt(t, pc) == evoUp /\ task[t].pc = pc
End(t, res) == task' = [task EXCEPT ![t] = [@ EXCEPT !.pc = "done", !.res = res]]
Goto(t, pc) == task' = [task EXCEPT ![t].pc = pc]
Called(t, base, pc) == task' = [task EXCEPT ![t] = [NotCalled EXCEPT !.pc = pc, !.base = base, !.try = 1]]

------------------------------------------------------------------------------
(* _run_isolated                                                             *)

\* The audit file, then a clean repository, then a new branch and worktree at HEAD.
OpenWorktree(t) ==
    LET i == InvOf(t) IN
    /\ EngineAt(t, "open")
    /\ \/ /\ dirty
          /\ End(t, CASE t[1] = "error" -> "dirty_worktree" [] t[1] = "dream" -> "deferred"
                      [] OTHER -> "confirmed_failed")
          /\ inv' = [inv EXCEPT ![i].open = TRUE]
       \/ /\ ~dirty /\ inv[i].branch
          /\ End(t, "unknown")
          /\ inv' = [inv EXCEPT ![i].open = TRUE]
       \/ /\ ~dirty /\ ~inv[i].branch
          /\ Called(t, Len(hist), "coding")
          /\ inv' = [inv EXCEPT ![i].open = TRUE, ![i].branch = TRUE]
    /\ UNCHANGED <<gitVars, cap, proposal, evoUp, evoDeaths>>

\* What the last validation of each trigger can answer instead of a pass.
ErrorFeedbacks == {"tests_failed", "coding_runtime_failed"}
CapabilityFeedbacks == {"requires_broader_source_change", "confirmed_failed"}
DreamFeedbacks == {"requires_broader_source_change", "confirmed_failed"}

Feedbacks(t) ==
    {"no_code_changes"} \cup CASE t[1] = "error" -> ErrorFeedbacks
                               [] t[1] = "capability" -> CapabilityFeedbacks
                               [] OTHER -> DreamFeedbacks

\* A failed repair keeps its worktree unless the trigger is ERROR.
Kept(t, feedback) == t[1] # "error" /\ feedback # "no_code_changes"

\* One attempt of the repair loop: validated and committed on the branch, or feedback for the next.
Repair(t) ==
    /\ EngineAt(t, "coding") /\ t[1] # "manual"
    /\ \/ Goto(t, "check") /\ UNCHANGED inv
       \/ /\ task[t].try < MaxRepairs
          /\ task' = [task EXCEPT ![t].try = @ + 1]
          /\ UNCHANGED inv
       \/ /\ task[t].try = MaxRepairs
          /\ \E f \in Feedbacks(t) :
                /\ End(t, f)
                /\ inv' = [inv EXCEPT ![InvOf(t)].branch = Kept(t, f)]
    /\ UNCHANGED <<gitVars, cap, proposal, evoUp, evoDeaths>>

\* _merge_verified, first half: the branch must be where the worktree began.
CheckHead(t) ==
    /\ EngineAt(t, "check")
    /\ IF Len(hist) # task[t].base \/ (dirty /\ t[1] # "manual")
       THEN End(t, "blocked_main_changed") /\ UNCHANGED inv
       ELSE /\ Goto(t, "merge")
            /\ inv' = [inv EXCEPT ![InvOf(t)].intent = TRUE, ![InvOf(t)].base = task[t].base]
    /\ UNCHANGED <<gitVars, cap, proposal, evoUp, evoDeaths>>

\* git merge --ff-only refuses a branch that moved; local edits refuse it when they overlap.
FastForward(t) ==
    /\ EngineAt(t, "merge")
    /\ \/ /\ Len(hist) = task[t].base
          /\ hist' = hist \o Candidate(t)
          /\ Goto(t, "verify")
       \/ /\ Len(hist) # task[t].base \/ dirty
          /\ End(t, IF t[1] = "manual" /\ Len(hist) = task[t].base THEN "blocked_local_changes"
                                                                   ELSE "unknown")
          /\ UNCHANGED hist
    /\ UNCHANGED <<dirty, userSteps, inv, cap, proposal, evoUp, evoDeaths>>

VerifyHead(t) ==
    /\ EngineAt(t, "verify")
    /\ IF HeadCommit = t THEN Goto(t, "merged") /\ inv' = [inv EXCEPT ![InvOf(t)].committed = TRUE]
                   ELSE End(t, "unknown") /\ UNCHANGED inv
    /\ UNCHANGED <<gitVars, cap, proposal, evoUp, evoDeaths>>

\* Memory is updated, worktree and branch are removed; the update may raise after the merge.
CloseWorktree(t) ==
    /\ EngineAt(t, "merged") /\ t[1] # "manual"
    /\ \E res \in {"merged", "raised"} : End(t, res)
    /\ inv' = [inv EXCEPT ![InvOf(t)].branch = FALSE]
    /\ UNCHANGED <<gitVars, cap, proposal, evoUp, evoDeaths>>

\* A git command or the coding Runtime raises out of the engine before the merge.
EngineRaises(t) ==
    /\ EngineAt(t, "coding") /\ t[1] # "manual"
    /\ End(t, "raised")
    /\ UNCHANGED <<gitVars, inv, cap, proposal, evoUp, evoDeaths>>

EngineStep(t) ==
    \/ OpenWorktree(t) \/ Repair(t) \/ CheckHead(t) \/ FastForward(t)
    \/ VerifyHead(t) \/ CloseWorktree(t) \/ EngineRaises(t)

------------------------------------------------------------------------------
(* The repository's user                                                     *)

UserEdits ==
    /\ userSteps < MaxUserSteps /\ ~dirty
    /\ dirty' = TRUE /\ userSteps' = userSteps + 1
    /\ UNCHANGED <<hist, task, inv, cap, proposal, evoUp, evoDeaths>>

UserCommits ==
    /\ userSteps < MaxUserSteps
    /\ userSteps' = userSteps + 1
    /\ hist' = Append(hist, <<"user", userSteps'>>)
    /\ dirty' = FALSE
    /\ UNCHANGED <<task, inv, cap, proposal, evoUp, evoDeaths>>

------------------------------------------------------------------------------
(* The harness_capability Tool                                               *)

Cap == <<"capability", 1>>

\* A new Operation, or a new Attempt after the reconcile found nothing applied.
CapabilityCalled ==
    /\ evoUp /\ cap.op \in {"none", "not_applied"}
    /\ cap' = [op |-> "running", res |-> "none"]
    /\ Called(Cap, 0, "open")
    /\ UNCHANGED <<gitVars, inv, proposal, evoUp, evoDeaths>>

\* Every result is the Tool's answer; an exception of a NON_IDEMPOTENT Tool is unknown.
CapabilityReturns ==
    /\ EngineAt(Cap, "done") /\ cap.op = "running"
    /\ cap' = IF task[Cap].res = "raised" THEN [op |-> "unknown", res |-> "none"]
                                          ELSE [op |-> "completed", res |-> task[Cap].res]
    /\ task' = [task EXCEPT ![Cap] = NotCalled]
    /\ UNCHANGED <<gitVars, inv, proposal, evoUp, evoDeaths>>

\* reconcile_capability: the audit and the present HEAD.
CapabilityEvidence ==
    CASE ~inv[Cap].open -> "NOT_APPLIED"
      [] inv[Cap].intent /\ HeadCommit = Cap -> "COMPLETED"
      [] OTHER -> "UNKNOWN"

CapabilityReconciled ==
    /\ evoUp /\ cap.op = "unknown" /\ CapabilityEvidence # "UNKNOWN"
    /\ cap' = IF CapabilityEvidence = "COMPLETED" THEN [op |-> "completed", res |-> "merged"]
                                                  ELSE [op |-> "not_applied", res |-> "none"]
    /\ UNCHANGED <<gitVars, task, inv, proposal, evoUp, evoDeaths>>

------------------------------------------------------------------------------
(* ERROR proposals                                                           *)

\* decide_proposal: repeating a confirmation starts another workload.
ConfirmProposal(t) ==
    /\ evoUp /\ t[1] = "error" /\ task[t] = NotCalled
    /\ proposal \in {"proposed", "confirmed"}
    /\ proposal' = "confirmed"
    /\ Called(t, 0, "queued")
    /\ UNCHANGED <<gitVars, inv, cap, evoUp, evoDeaths>>

RejectProposal ==
    /\ evoUp /\ proposal = "proposed"
    /\ proposal' = "rejected"
    /\ UNCHANGED <<gitVars, task, inv, cap, evoUp, evoDeaths>>

ExecuteError(t) ==
    /\ EngineAt(t, "queued")
    /\ IF proposal \in {"confirmed", "running"} THEN proposal' = "running" /\ Goto(t, "open")
                                                ELSE End(t, "raised") /\ UNCHANGED proposal
    /\ UNCHANGED <<gitVars, inv, cap, evoUp, evoDeaths>>

ErrorReturns(t) ==
    /\ EngineAt(t, "done") /\ t[1] = "error"
    /\ proposal' = IF task[t].res = "raised" THEN proposal ELSE task[t].res
    /\ Goto(t, "returned")
    /\ UNCHANGED <<gitVars, inv, cap, evoUp, evoDeaths>>

CapabilityNext == CapabilityCalled \/ CapabilityReturns \/ CapabilityReconciled
ErrorNext == RejectProposal \/ \E t \in {<<"error", 1>>, <<"error", 2>>} :
                                  ConfirmProposal(t) \/ ExecuteError(t) \/ ErrorReturns(t)

\* Memory is lost; an Operation that was under way is unknown to the next Gateway.
EngineDies ==
    /\ evoUp /\ evoDeaths < MaxEvoDeaths
    /\ evoUp' = FALSE /\ evoDeaths' = evoDeaths + 1
    /\ task' = [t \in Tasks |-> NotCalled]
    /\ cap' = IF cap.op = "running" THEN [cap EXCEPT !.op = "unknown"] ELSE cap
    /\ UNCHANGED <<gitVars, inv, proposal>>
==============================================================================
