---------------------------- MODULE MCWorkspaces ----------------------------
(***************************************************************************)
(* What the Gateway does to workspaces and repositories for its Runs: the  *)
(* Harness users, checkpoints, finalization, the workspace locks and LaTeX *)
(* compilations.  They share no state and are explored separately, each    *)
(* from its own initial states.                                            *)
(***************************************************************************)
EXTENDS Harness, Checkpoint, Finalization, WorkspaceLocks, LatexCompilation

CONSTANT Foci   \* the components to explore

VARIABLE focus

ProcessOf(t) == IF t = "t3" THEN "cli" ELSE "gateway"

runAll == << fzVars, lkVars, lxVars >>

Init ==
    /\ focus \in Foci
    /\ EvoInit /\ CkInit /\ FzInit /\ LkInit /\ LxInit
    /\ focus # "harness" => workload = {"dream", "code"}
    /\ focus # "finalize" => ~fzSession /\ ~fzChat

\* Of the Dream and a coding session each moves the repository under the other.
OfHarness ==
    /\ focus = "harness" /\ EvoNext /\ UNCHANGED << ckVars, runAll >>
    /\ workload = {"dream", "code"} => userSteps' = 0
OfCheckpoint == focus = "checkpoint" /\ CkNext /\ UNCHANGED << evoVars, runAll >>
OfFinalization == focus = "finalize" /\ FzNext /\ UNCHANGED << evoVars, ckVars, lkVars, lxVars >>
OfLocks == focus = "locks" /\ LkNext /\ UNCHANGED << evoVars, ckVars, fzVars, lxVars >>
OfLatex == focus = "latex" /\ LxNext /\ UNCHANGED << evoVars, ckVars, fzVars, lkVars >>

Next ==
    /\ UNCHANGED focus
    /\ OfHarness \/ OfCheckpoint \/ OfFinalization \/ OfLocks \/ OfLatex

Spec == Init /\ [][Next]_<< focus, evoVars, ckVars, runAll >>

\* Past a race the README lists as a deviation nothing more is claimed.
Undisturbed == ~ckRaced
=============================================================================
