--------------------------- MODULE MCGenerations ---------------------------
(***************************************************************************)
(* The runtime plugins: their generations, the observer that runs one of   *)
(* them beside a Run, and the extension hooks.  The three keep separate    *)
(* tables and are explored separately, each from its own initial state.    *)
(***************************************************************************)
EXTENDS Generations, Observer, ExtensionHooks

CONSTANT Foci   \* the components to explore

VARIABLE focus

MCKind == [observer |-> "observer", skill |-> "skill"]
MCRequires == [observer |-> {}, skill |-> {"observer"}]
MCSemOf == [v \in Versions |-> IF v = "ax" THEN "a" ELSE v]
MCSessionOf == [r1 |-> "s1", c1 |-> "s2"]
MCFirstTree == [observer |-> "a", skill |-> "a"]
StageDirs == {<< "bad", "s1" >>, << "s2", "s1" >>, << "bad", NoSource >>}

Init == focus \in Foci /\ GenInit /\ ObInit /\ XhInit /\ xhDir[1] = "s1"

\* A death is explored beside one Run, two Runs without one.
OfGenerations ==
    /\ focus = "generations" /\ GenNext /\ UNCHANGED << obVars, xhVars >>
    /\ crashes' > 0 => \E r \in Runs : run'[r] = "new"
OfObserver == focus = "observer" /\ ObNext /\ UNCHANGED << genVars, xhVars >>
\* Two Runtimes and a re-enable; then one Runtime under changing grants.
OfHookHealth ==
    /\ focus = "hooks" /\ UNCHANGED << genVars, obVars >>
    /\ XhEnabling \/ \E r \in XhRuns : XhRuntime(r)
    /\ xhAdmin' <= 1
OfHookGrants ==
    /\ focus = "grants" /\ UNCHANGED << genVars, obVars >>
    /\ XhGranting \/ XhRuntime("r1")
    /\ xhCalls' <= 2

Next == UNCHANGED focus /\ (OfGenerations \/ OfObserver \/ OfHookHealth \/ OfHookGrants)

Spec == Init /\ [][Next]_<< focus, genVars, obVars, xhVars >>
=============================================================================
