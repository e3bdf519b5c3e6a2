------------------------------ MODULE Restore ------------------------------
(***************************************************************************)
(* The offline restore of an Agent home (backup/restore.py) under its      *)
(* fence, locks and hash-chained journal (backup/control.py): the home and *)
(* the state directories of its workspaces are replaced by renames, each   *)
(* between an intent and a commit in the journal.  A failure is rolled     *)
(* back by the process itself, a death by the operator, who recovers or    *)
(* rolls back.  A Gateway that starts meanwhile is refused.                *)
(*                                                                         *)
(* A root is the home or a workspace; a slot is the name a directory of it *)
(* has: live (.yy), staged (.yy.restore), rollback (.yy.rollback), failed  *)
(* (.yy.failed).  Its contents are old, new or none.                       *)
(***************************************************************************)
EXTENDS Naturals, Sequences, FiniteSets

CONSTANTS
    Workspaces,     \* sequence of the workspaces in the manifest
    MaxRestores,    \* bound: restores begun
    MaxRstDeaths    \* bound: deaths of the process that restores or rolls back

ASSUME RstAssumption ==
    /\ Workspaces \in Seq(STRING \ {"home"})
    /\ \A i, j \in DOMAIN Workspaces : Workspaces[i] = Workspaces[j] => i = j
    /\ {MaxRestores, MaxRstDeaths} \subseteq Nat

VARIABLES
    tree,       \* contents of each slot of each root
    fence,      \* restore fence file
    jstate,     \* last restore_state of the journal
    intents,    \* action_intent records
    commits,    \* the ones with action_committed
    torn,       \* the last line of the journal is incomplete
    holder,     \* who holds the restore lock
    pc, at,     \* next step of the holder, and the root it is about
    move,       \* its rename under way
    restored,   \* workspaces on the in-memory list of the restore
    gw,         \* Gateway process
    gate,       \* lifecycle state outside the home
    begun, rdeaths,
    unsafe      \* history: a workspace went on the list but its own directory had not moved

rstVars == <<tree, fence, jstate, intents, commits, torn, holder, pc, at, move, restored, gw, gate,
             begun, rdeaths, unsafe>>
journalVars == <<jstate, intents, commits, torn>>
outsideVars == <<gw, gate, begun, rdeaths>>

Order == <<"home">> \o Workspaces
Roots == {Order[i] : i \in DOMAIN Order}
Slots == {"live", "staged", "rollback", "failed"}
NoMove == [step |-> "none"]

Put(root, slot, what) == [tree EXCEPT ![root][slot] = what]
Renamed(root, from, to) == [tree EXCEPT ![root][to] = tree[root][from], ![root][from] = "none"]

------------------------------------------------------------------------------
(* One journalled rename: intent, rename, commit                             *)

Begin(root, from, to, retry) ==
    move' = [step |-> "intent", root |-> root, from |-> from, to |-> to, retry |-> retry]

RenameIntent ==
    /\ move.step = "intent"
    /\ intents' = intents \cup {[root |-> move.root, from |-> move.from, to |-> move.to,
                                 what |-> tree[move.root][move.from], retry |-> move.retry]}
    /\ move' = [move EXCEPT !.step = "rename"]
    /\ UNCHANGED <<tree, fence, jstate, commits, torn, holder, pc, at, restored, outsideVars, unsafe>>

RenameMove ==
    /\ move.step = "rename"
    /\ tree[move.root][move.to] = "none"
    /\ tree' = Renamed(move.root, move.from, move.to)
    /\ move' = [move EXCEPT !.step = "commit"]
    /\ UNCHANGED <<fence, journalVars, holder, pc, at, restored, outsideVars, unsafe>>

RenameCommit ==
    /\ move.step = "commit"
    /\ commits' = commits \cup {i \in intents : /\ i.root = move.root /\ i.from = move.from
                                                /\ i.to = move.to /\ i.retry = move.retry}
    /\ move' = NoMove
    /\ UNCHANGED <<tree, fence, jstate, intents, torn, holder, pc, at, restored, outsideVars, unsafe>>

Ready(step) == pc = step /\ move = NoMove

------------------------------------------------------------------------------
(* restore()                                                                 *)

\* The restore lock, then the instance lock while the fence is written.
RestoreBegin ==
    /\ holder = "none" /\ gw = "down" /\ ~fence
    /\ begun < MaxRestores
    /\ begun' = begun + 1
    /\ holder' = "restore"
    /\ fence' = TRUE
    /\ jstate' = "PREPARING" /\ intents' = {} /\ commits' = {} /\ torn' = FALSE
    /\ pc' = "extract" /\ at' = 1
    /\ restored' = {} /\ unsafe' = FALSE
    /\ UNCHANGED <<tree, move, gw, gate, rdeaths>>

\* The gate closes and becomes RESTORING; an unfinished maintenance refuses.
Extract ==
    /\ Ready("extract")
    /\ gate \in {"running", "failed", "quiesced"}
    /\ gate' = "restoring"
    /\ tree' = Put("home", "staged", "new")
    /\ jstate' = "PREPARED"
    /\ pc' = "rescue"
    /\ UNCHANGED <<fence, intents, commits, torn, holder, at, move, restored, gw, begun, rdeaths, unsafe>>

\* A verified rescue backup of the old home.
Rescue ==
    /\ Ready("rescue")
    /\ jstate' = "GATEWAY_STOPPED"
    /\ pc' = "old"
    /\ UNCHANGED <<tree, fence, intents, commits, torn, holder, at, move, restored, outsideVars, unsafe>>

\* Next root: the old directory is moved away.  A workspace is first staged and put on the list.
MoveOld ==
    /\ Ready("old")
    /\ LET r == Order[at] IN
       /\ IF at = 1 THEN UNCHANGED <<tree, restored>>
          ELSE tree' = Put(r, "staged", "new") /\ restored' = restored \cup {r}
       /\ IF tree[r].live # "none" THEN Begin(r, "live", "rollback", FALSE) ELSE UNCHANGED move
    /\ pc' = "new"
    /\ UNCHANGED <<fence, journalVars, holder, at, outsideVars, unsafe>>

MoveNew ==
    /\ Ready("new")
    /\ Begin(Order[at], "staged", "live", FALSE)
    /\ jstate' = IF at = 1 THEN "OLD_HOME_RENAMED" ELSE jstate
    /\ pc' = "next"
    /\ UNCHANGED <<tree, fence, intents, commits, torn, holder, at, restored, outsideVars, unsafe>>

NextRoot ==
    /\ Ready("next")
    /\ jstate' = IF at = 1 THEN "NEW_HOME_INSTALLED" ELSE jstate
    /\ IF at < Len(Order) THEN at' = at + 1 /\ pc' = "old"
                          ELSE at' = at /\ pc' = "validate"
    /\ UNCHANGED <<tree, fence, intents, commits, torn, holder, move, restored, outsideVars, unsafe>>

\* Candidates, key files, then MIGRATED, HEALTH_VERIFIED, COMMITTED.
ValidateArchive ==
    /\ Ready("validate")
    /\ jstate' = "COMMITTED"
    /\ pc' = "unfence"
    /\ UNCHANGED <<tree, fence, intents, commits, torn, holder, at, move, restored, outsideVars, unsafe>>

\* The fence goes first, then the old directories; the gate stays RESTORING.
Unfence ==
    /\ Ready("unfence")
    /\ fence' = FALSE
    /\ tree' = [r \in Roots |-> IF r = "home" \/ r \in restored
                                THEN [tree[r] EXCEPT !.rollback = "none"] ELSE tree[r]]
    /\ holder' = "none" /\ pc' = "idle"
    /\ UNCHANGED <<journalVars, at, move, restored, outsideVars, unsafe>>

------------------------------------------------------------------------------
(* A step fails: the process undoes the workspaces and rolls back            *)

\* _rollback_workspaces: whatever is live goes to failed, the rollback directory back.
Undone(r) ==
    LET t == IF tree[r].live # "none" THEN Renamed(r, "live", "failed")[r] ELSE tree[r]
    IN  IF t.rollback # "none" THEN [t EXCEPT !.live = t.rollback, !.rollback = "none"] ELSE t

StepFails ==
    /\ holder = "restore"
    /\ pc \in {"extract", "rescue", "old", "new", "next", "validate"}
    /\ gate' = "failed"
    /\ unsafe' = (unsafe \/ \E r \in restored : tree[r].rollback = "none" /\ tree[r].live = "old")
    /\ tree' = [r \in Roots |-> IF r \in restored THEN Undone(r) ELSE tree[r]]
    /\ restored' = {}
    /\ move' = NoMove
    /\ pc' = "quarantine"
    /\ jstate' = "ROLLING_BACK"
    /\ UNCHANGED <<fence, intents, commits, torn, holder, at, gw, begun, rdeaths>>

\* Slip: the home is quarantined without looking for a rollback directory.
QuarantineAlways ==
    /\ Ready("quarantine")
    /\ IF tree["home"].live # "none"
       THEN Begin("home", "live", "failed", FALSE) ELSE UNCHANGED move
    /\ pc' = "restore-old"
    /\ UNCHANGED <<tree, fence, journalVars, holder, at, restored, outsideVars, unsafe>>

\* _rollback: only if the old home was moved away.
Quarantine ==
    /\ Ready("quarantine")
    /\ IF tree["home"].rollback # "none" /\ tree["home"].live # "none"
       THEN Begin("home", "live", "failed", FALSE) ELSE UNCHANGED move
    /\ pc' = "restore-old"
    /\ UNCHANGED <<tree, fence, journalVars, holder, at, restored, outsideVars, unsafe>>

RestoreOld ==
    /\ Ready("restore-old")
    /\ IF tree["home"].rollback # "none"
       THEN Begin("home", "rollback", "live", FALSE) ELSE UNCHANGED move
    /\ pc' = "rolled-back"
    /\ UNCHANGED <<tree, fence, journalVars, holder, at, restored, outsideVars, unsafe>>

HomeRolledBack ==
    /\ Ready("rolled-back")
    /\ tree' = Put("home", "staged", "none")
    /\ jstate' = "ROLLED_BACK"
    /\ fence' = FALSE
    /\ holder' = "none" /\ pc' = "idle"
    /\ UNCHANGED <<intents, commits, torn, at, move, restored, outsideVars, unsafe>>

------------------------------------------------------------------------------
(* The operator                                                              *)

\* rollback(): home only, on the evidence of the directories.
OperatorRollback ==
    /\ holder = "none" /\ fence /\ ~torn
    /\ holder' = "rollback"
    /\ jstate' = "ROLLING_BACK"
    /\ pc' = "quarantine"
    /\ UNCHANGED <<tree, fence, intents, commits, torn, at, move, restored, outsideVars, unsafe>>

OperatorRecover ==
    /\ holder = "none" /\ fence /\ ~torn
    /\ IF jstate = "COMMITTED" THEN fence' = FALSE /\ UNCHANGED <<holder, pc>>
                               ELSE holder' = "recover" /\ pc' = "reconcile" /\ UNCHANGED fence
    /\ UNCHANGED <<tree, journalVars, at, move, restored, outsideVars, unsafe>>

Done(i) == tree[i.root][i.to] = i.what /\ tree[i.root][i.from] = "none"
Undoable(i) == tree[i.root][i.from] = i.what /\ tree[i.root][i.to] = "none"

\* An uncommitted rename that is proved done is committed, one that is proved not done is repeated.
ReconcileOne(i) ==
    /\ Ready("reconcile")
    /\ i \in intents \ commits
    /\ \/ Done(i) /\ commits' = commits \cup {i} /\ UNCHANGED <<move, jstate, holder, pc>>
       \/ ~Done(i) /\ Undoable(i) /\ Begin(i.root, i.from, i.to, TRUE)
          /\ UNCHANGED <<commits, jstate, holder, pc>>
       \/ ~Done(i) /\ ~Undoable(i) /\ jstate' = "RECOVERY_REQUIRED"
          /\ holder' = "none" /\ pc' = "idle" /\ UNCHANGED <<commits, move>>
    /\ UNCHANGED <<tree, fence, intents, torn, at, restored, outsideVars, unsafe>>

Reconciled ==
    /\ Ready("reconcile")
    /\ \A i \in intents \ commits : i.retry = FALSE /\ Done(i)
    /\ holder' = "none" /\ pc' = "idle"
    /\ UNCHANGED <<tree, fence, journalVars, at, move, restored, outsideVars, unsafe>>

------------------------------------------------------------------------------
(* restore_workspace(): both locks, no fence and no journal                  *)

WorkspaceBegin(w) ==
    /\ holder = "none" /\ gw = "down" /\ ~fence
    /\ begun < MaxRestores
    /\ begun' = begun + 1
    /\ holder' = "workspace"
    /\ at' = CHOOSE i \in DOMAIN Order : Order[i] = w
    /\ tree' = IF tree[w].live = "none" THEN Put(w, "staged", "new")
               ELSE [tree EXCEPT ![w].rollback = tree[w].live, ![w].live = "none", ![w].staged = "new"]
    /\ pc' = "ws-install"
    /\ UNCHANGED <<fence, journalVars, move, restored, gw, gate, rdeaths, unsafe>>

WorkspaceInstall(ok) ==
    /\ Ready("ws-install")
    /\ LET w == Order[at] IN
       tree' = IF ok THEN [tree EXCEPT ![w].live = "new", ![w].staged = "none", ![w].rollback = "none"]
               ELSE [tree EXCEPT ![w].live = tree[w].rollback, ![w].staged = "none", ![w].rollback = "none"]
    /\ holder' = "none" /\ pc' = "idle"
    /\ UNCHANGED <<fence, journalVars, at, move, restored, outsideVars, unsafe>>

------------------------------------------------------------------------------
(* Deaths and the Gateway                                                    *)

\* A death, or an exception of the rollback itself: the locks and the list are gone; an append that was under way may leave part of a line.
RestoreDies ==
    /\ holder # "none"
    /\ rdeaths < MaxRstDeaths
    /\ rdeaths' = rdeaths + 1
    /\ torn' \in {torn, holder # "workspace"}
    /\ holder' = "none" /\ pc' = "idle" /\ move' = NoMove /\ restored' = {}
    /\ UNCHANGED <<tree, fence, jstate, intents, commits, at, gw, gate, begun, unsafe>>

\* run_gateway: the fence is read again under the instance lock, which restore_workspace holds too.
GatewayStarts ==
    /\ gw = "down" /\ ~fence /\ holder # "workspace"
    /\ gw' = "up"
    /\ UNCHANGED <<tree, fence, journalVars, holder, pc, at, move, restored, gate, begun, rdeaths, unsafe>>

GatewayStops ==
    /\ gw = "up"
    /\ gw' = "down"
    /\ gate' \in {gate, "quiesced"}
    /\ UNCHANGED <<tree, fence, journalVars, holder, pc, at, move, restored, begun, rdeaths, unsafe>>

GatewayResumes ==
    /\ gw = "up" /\ ~fence
    /\ gate \in {"quiesced", "restoring", "failed"}
    /\ gate' = "running"
    /\ UNCHANGED <<tree, fence, journalVars, holder, pc, at, move, restored, gw, begun, rdeaths, unsafe>>

------------------------------------------------------------------------------
RstInit ==
    /\ tree = [r \in Roots |-> [s \in Slots |-> IF s = "live" THEN "old" ELSE "none"]]
    /\ fence = FALSE /\ jstate = "none" /\ intents = {} /\ commits = {} /\ torn = FALSE
    /\ holder = "none" /\ pc = "idle" /\ at = 1 /\ move = NoMove
    /\ restored = {} /\ gw = "down" /\ gate = "running"
    /\ begun = 0 /\ rdeaths = 0 /\ unsafe = FALSE

RstNext ==
    \/ RenameIntent \/ RenameMove \/ RenameCommit
    \/ RestoreBegin \/ Extract \/ Rescue \/ MoveOld \/ MoveNew \/ NextRoot \/ ValidateArchive \/ Unfence
    \/ StepFails \/ Quarantine \/ RestoreOld \/ HomeRolledBack
    \/ OperatorRollback \/ OperatorRecover
    \/ \E i \in intents : ReconcileOne(i)
    \/ Reconciled
    \/ \E k \in DOMAIN Workspaces : WorkspaceBegin(Workspaces[k])
    \/ \E ok \in BOOLEAN : WorkspaceInstall(ok)
    \/ RestoreDies \/ GatewayStarts \/ GatewayStops \/ GatewayResumes

RstSpec == RstInit /\ [][RstNext]_rstVars

------------------------------------------------------------------------------
RstTypeOK ==
    /\ tree \in [Roots -> [Slots -> {"none", "old", "new"}]]
    /\ commits \subseteq intents
    /\ holder \in {"none", "restore", "recover", "rollback", "workspace"}
    /\ gw \in {"up", "down"}
    /\ gate \in {"running", "quiesced", "restoring", "failed"}

\* Until the journal says COMMITTED the old home is in its place or in the rollback directory: no
\* order of failures, deaths, recoveries and rollbacks loses it.
OldHomeKept ==
    (begun = 1 /\ jstate # "COMMITTED") =>
        \/ tree["home"].live = "old"
        \/ tree["home"].rollback = "old"

\* A Gateway that runs has a whole home under it, the old one or one whose restore was committed, and
\* nothing moves it while it runs.
GatewayHasHome ==
    gw = "up" => /\ ~fence
                 /\ tree["home"].live # "none"
                 /\ tree["home"].live = "new" /\ begun = 1 => jstate = "COMMITTED"

\* A restore that ended (no fence) took all of the home and its workspaces or none of them, unless a
\* death took the list of workspaces, or the list named one that had not moved yet.
AllOrNothing ==
    (begun = 1 /\ ~fence /\ holder = "none" /\ rdeaths = 0 /\ ~unsafe) =>
        \/ jstate = "COMMITTED" /\ \A r \in Roots : tree[r].live = "new"
        \/ jstate = "ROLLED_BACK" /\ \A r \in Roots : tree[r].live = "old"
        \/ jstate = "none"

\* A restore never leaves the operator without a home: neither while it is under way, nor under a
\* running Gateway, nor when it is over.
RestoreSound == RstTypeOK /\ OldHomeKept /\ GatewayHasHome /\ AllOrNothing
=============================================================================
