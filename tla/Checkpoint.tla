----------------------------- MODULE Checkpoint -----------------------------
(***************************************************************************)
(* The checkpoints of one Session (sandbox/checkpoint.py): a bare Git      *)
(* repository with a ref per restore point and per branch, an index file   *)
(* whose intent makes each mutation of several steps recoverable, and the  *)
(* workspace.  A Trace (sandbox/session.py, the write and edit tools)      *)
(* keeps the index in memory from its start to its end; the daily          *)
(* checkpoint Dream (sandbox/checkpoint_dream.py) opens the same index in  *)
(* a store of its own and merges archived branches.  Every operation holds *)
(* the workspace lock, which a death releases; between operations another  *)
(* Session or the user may change the workspace.                           *)
(***************************************************************************)
EXTENDS Integers, Sequences, FiniteSets, FiniteSetsExt

CONSTANTS
    CkFiles, CkValues,  \* the workspace: a value for each file
    CkLimit,            \* sandbox_checkpoint_limit
    MaxCommits, MaxBranches,  \* bounds of the graph
    MaxCkFaults,        \* bound: deaths and failing Git commands
    MaxOutside          \* bound: changes from outside the Session

ASSUME CkAssumption ==
    /\ {MaxCommits, MaxCkFaults, MaxOutside} \subseteq Nat
    /\ {MaxBranches, CkLimit} \subseteq Nat \ {0}
    /\ CkValues # {}

VARIABLES
    ckTree,     \* the files of the workspace
    ckGit,      \* commit objects, restore point refs, branch refs, pruned objects
    ckDisk,     \* index.json: empty, or <<index>>
    ckLive,     \* the index in the memory of the Trace, if one is open
    ckWork,     \* the operation that holds the workspace lock, if any
    ckFaults, ckOutside,
    ckRaced     \* history: the Dream rewrote the index under an open Trace

ckVars == <<ckTree, ckGit, ckDisk, ckLive, ckWork, ckFaults, ckOutside, ckRaced>>

CkTrees == [CkFiles -> CkValues]
Commits == 1 .. MaxCommits
BranchIds == 1 .. MaxBranches
TreeOf(c) == ckGit.objs[c].tree

(***************************************************************************)
(* The index (CheckpointState).  A commit is its number, 0 is none.        *)
(***************************************************************************)
NewBranch(head, fork) ==
    [status |-> "active", head |-> head, fork |-> fork,
     eligible |-> FALSE, merge |-> "none", gone |-> FALSE]

FreshIndex ==
    [recs |-> {}, points |-> {}, branches |-> <<NewBranch(0, 0)>>,
     active |-> 1, next |-> 1, pending |-> <<>>]

ActiveHead(ix) == ix.branches[ix.active].head
SetBranch(ix, b, br) == [ix EXCEPT !.branches[b] = br]
RecordedCommits(ix) == {r.commit : r \in ix.recs}
Visible(ix) == {r.commit : r \in {q \in ix.recs : q.seq \in ix.points}}

\* The least set with the commits cs that has with a commit what up says of it.
Reach(cs, up) ==
    {c \in DOMAIN up : \A s \in SUBSET DOMAIN up :
        cs \cap DOMAIN up \subseteq s /\ (\A x \in s : up[x] \cap DOMAIN up \subseteq s) => c \in s}

\* _active_lineage: the logical parents from the head of the active branch.
ParentOf(ix, c) == (CHOOSE r \in ix.recs : r.commit = c).parent
Lineage(ix) == Reach({ActiveHead(ix)}, [c \in RecordedCommits(ix) |-> {ParentOf(ix, c)}])

\* merge-base --is-ancestor, and what refs keep from `git prune`.
Ancestors(cs) == Reach(cs, [c \in DOMAIN ckGit.objs |-> ckGit.objs[c].parents])
Referenced(git) ==
    ({git.points[s] : s \in Commits} \cup {git.branches[b] : b \in BranchIds}) \ {0}

\* _trim_restore_points: the oldest restore points go, never the active head.
TrimRestorePoints(ix) ==
    LET keep  == {r.seq : r \in {q \in ix.recs : q.commit = ActiveHead(ix)}}
        spare == ix.points \ keep
        drop  == {s \in spare : Cardinality({u \in spare : u < s})
                                    < Cardinality(ix.points) - CkLimit}
    IN [ix EXCEPT !.points = @ \ drop]

\* A commit recorded once, with its restore point.
AddRecord(ix, p) ==
    IF p.target \in RecordedCommits(ix) THEN ix
    ELSE [ix EXCEPT !.recs = @ \cup {[seq |-> p.seq, commit |-> p.target, parent |-> p.old]},
                    !.points = @ \cup {p.seq},
                    !.next = IF @ > p.seq THEN @ ELSE p.seq + 1]

(***************************************************************************)
(* An operation: who runs it, the index it edits in memory, the tool it    *)
(* belongs to, its stage, whether it redoes an intent found on disk, and   *)
(* the branches the Dream has collected or still has to consider.          *)
(***************************************************************************)
Work(who, tool, ix, stage) ==
    [who |-> who, tool |-> tool, ix |-> ix, stage |-> stage, redo |-> FALSE, todo |-> {}]
Busy == ckWork # <<>>
W == ckWork[1]
P == W.ix.pending[1]

\* Leaving the lock: the Trace keeps its index in memory, the Dream drops its own.
Leaves(ix) ==
    /\ ckWork' = <<>>
    /\ ckLive' = IF W.who = "trace" THEN <<ix>> ELSE ckLive

\* The order of the steps once the intent is durable.
StageAfter(p, redo, stage) ==
    CASE p.kind = "create" ->
            [point |-> "branch", branch |-> "settle"][stage]
      [] p.kind = "rollback" ->
            [branch |-> "switch", switch |-> "restore", restore |-> "settle"][stage]
      [] p.kind = "merge" /\ ~redo ->
            [point |-> "branch", branch |-> "switch", switch |-> "restore", restore |-> "settle"][stage]
      [] p.kind = "merge" /\ redo ->
            [branch |-> "point", point |-> "switch", switch |-> "restore", restore |-> "settle"][stage]
FirstStage(p, redo) ==
    IF p.kind = "create" \/ (p.kind = "merge" /\ ~redo) THEN "point" ELSE "branch"

Advance(ix) == ckWork' = <<[W EXCEPT !.ix = ix, !.stage = StageAfter(P, W.redo, W.stage)]>>
WriteState(ix) ==
    /\ ckDisk' = <<ix>>
    /\ ckRaced' = (ckRaced \/ (W.who = "dream" /\ ckLive # <<>>))

\* Slip: restoring the workspace forgets the intent of the failed mutation.
RestoreCurrentForgets(ix) ==
    /\ ckTree' = TreeOf(ActiveHead(ix))
    /\ ckDisk' = <<[ix EXCEPT !.pending = <<>>]>>
    /\ UNCHANGED ckRaced

\* restore_current of a failed tool: the workspace becomes the active head again.
RestoreCurrent(ix) ==
    /\ ckTree' = IF ActiveHead(ix) = 0 THEN ckTree ELSE TreeOf(ActiveHead(ix))
    /\ ckDisk' = IF ActiveHead(ix) = 0 THEN ckDisk ELSE <<ix>>
    /\ UNCHANGED ckRaced

\* An exception: a tool restores the workspace, a starting Trace closes again,
\* a merge of the Dream is recorded as unknown, a rollback just raises.
Raises ==
    /\ CASE W.tool = "change" -> RestoreCurrent(W.ix) /\ Leaves(W.ix)
         [] W.tool = "start" ->
                ckWork' = <<>> /\ UNCHANGED <<ckTree, ckDisk, ckLive, ckRaced>>
         [] W.tool = "rollback" ->
                Leaves(W.ix) /\ UNCHANGED <<ckTree, ckDisk, ckRaced>>
         [] W.tool = "dream" /\ ~W.redo /\ W.ix.pending # <<>>
              /\ W.ix.branches[P.archived].status = "archived" ->
                /\ WriteState([W.ix EXCEPT !.branches[P.archived].merge = "unknown"])
                /\ ckWork' = <<>> /\ UNCHANGED <<ckTree, ckLive>>
         [] OTHER -> ckWork' = <<>> /\ UNCHANGED <<ckTree, ckDisk, ckLive, ckRaced>>
    /\ UNCHANGED ckGit

(***************************************************************************)
(* Opening a store (open, _recover_pending_mutation).                      *)
(***************************************************************************)
OpenedIndex == IF ckDisk = <<>> THEN FreshIndex ELSE ckDisk[1]
Opening(who, tool) ==
    /\ ~Busy
    /\ LET ix == OpenedIndex IN
        /\ ckDisk' = <<ix>>
        /\ ckWork' = <<[Work(who, tool, ix,
                             IF ix.pending = <<>> THEN "validate"
                             ELSE FirstStage(ix.pending[1], TRUE))
                        EXCEPT !.redo = ix.pending # <<>>]>>
    /\ UNCHANGED <<ckTree, ckGit, ckLive, ckFaults, ckOutside, ckRaced>>

\* start(): the Trace opens the Session's checkpoints.
TraceStart == ckLive = <<>> /\ Opening("trace", "start")
\* process_due(): a day after the idle check of the scheduler, whatever runs by now.
DreamStart == ckDisk # <<>> /\ Opening("dream", "dream")

\* _validate_refs: the objects exist and the branch refs are the recorded heads.
RefsValid(ix) ==
    /\ RecordedCommits(ix) \cap ckGit.pruned = {}
    /\ \A b \in DOMAIN ix.branches :
        ix.branches[b].head = 0 \/ ix.branches[b].gone
        \/ ckGit.branches[b] = ix.branches[b].head
\* _cleanup_evicted_restore_refs
CleanRestoreRefs(git, ix) ==
    [git EXCEPT !.points = [s \in Commits |-> IF s \in ix.points THEN @[s] ELSE 0]]

Validate ==
    /\ Busy /\ W.stage = "validate"
    /\ \/ /\ ~RefsValid(W.ix) /\ Raises
       \/ /\ RefsValid(W.ix)
          /\ ckGit' = CleanRestoreRefs(ckGit, W.ix)
          /\ ckWork' = <<[W EXCEPT !.stage = IF W.tool = "start" THEN "create" ELSE "collect",
                                   !.redo = FALSE]>>
          /\ UNCHANGED <<ckTree, ckDisk, ckLive, ckRaced>>
    /\ UNCHANGED <<ckFaults, ckOutside>>

\* workspace_matches_active
WorkspaceMatches(ix) == ActiveHead(ix) # 0 /\ TreeOf(ActiveHead(ix)) = ckTree

(***************************************************************************)
(* Tools of the Trace.                                                     *)
(***************************************************************************)
\* write, edit and bash change the workspace, then a checkpoint is created.
OneFileAway(t) == Cardinality({f \in CkFiles : t[f] # ckTree[f]}) = 1
ChangeFiles(t) ==
    /\ ~Busy /\ ckLive # <<>>
    /\ OneFileAway(t)
    /\ ckTree' = t
    /\ ckWork' = <<Work("trace", "change", ckLive[1], "create")>>
    /\ UNCHANGED <<ckGit, ckDisk, ckLive, ckFaults, ckOutside, ckRaced>>

Intent(kind, ix, target, seq, new, archived, eligible) ==
    [kind |-> kind, branch |-> ix.active, old |-> ActiveHead(ix), target |-> target,
     seq |-> seq, new |-> new, archived |-> archived, eligible |-> eligible]
NewCommit == Len(ckGit.objs) + 1
Committed(tree, parents) ==
    [ckGit EXCEPT !.objs = Append(@, [tree |-> tree, parents |-> parents \ {0}])]

\* create(): refused over an unfinished mutation, nothing for an unchanged tree.
Create ==
    /\ Busy /\ W.stage = "create"
    /\ LET ix == W.ix IN
        \/ ix.pending # <<>> /\ Raises
        \/ /\ ix.pending = <<>>
           /\ WorkspaceMatches(ix)
           /\ Leaves(ix)
           /\ UNCHANGED <<ckTree, ckGit, ckDisk, ckRaced>>
        \/ /\ ix.pending = <<>>
           /\ ~WorkspaceMatches(ix)
           /\ NewCommit \in Commits
           /\ ckGit' = Committed(ckTree, {ActiveHead(ix)})
           /\ LET with == [ix EXCEPT !.pending =
                        <<Intent("create", ix, NewCommit, ix.next, 0, 0, FALSE)>>] IN
                /\ WriteState(with)
                /\ ckWork' = <<[W EXCEPT !.ix = with, !.stage = "point"]>>
           /\ UNCHANGED <<ckTree, ckLive>>
    /\ UNCHANGED <<ckFaults, ckOutside>>

\* rollback(): to a visible restore point, or some steps back on the active branch.
Rollback(c, eligible) ==
    /\ ~Busy /\ ckLive # <<>>
    /\ LET ix == ckLive[1] new == Len(ix.branches) + 1 IN
        /\ ix.pending = <<>>
        /\ c \in (Visible(ix) \cup Lineage(ix)) \ {ActiveHead(ix)}
        /\ new \in BranchIds
        /\ LET with == [ix EXCEPT !.pending =
                    <<Intent("rollback", ix, c, 0, new, ix.active, eligible)>>] IN
            /\ ckDisk' = <<with>>
            /\ ckWork' = <<Work("trace", "rollback", with, "branch")>>
    /\ UNCHANGED <<ckTree, ckGit, ckLive, ckFaults, ckOutside, ckRaced>>

\* set_merge_eligibility: an explicit decision about an archived branch.
SetEligibility(b, eligible) ==
    /\ ~Busy /\ ckLive # <<>>
    /\ b \in DOMAIN ckLive[1].branches
    /\ ckLive[1].branches[b].status = "archived"
    /\ LET ix == [ckLive[1] EXCEPT !.branches[b].eligible = eligible,
                    !.branches[b].merge = IF eligible THEN "ready" ELSE "none"] IN
        ckLive' = <<ix>> /\ ckDisk' = <<ix>>
    /\ UNCHANGED <<ckTree, ckGit, ckWork, ckFaults, ckOutside, ckRaced>>

TraceEnd ==
    /\ ~Busy /\ ckLive # <<>>
    /\ ckLive' = <<>>
    /\ UNCHANGED <<ckTree, ckGit, ckDisk, ckWork, ckFaults, ckOutside, ckRaced>>

(***************************************************************************)
(* The steps of a mutation, and of its recovery.                           *)
(***************************************************************************)
\* The restore point ref: a merge in progress demands that it is new, a
\* recovered merge accepts whatever is there, a create its own commit.
PointRefOk ==
    LET actual == ckGit.points[P.seq] IN
    \/ actual = 0
    \/ P.kind = "create" /\ actual = P.target
    \/ P.kind = "merge" /\ W.redo
\* _finish_create proves that the workspace still is the tree of its intent.
StillIntended == P.kind # "create" \/ ckTree = TreeOf(P.target)

PointRef ==
    /\ Busy /\ W.stage = "point"
    /\ \/ /\ PointRefOk /\ StillIntended
          /\ ckGit' = IF ckGit.points[P.seq] = 0
                      THEN [ckGit EXCEPT !.points[P.seq] = P.target] ELSE ckGit
          /\ Advance(W.ix)
          /\ UNCHANGED <<ckTree, ckDisk, ckLive, ckRaced>>
       \/ /\ ~(PointRefOk /\ StillIntended)
          /\ Raises
    /\ UNCHANGED <<ckFaults, ckOutside>>

\* The branch ref, by compare-and-swap; a step already done is accepted on recovery.
MovedBranch == IF P.kind = "rollback" THEN P.new ELSE P.branch
BranchRefOk ==
    LET actual   == ckGit.branches[MovedBranch]
        expected == IF P.kind = "rollback" THEN 0 ELSE P.old
    IN actual = expected \/ ((W.redo \/ P.kind = "create") /\ actual = P.target)

BranchRef ==
    /\ Busy /\ W.stage = "branch"
    /\ \/ /\ BranchRefOk
          /\ ckGit' = [ckGit EXCEPT !.branches[MovedBranch] = P.target]
          /\ Advance(W.ix)
          /\ UNCHANGED <<ckTree, ckDisk, ckLive, ckRaced>>
       \/ ~BranchRefOk /\ Raises
    /\ UNCHANGED <<ckFaults, ckOutside>>

\* The index switches to the target; a recovered rollback that had not switched
\* archives the old branch with the default eligibility.
Archived(ix, p, eligible) ==
    [ix.branches[p.archived] EXCEPT !.status = "archived", !.fork = p.target,
        !.eligible = eligible, !.merge = IF eligible THEN "ready" ELSE "none"]
RolledBack(ix, p, eligible) ==
    [SetBranch(ix, p.archived, Archived(ix, p, eligible)) EXCEPT
        !.branches = Append(@, NewBranch(p.target, p.target)), !.active = p.new]
Switched(ix, p, redo) ==
    IF p.kind = "rollback"
    THEN IF ix.active = p.new THEN ix ELSE RolledBack(ix, p, redo \/ p.eligible)
    ELSE [AddRecord(ix, p) EXCEPT !.branches[p.branch].head = p.target]

SwitchIndex ==
    /\ Busy /\ W.stage = "switch"
    /\ LET ix == Switched(W.ix, P, W.redo) IN WriteState(ix) /\ Advance(ix)
    /\ UNCHANGED <<ckTree, ckGit, ckLive, ckFaults, ckOutside>>

\* Slip: recovery restores the target whatever the workspace holds.
RecoveredWorkspaceUnchecked == TRUE

\* _finish_recovered_workspace: only the old or the new tree may be replaced.
FinishRecoveredWorkspace == ckTree \in {TreeOf(P.old), TreeOf(P.target)}

RestoreFiles ==
    /\ Busy /\ W.stage = "restore"
    /\ \/ /\ ~W.redo \/ FinishRecoveredWorkspace
          /\ ckTree' = TreeOf(P.target)
          /\ Advance(W.ix)
          /\ UNCHANGED <<ckGit, ckDisk, ckLive, ckRaced>>
       \/ /\ W.redo /\ ~FinishRecoveredWorkspace
          /\ Raises
    /\ UNCHANGED <<ckFaults, ckOutside>>

\* The intent is cleared in the same write as its outcome.
Settled(ix, p) ==
    LET done == [ix EXCEPT !.pending = <<>>] IN
    CASE p.kind = "create" ->
            TrimRestorePoints([AddRecord(done, p) EXCEPT !.branches[p.branch].head = p.target])
      [] p.kind = "rollback" -> done
      [] p.kind = "merge" ->
            TrimRestorePoints([done EXCEPT !.branches[p.archived].status = "merged",
                                           !.branches[p.archived].merge = "none"])

\* What follows a mutation: the rest of the open, of the Dream's list, or nothing.
Continues(ix) ==
    IF W.redo \/ W.who = "dream"
    THEN /\ ckWork' = <<[W EXCEPT !.ix = ix, !.stage = IF W.redo THEN "validate" ELSE "assess"]>>
         /\ UNCHANGED ckLive
    ELSE Leaves(ix)

Settle ==
    /\ Busy /\ W.stage = "settle"
    /\ LET ix == Settled(W.ix, P) IN
        /\ WriteState(ix)
        /\ IF P.kind = "rollback" THEN Continues(ix)
           ELSE ckWork' = <<[W EXCEPT !.ix = ix, !.stage = "evict"]>> /\ UNCHANGED ckLive
    /\ UNCHANGED <<ckTree, ckGit, ckFaults, ckOutside>>

\* The refs of evicted restore points go after the index said so.
EvictRefs ==
    /\ Busy /\ W.stage = "evict"
    /\ LET gone == {r.seq : r \in W.ix.recs} \ W.ix.points IN
        ckGit' = [ckGit EXCEPT !.points = [s \in Commits |-> IF s \in gone THEN 0 ELSE @[s]]]
    /\ Continues(W.ix)
    /\ UNCHANGED <<ckTree, ckDisk, ckFaults, ckOutside, ckRaced>>

(***************************************************************************)
(* The checkpoint Dream.                                                   *)
(***************************************************************************)
\* collect_merged_branch_refs: due refs whose commits the active head contains.
Collectable(ix) ==
    {b \in DOMAIN ix.branches :
        /\ ix.branches[b].status = "merged" /\ ~ix.branches[b].gone
        /\ ix.branches[b].head \in Ancestors({ActiveHead(ix)})}
Pruned(git) ==
    [git EXCEPT !.pruned = (1 .. Len(git.objs)) \ Ancestors(Referenced(git))]

ReadyBranches(ix) ==
    {b \in DOMAIN ix.branches :
        ix.branches[b].status = "archived" /\ ix.branches[b].eligible
        /\ ix.branches[b].merge = "ready"}

\* Each due ref is deleted, with merge-base before it: what is gone is only in memory.
DeleteBranchRef(b) ==
    /\ Busy /\ W.stage = "collect"
    /\ b \in Collectable(W.ix) \ W.todo
    /\ ckGit' = [ckGit EXCEPT !.branches[b] = 0]
    /\ ckWork' = <<[W EXCEPT !.todo = @ \cup {b}]>>
    /\ UNCHANGED <<ckTree, ckDisk, ckLive, ckFaults, ckOutside, ckRaced>>

\* Then the index says so, in one write for all of them.
MarkGone(ix, due) ==
    [ix EXCEPT !.branches =
        [b \in DOMAIN @ |-> IF b \in due THEN [@[b] EXCEPT !.gone = TRUE] ELSE @[b]]]
CollectRefs ==
    /\ Busy /\ W.stage = "collect"
    /\ LET ix == MarkGone(W.ix, W.todo) IN
        IF W.todo = {}
        THEN /\ ckWork' = <<[W EXCEPT !.stage = "assess", !.todo = ReadyBranches(W.ix)]>>
             /\ UNCHANGED <<ckDisk, ckRaced>>
        ELSE /\ WriteState(ix)
             /\ ckWork' = <<[W EXCEPT !.ix = ix, !.stage = "prune", !.todo = {}]>>
    /\ UNCHANGED <<ckTree, ckGit, ckLive, ckFaults, ckOutside>>

Prune ==
    /\ Busy /\ W.stage = "prune"
    /\ ckGit' = Pruned(ckGit)
    /\ ckWork' = <<[W EXCEPT !.stage = "assess", !.todo = ReadyBranches(W.ix)]>>
    /\ UNCHANGED <<ckTree, ckDisk, ckLive, ckFaults, ckOutside, ckRaced>>

\* _merge_tree: git read-tree -m with the fork as base; no tree on a conflict.
MergeFile(base, ours, theirs, f) ==
    IF ours[f] = theirs[f] \/ base[f] = theirs[f] THEN {ours[f]}
    ELSE IF base[f] = ours[f] THEN {theirs[f]} ELSE {}
MergeTrees(base, ours, theirs) ==
    {t \in CkTrees : \A f \in CkFiles : t[f] \in MergeFile(base, ours, theirs, f)}

\* The next branch in the order of archiving, with the answer of the value model.
Assess(answer) ==
    /\ Busy /\ W.stage = "assess" /\ W.todo # {}
    /\ LET b    == Min(W.todo)
           ix   == W.ix
           br   == ix.branches[b]
           rest == W.todo \ {b}
           \* the branch's state is written and the list goes on, or ends
           marks(new, todo) ==
               /\ WriteState(SetBranch(ix, b, new))
               /\ ckWork' = <<[W EXCEPT !.ix = SetBranch(ix, b, new), !.todo = todo]>>
               /\ UNCHANGED ckGit
           merged == MergeTrees(TreeOf(br.fork), TreeOf(ActiveHead(ix)), TreeOf(br.head))
       IN CASE ~WorkspaceMatches(ix) \/ answer = "unavailable" ->
                   marks([br EXCEPT !.merge = "deferred"], rest)
            [] WorkspaceMatches(ix) /\ answer = "SKIP" ->
                   marks([br EXCEPT !.eligible = FALSE, !.merge = "none"], rest)
            [] WorkspaceMatches(ix) /\ (answer = "REVIEW" \/ (answer = "MERGE" /\ merged = {})) ->
                   marks([br EXCEPT !.merge = "blocked"], {})
            [] OTHER ->
                   /\ NewCommit \in Commits
                   /\ ckGit' = Committed(CHOOSE t \in merged : TRUE, {ActiveHead(ix), br.head})
                   /\ LET with == [ix EXCEPT !.pending =
                            <<Intent("merge", ix, NewCommit, ix.next, 0, b, TRUE)>>] IN
                        /\ WriteState(with)
                        /\ ckWork' = <<[W EXCEPT !.ix = with, !.todo = rest, !.stage = "point"]>>
    /\ UNCHANGED <<ckTree, ckLive, ckFaults, ckOutside>>

DreamEnds ==
    /\ Busy /\ W.stage = "assess" /\ W.todo = {}
    /\ ckWork' = <<>>
    /\ UNCHANGED <<ckTree, ckGit, ckDisk, ckLive, ckFaults, ckOutside, ckRaced>>

(***************************************************************************)
(* Faults and the rest of the world.                                       *)
(***************************************************************************)
GitFails ==
    /\ Busy /\ ckFaults < MaxCkFaults
    /\ W.stage # "assess"
    /\ ckFaults' = ckFaults + 1
    /\ Raises
    /\ UNCHANGED ckOutside

CkDies ==
    /\ ckFaults < MaxCkFaults
    /\ Busy
    /\ ckFaults' = ckFaults + 1
    /\ ckWork' = <<>> /\ ckLive' = <<>>
    /\ UNCHANGED <<ckTree, ckGit, ckDisk, ckOutside, ckRaced>>

\* Another Session, the web file manager or an editor.
OutsideChange(t) ==
    /\ ~Busy /\ ckOutside < MaxOutside
    /\ OneFileAway(t)
    /\ ckTree' = t
    /\ ckOutside' = ckOutside + 1
    /\ UNCHANGED <<ckGit, ckDisk, ckLive, ckWork, ckFaults, ckRaced>>

CkInit ==
    /\ ckTree = [f \in CkFiles |-> CHOOSE v \in CkValues : TRUE]
    /\ ckGit = [objs |-> <<>>, points |-> [s \in Commits |-> 0],
                branches |-> [b \in BranchIds |-> 0], pruned |-> {}]
    /\ ckDisk = <<>> /\ ckLive = <<>> /\ ckWork = <<>>
    /\ ckFaults = 0 /\ ckOutside = 0 /\ ckRaced = FALSE

CkNext ==
    \/ TraceStart \/ TraceEnd \/ Validate \/ Create
    \/ \E t \in CkTrees : ChangeFiles(t) \/ OutsideChange(t)
    \/ \E c \in Commits, e \in BOOLEAN : Rollback(c, e)
    \/ \E b \in BranchIds, e \in BOOLEAN : SetEligibility(b, e)
    \/ PointRef \/ BranchRef \/ SwitchIndex \/ RestoreFiles \/ Settle \/ EvictRefs
    \/ DreamStart \/ DreamEnds
    \/ \E b \in BranchIds : DeleteBranchRef(b)
    \/ CollectRefs \/ Prune
    \/ \E a \in {"MERGE", "SKIP", "REVIEW", "unavailable"} : Assess(a)
    \/ GitFails \/ CkDies

CkSpec == CkInit /\ [][CkNext]_ckVars

(***************************************************************************)
(* Properties.                                                             *)
(***************************************************************************)
CkTypeOK ==
    /\ ckTree \in CkTrees
    /\ Len(ckGit.objs) <= MaxCommits
    /\ ckGit.points \in [Commits -> 0 .. MaxCommits]
    /\ ckGit.branches \in [BranchIds -> 0 .. MaxCommits]
    /\ ckFaults \in 0 .. MaxCkFaults /\ ckOutside \in 0 .. MaxOutside

\* Whatever died or failed on the way, the next open() succeeds up to the
\* workspace: every recorded commit survives `git prune`, a branch ref is the
\* recorded head or a step of the pending intent (_validate_refs, _finish_create,
\* _recover_rollback, _recover_merge find no ref they cannot explain), every
\* visible restore point has its ref, and the index an open Trace holds is the
\* one on disk, unless the Dream rewrote it under the Trace.  With one exception
\* the README names: collect_merged_branch_refs deletes the refs before it writes
\* the index, so a death or a failed git step in between leaves a merged branch
\* without its ref, and _validate_refs refuses the store from then on.
RefExplained(ix, b) ==
    LET actual == ckGit.branches[b] IN
    \/ ix.branches[b].gone
    \/ actual = ix.branches[b].head
    \/ ix.pending # <<>> /\ ix.pending[1].branch = b /\ actual = ix.pending[1].target
CollectionCutShort(ix, b) ==
    ix.branches[b].status = "merged" /\ ckGit.branches[b] = 0
StoreReopens ==
    (ckDisk # <<>> /\ ~Busy /\ ~ckRaced) =>
        LET ix == ckDisk[1] IN
        /\ RecordedCommits(ix) \subseteq Ancestors(Referenced(ckGit)) \ ckGit.pruned
        /\ \A b \in DOMAIN ix.branches : RefExplained(ix, b) \/ CollectionCutShort(ix, b)
        /\ \A r \in ix.recs : r.seq \in ix.points => ckGit.points[r.seq] = r.commit
        /\ ckLive \in {<<>>, ckDisk}

\* The index, the shadow repository and the loaded store agree whenever nobody is at work.
CheckpointsSound == CkTypeOK /\ StoreReopens

\* The recovery of a mutation and the merge of the Dream replace the files of the
\* workspace only when they are those of a recorded checkpoint
\* (_finish_recovered_workspace, workspace_matches_active): work nobody
\* checkpointed is never overwritten by them.  (A rollback by the user is a
\* hard reset and may.)
UnrecordedWorkKept ==
    [][(Busy /\ W.stage = "restore" /\ ckTree' # ckTree /\ (W.redo \/ P.kind = "merge"))
        => \E c \in RecordedCommits(W.ix) : TreeOf(c) = ckTree]_ckVars
=============================================================================
