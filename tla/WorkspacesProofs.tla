-------------------------- MODULE WorkspacesProofs --------------------------
(***************************************************************************)
(* Proofs about what the Gateway does to workspaces: the workspace locks,  *)
(* for any number of coroutines and processes, LaTeX compilations, for any *)
(* number of jobs, the finalization of a Run, for any number of            *)
(* generations, retries, edits and deaths, the note vault, for any names,  *)
(* folders, bodies, edits and deaths, and the checkpoints of a Session,    *)
(* for any files, commits, branches, deaths and changes from outside.      *)
(***************************************************************************)
EXTENDS WorkspaceLocks, LatexCompilation, Finalization, NoteVault, Checkpoint,
        FiniteSetTheorems, SequenceTheorems, WellFoundedInduction, TLAPS

-----------------------------------------------------------------------------
(* Workspace locks: the inductive invariant. *)

LkPcs == { "idle", "enter", "asleep", "woken", "poll", "inside", "leave" }
LkModes == { "shared", "exclusive" }
LkKeys == LkProcs \X LkNames

\* Before its system lock: the earlier leases of the transaction are held.
Taking == { "enter", "asleep", "woken", "poll" }

LkTyped ==
    /\ lkOp \in [LkTasks -> LkTransactions \cup { << >> }]
    /\ lkAt \in [LkTasks -> Nat]
    /\ lkPc \in [LkTasks -> LkPcs]
    /\ lkReaders \in [LkKeys -> Int]
    /\ lkWriter \in [LkKeys -> BOOLEAN]
    /\ lkWaiting \in [LkKeys -> Int]
    /\ lkOs \in [LkNames -> SUBSET [task : LkTasks, mode : LkModes]]

\* A coroutine is at a lease of the transaction it is in.
LkPlaced ==
    \A t \in LkTasks :
        /\ lkPc[t] = "idle" => lkAt[t] = 0
        /\ lkPc[t] # "idle" => lkOp[t] \in LkTransactions /\ lkAt[t] <= Len(lkOp[t])
        /\ lkPc[t] \in Taking => lkAt[t] > 0
        /\ lkPc[t] = "inside" => lkAt[t] = Len(lkOp[t])

\* The system never grants conflicting locks.
LkCompatible ==
    \A l \in LkNames : \A h, g \in lkOs[l] : h.mode = "exclusive" => h = g

\* A coroutine on its way in keeps the leases it has; inside it has them all.
HoldsLease(t, i) == [task |-> t, mode |-> lkOp[t][i].mode] \in lkOs[lkOp[t][i].lock]
LkKept ==
    \A t \in LkTasks : \A i \in 1 .. lkAt[t] :
        (lkPc[t] \in Taking /\ i < lkAt[t]) \/ lkPc[t] = "inside" => HoldsLease(t, i)

\* Who is behind the counters of a local lock.
WaitsOn(t, k) == lkPc[t] \in { "asleep", "woken" } /\ Wanted(t).mode = "exclusive" /\ LocalOf(t) = k
Depth(t) == IF lkPc[t] \in { "enter", "asleep", "woken" } THEN lkAt[t] - 1 ELSE lkAt[t]
ReadsUnder(t, k) ==
    LkProc(t) = k[1] /\ \E i \in 1 .. Depth(t) : lkOp[t][i] = Lease(k[2], "shared")
Waiters(k) == {t \in LkTasks : WaitsOn(t, k)}
ReadersOf(k) == {t \in LkTasks : ReadsUnder(t, k)}

\* _waiting_writers and _readers count coroutines, whatever was cancelled or died.
WaitersCounted == \A k \in LkKeys : lkWaiting[k] = Cardinality(Waiters(k))
ReadersCounted == \A k \in LkKeys : lkReaders[k] = Cardinality(ReadersOf(k))

LkInv ==
    /\ LkTyped /\ LkPlaced /\ LkCompatible /\ LkKept
    /\ WaitersCounted /\ ReadersCounted /\ SleepsForAReason

-----------------------------------------------------------------------------
(* LaTeX compilations: the inductive invariant. *)

LxActive == { "queued", "running" }

\* Where execute() has found something, and where that is being written down.
LxSettling == { "settle", "record", "told" }
LxFound    == { "discard" } \cup LxSettling

\* Where the driver is fixes what it has written so far.
LxDriven(c) ==
    /\ lxPc[c] \in { "none", "prepared" } =>
           lxRun[c] = "none" /\ lxAttempt[c] = "none" /\ lxRecord[c] = "none"
    /\ lxPc[c] \in LxFound \cup { "begun", "started", "recording", "spawned", "compile", "lost" } =>
           lxRun[c] = "running"
    /\ lxPc[c] = "begun" => lxAttempt[c] = "none" /\ lxRecord[c] = "none"
    /\ lxPc[c] = "started" => lxAttempt[c] = "running" /\ lxRecord[c] = "none"
    /\ lxPc[c] \in { "recording", "spawned", "compile", "discard", "settle", "lost" } =>
           lxAttempt[c] = "running"
    /\ lxPc[c] \in { "recording", "spawned", "compile", "discard", "settle", "record", "lost" } =>
           lxRecord[c] \in LxActive
    /\ lxPc[c] = "refuse" =>
           /\ lxRun[c] \in { "none", "running" }
           /\ lxRecord[c] = "none" \/ (lxRecord[c] \in LxActive /\ lxUntold[c])
    /\ lxPc[c] = "finish" => lxRun[c] = "finalizing" /\ (lxUntold[c] \/ lxRecord[c] \notin LxActive)

\* What execute() found, and how far it is written down.
LxSettled(c) ==
    /\ lxPc[c] \in LxFound => lxEnd[c] \notin { "none", "refused", "unstarted" }
    /\ lxPc[c] \in LxFound /\ lxEnd[c] = "completed" => "pdf" \in lxFiles[c]
    /\ lxPc[c] \in LxFound /\ lxEnd[c] = "failed" => "pdf" \notin lxFiles[c]
    /\ lxPc[c] \notin { "told", "finish", "over" } => ~lxRoot[c]
    /\ lxPc[c] \in { "record", "told" } => lxAttempt[c] = Outcome(lxEnd[c]).attempt
    /\ lxPc[c] = "told" => lxRecord[c] = Outcome(lxEnd[c]).record

\* What a record says is where the Run is going, and the other way round.
LxRecorded(c) ==
    /\ lxRecord[c] = "completed" =>
           /\ lxAttempt[c] = "completed" /\ lxRoot[c] /\ "pdf" \in lxFiles[c]
           /\ lxRun[c] \notin { "failed", "cancelled" }
           /\ lxRun[c] = "finalizing" => lxTarget[c] = "succeeded"
    /\ lxRecord[c] = "cancelled" =>
           /\ lxAttempt[c] = "abandoned"
           /\ lxRun[c] \notin { "succeeded", "failed" }
           /\ lxRun[c] = "finalizing" => lxTarget[c] = "cancelled"
    /\ lxRun[c] = "finalizing" =>
           lxTarget[c] # "none" /\ (lxTarget[c] = "succeeded" => lxRecord[c] = "completed")
    /\ lxRun[c] = "succeeded" => lxRecord[c] = "completed"
    /\ lxRoot[c] /\ "pdf" \in lxFiles[c] => lxRecord[c] = "completed"

\* What a driver that ended leaves behind.
LxLeft(c) ==
    /\ lxUp /\ lxPc[c] = "over" => lxUntold[c] \/ lxRecord[c] \notin LxActive
    /\ lxPc[c] \in LxSettling => ~lxStage[c] \/ lxEnd[c] \in { "unclean", "cut" }
    /\ lxPc[c] \in { "finish", "over" } /\ lxDeaths = 0 =>
           ~lxStage[c] \/ lxEnd[c] \in { "unclean", "cut", "unstarted" }

LxCounts == lxDeaths \in Nat /\ (~lxUp => lxDeaths > 0)

LxInv ==
    /\ LxTypeOK /\ LxCounts
    /\ \A c \in LxJobs : LxDriven(c) /\ LxSettled(c) /\ LxRecorded(c) /\ LxLeft(c)

-----------------------------------------------------------------------------
(* Finalization: the inductive invariant. *)

\* The steps of a pass that come after the Memory evidence.
PastMemory == { "session_index", "audit", "inbox", "terminal" }
InPass == PastMemory \cup { "generation", "memory", "invalidate", "park" }

MemoryFresh ==
    \E v \in fzSeen \ {0} : OpOf("memory").ev = << v >>

FzTyped ==
    /\ fzGen \in Nat /\ fzGen <= MaxFzGens /\ fzSpent \subseteq Nat
    /\ DOMAIN fzOp = Generation
    /\ \A g \in Generation : DOMAIN fzOp[g] = Steps

\* A pass sees the records that are there, and the evidence it carries on is
\* one it has seen.
FzFresh ==
    /\ fzPc \in InPass => fzRecs \in fzSeen
    /\ fzPc \in PastMemory \cup { "memory" } => fzGen > 0
    /\ fzSession /\ fzPc \in PastMemory => MemoryFresh
    /\ fzTask = "done" => fzPc = "idle" /\ fzGen > 0
    /\ fzSession /\ fzTask = "done" => MemoryFresh

\* The commands of a generation's recovery are used up only when the Run moves
\* on to the next generation, and a Run is parked with an invalid one.
FzRecoverable ==
    /\ \A g \in fzSpent : g <= fzGen
    /\ fzTask = "recovering" => fzPc \in { "recovering", "down" }
    /\ fzPc = "recovering" => fzTask = "recovering"
    /\ fzPc \in InPass \cup { "called", "replace" } => fzTask = "finalizing"
    /\ fzPc \in { "recovering", "replace" } => fzGen < MaxFzGens
    /\ fzPc = "park" => fzGen \in fzInvalid
    /\ ~fzCut =>
         /\ fzTask = "recovery_required" => fzGen \in fzInvalid
         /\ fzPc \in { "recovering", "replace" } => fzGen \in fzInvalid
         /\ fzPc \notin { "recovering", "replace" } => fzGen \notin fzSpent
         /\ fzTask = "recovering" => fzPc = "recovering"

FzInv == FzTyped /\ FzFresh /\ FzRecoverable

-----------------------------------------------------------------------------
(* LaTeX compilations: every action keeps the invariant. *)

LEMMA PrepareStagingKeeps ==
  ASSUME LxInv, NEW c \in LxJobs, PrepareStaging(c)
  PROVE  LxInv'
<1> USE DEF LxInv, LxTypeOK, LxCounts, LxPcs, LxEnds, LxActive, LxFound, LxSettling, At, Goes, RecordIs,
        BeginFinish, WorkspaceEvent, lxFacts, lxDisk, lxHistory, lxStream, lxBounds
<1>1. LxTypeOK' /\ LxCounts'
  BY DEF PrepareStaging
<1>2. ASSUME NEW d \in LxJobs PROVE LxDriven(d)' /\ LxSettled(d)' /\ LxRecorded(d)' /\ LxLeft(d)'
  <2>1. LxDriven(d)'
    BY <1>2 DEF PrepareStaging, LxDriven, LxSettled
  <2>2. LxSettled(d)'
    BY <1>2 DEF PrepareStaging, LxDriven, LxSettled, Outcome
  <2>3. LxRecorded(d)'
    BY <1>2 DEF PrepareStaging, LxDriven, LxSettled, LxRecorded, Outcome
  <2>4. LxLeft(d)'
    BY <1>2 DEF PrepareStaging, LxDriven, LxSettled, LxLeft
  <2> QED
    BY <2>1, <2>2, <2>3, <2>4
<1> QED
  BY <1>1, <1>2

LEMMA BeginWorkloadRunKeeps ==
  ASSUME LxInv, NEW c \in LxJobs, BeginWorkloadRun(c)
  PROVE  LxInv'
<1> USE DEF LxInv, LxTypeOK, LxCounts, LxPcs, LxEnds, LxActive, LxFound, LxSettling, At, Goes, RecordIs,
        BeginFinish, WorkspaceEvent, lxFacts, lxDisk, lxHistory, lxStream, lxBounds
<1>1. LxTypeOK' /\ LxCounts'
  BY DEF BeginWorkloadRun
<1>2. ASSUME NEW d \in LxJobs PROVE LxDriven(d)' /\ LxSettled(d)' /\ LxRecorded(d)' /\ LxLeft(d)'
  <2>1. LxDriven(d)'
    BY <1>2 DEF BeginWorkloadRun, LxDriven, LxSettled
  <2>2. LxSettled(d)'
    BY <1>2 DEF BeginWorkloadRun, LxDriven, LxSettled, Outcome
  <2>3. LxRecorded(d)'
    BY <1>2 DEF BeginWorkloadRun, LxDriven, LxSettled, LxRecorded, Outcome
  <2>4. LxLeft(d)'
    BY <1>2 DEF BeginWorkloadRun, LxDriven, LxSettled, LxLeft
  <2> QED
    BY <2>1, <2>2, <2>3, <2>4
<1> QED
  BY <1>1, <1>2

LEMMA StartAttemptKeeps ==
  ASSUME LxInv, NEW c \in LxJobs, StartAttempt(c)
  PROVE  LxInv'
<1> USE DEF LxInv, LxTypeOK, LxCounts, LxPcs, LxEnds, LxActive, LxFound, LxSettling, At, Goes, RecordIs,
        BeginFinish, WorkspaceEvent, lxFacts, lxDisk, lxHistory, lxStream, lxBounds
<1>1. LxTypeOK' /\ LxCounts'
  BY DEF StartAttempt
<1>2. ASSUME NEW d \in LxJobs PROVE LxDriven(d)' /\ LxSettled(d)' /\ LxRecorded(d)' /\ LxLeft(d)'
  <2>1. LxDriven(d)'
    BY <1>2 DEF StartAttempt, LxDriven, LxSettled
  <2>2. LxSettled(d)'
    BY <1>2 DEF StartAttempt, LxDriven, LxSettled, Outcome
  <2>3. LxRecorded(d)'
    BY <1>2 DEF StartAttempt, LxDriven, LxSettled, LxRecorded, Outcome
  <2>4. LxLeft(d)'
    BY <1>2 DEF StartAttempt, LxDriven, LxSettled, LxLeft
  <2> QED
    BY <2>1, <2>2, <2>3, <2>4
<1> QED
  BY <1>1, <1>2

LEMMA CreateRecordKeeps ==
  ASSUME LxInv, NEW c \in LxJobs, CreateRecord(c)
  PROVE  LxInv'
<1> USE DEF LxInv, LxTypeOK, LxCounts, LxPcs, LxEnds, LxActive, LxFound, LxSettling, At, Goes, RecordIs,
        BeginFinish, WorkspaceEvent, lxFacts, lxDisk, lxHistory, lxStream, lxBounds
<1>1. LxTypeOK' /\ LxCounts'
  BY DEF CreateRecord
<1>2. ASSUME NEW d \in LxJobs PROVE LxDriven(d)' /\ LxSettled(d)' /\ LxRecorded(d)' /\ LxLeft(d)'
  <2>1. LxDriven(d)'
    BY <1>2 DEF CreateRecord, LxDriven, LxSettled
  <2>2. LxSettled(d)'
    BY <1>2 DEF CreateRecord, LxDriven, LxSettled, Outcome
  <2>3. LxRecorded(d)'
    BY <1>2 DEF CreateRecord, LxDriven, LxSettled, LxRecorded, Outcome
  <2>4. LxLeft(d)'
    BY <1>2 DEF CreateRecord, LxDriven, LxSettled, LxLeft
  <2> QED
    BY <2>1, <2>2, <2>3, <2>4
<1> QED
  BY <1>1, <1>2

LEMMA AnnounceKeeps ==
  ASSUME LxInv, NEW c \in LxJobs, Announce(c)
  PROVE  LxInv'
<1> USE DEF LxInv, LxTypeOK, LxCounts, LxPcs, LxEnds, LxActive, LxFound, LxSettling, At, Goes, RecordIs,
        BeginFinish, WorkspaceEvent, lxFacts, lxDisk, lxHistory, lxStream, lxBounds
<1>1. LxTypeOK' /\ LxCounts'
  BY DEF Announce
<1>2. ASSUME NEW d \in LxJobs PROVE LxDriven(d)' /\ LxSettled(d)' /\ LxRecorded(d)' /\ LxLeft(d)'
  <2>1. LxDriven(d)'
    BY <1>2 DEF Announce, LxDriven, LxSettled
  <2>2. LxSettled(d)'
    BY <1>2 DEF Announce, LxDriven, LxSettled, Outcome
  <2>3. LxRecorded(d)'
    BY <1>2 DEF Announce, LxDriven, LxSettled, LxRecorded, Outcome
  <2>4. LxLeft(d)'
    BY <1>2 DEF Announce, LxDriven, LxSettled, LxLeft
  <2> QED
    BY <2>1, <2>2, <2>3, <2>4
<1> QED
  BY <1>1, <1>2

LEMMA RequestFailsKeeps ==
  ASSUME LxInv, NEW c \in LxJobs, RequestFails(c)
  PROVE  LxInv'
<1> USE DEF LxInv, LxTypeOK, LxCounts, LxPcs, LxEnds, LxActive, LxFound, LxSettling, At, Goes, RecordIs,
        BeginFinish, WorkspaceEvent, lxFacts, lxDisk, lxHistory, lxStream, lxBounds
<1>1. LxTypeOK' /\ LxCounts'
  <2>1. /\ lxPc' = [lxPc EXCEPT ![c] = "refuse"] /\ lxDeaths' = lxDeaths
        /\ UNCHANGED << lxFacts, lxEnd, lxStream, lxUp >>
        /\ lxUntold' = lxUntold \/ lxUntold' = [lxUntold EXCEPT ![c] = TRUE]
    BY ZenonT(30) DEF RequestFails, Fault, Untold
  <2>2. lxPc' \in [LxJobs -> LxPcs] /\ lxUntold' \in [LxJobs -> BOOLEAN]
    <3>1. lxPc' \in [LxJobs -> LxPcs]
      BY ONLY <2>1, lxPc \in [LxJobs -> LxPcs] DEF LxPcs
    <3>2. lxUntold' \in [LxJobs -> BOOLEAN]
      BY ONLY <2>1, lxUntold \in [LxJobs -> BOOLEAN]
    <3> QED
      BY <3>1, <3>2
  <2> QED
    BY <2>1, <2>2
<1>2. ASSUME NEW d \in LxJobs PROVE LxDriven(d)' /\ LxSettled(d)' /\ LxRecorded(d)' /\ LxLeft(d)'
  <2>1. LxDriven(d)'
    <3>1. /\ lxPc' = [lxPc EXCEPT ![c] = "refuse"]
          /\ lxPc[c] \in { "prepared", "begun", "started", "recording" }
          /\ UNCHANGED << lxRun, lxAttempt, lxRecord >> /\ lxUntold' \in [LxJobs -> BOOLEAN]
          /\ lxPc[c] = "recording" => lxUntold'[c]
          /\ d # c => lxUntold'[d] = lxUntold[d]
      <4>1. /\ lxPc' = [lxPc EXCEPT ![c] = "refuse"]
            /\ \E pc \in { "prepared", "begun", "started", "recording" } : lxPc[c] = pc
            /\ UNCHANGED << lxRun, lxAttempt, lxRecord >>
            /\ lxUntold' = IF lxPc[c] = "recording" THEN [lxUntold EXCEPT ![c] = TRUE] ELSE lxUntold
        BY ZenonT(30) DEF RequestFails, Fault, Untold
      <4> QED
        BY <4>1
    <3>2. CASE d = c
      <4>1. /\ lxRun[c] \in { "none", "running" }
            /\ lxRecord[c] = "none" \/ (lxRecord[c] \in LxActive /\ lxPc[c] = "recording")
        BY <3>1 DEF LxDriven
      <4> QED
        BY <3>1, <3>2, <4>1 DEF LxDriven
    <3>3. CASE d # c
      BY <3>1, <3>3, <1>2 DEF LxDriven
    <3> QED
      BY <3>2, <3>3
  <2>2. LxSettled(d)'
    BY <1>2 DEF RequestFails, Fault, Untold, LxDriven, LxSettled, Outcome
  <2>3. LxRecorded(d)'
    BY <1>2 DEF RequestFails, Fault, Untold, LxDriven, LxSettled, LxRecorded, Outcome
  <2>4. LxLeft(d)'
    BY <1>2 DEF RequestFails, Fault, Untold, LxDriven, LxSettled, LxLeft
  <2> QED
    BY <2>1, <2>2, <2>3, <2>4
<1> QED
  BY <1>1, <1>2

LEMMA RequestEndsKeeps ==
  ASSUME LxInv, NEW c \in LxJobs, RequestEnds(c)
  PROVE  LxInv'
<1> USE DEF LxInv, LxTypeOK, LxCounts, LxPcs, LxEnds, LxActive, LxFound, LxSettling, At, Goes, RecordIs,
        BeginFinish, WorkspaceEvent, lxFacts, lxDisk, lxHistory, lxStream, lxBounds
<1>1. LxTypeOK' /\ LxCounts'
  BY DEF RequestEnds, Ends, Unstaged
<1>2. ASSUME NEW d \in LxJobs PROVE LxDriven(d)' /\ LxSettled(d)' /\ LxRecorded(d)' /\ LxLeft(d)'
  <2>1. LxDriven(d)'
    BY <1>2 DEF RequestEnds, Ends, Unstaged, LxDriven, LxSettled
  <2>2. LxSettled(d)'
    BY <1>2 DEF RequestEnds, Ends, Unstaged, LxDriven, LxSettled, Outcome
  <2>3. LxRecorded(d)'
    BY <1>2 DEF RequestEnds, Ends, Unstaged, LxDriven, LxSettled, LxRecorded, Outcome
  <2>4. LxLeft(d)'
    BY <1>2 DEF RequestEnds, Ends, Unstaged, LxDriven, LxSettled, LxLeft
  <2> QED
    BY <2>1, <2>2, <2>3, <2>4
<1> QED
  BY <1>1, <1>2

LEMMA RequestDiscardFailsKeeps ==
  ASSUME LxInv, NEW c \in LxJobs, RequestDiscardFails(c)
  PROVE  LxInv'
<1> USE DEF LxInv, LxTypeOK, LxCounts, LxPcs, LxEnds, LxActive, LxFound, LxSettling, At, Goes, RecordIs,
        BeginFinish, WorkspaceEvent, lxFacts, lxDisk, lxHistory, lxStream, lxBounds
<1>1. LxTypeOK' /\ LxCounts'
  BY DEF RequestDiscardFails, Fault, Ends
<1>2. ASSUME NEW d \in LxJobs PROVE LxDriven(d)' /\ LxSettled(d)' /\ LxRecorded(d)' /\ LxLeft(d)'
  <2>1. LxDriven(d)'
    BY <1>2 DEF RequestDiscardFails, Fault, Ends, LxDriven, LxSettled
  <2>2. LxSettled(d)'
    BY <1>2 DEF RequestDiscardFails, Fault, Ends, LxDriven, LxSettled, Outcome
  <2>3. LxRecorded(d)'
    BY <1>2 DEF RequestDiscardFails, Fault, Ends, LxDriven, LxSettled, LxRecorded, Outcome
  <2>4. LxLeft(d)'
    BY <1>2 DEF RequestDiscardFails, Fault, Ends, LxDriven, LxSettled, LxLeft
  <2> QED
    BY <2>1, <2>2, <2>3, <2>4
<1> QED
  BY <1>1, <1>2

LEMMA TaskStartsKeeps ==
  ASSUME LxInv, NEW c \in LxJobs, TaskStarts(c)
  PROVE  LxInv'
<1> USE DEF LxInv, LxTypeOK, LxCounts, LxPcs, LxEnds, LxActive, LxFound, LxSettling, At, Goes, RecordIs,
        BeginFinish, WorkspaceEvent, lxFacts, lxDisk, lxHistory, lxStream, lxBounds
<1>1. LxTypeOK' /\ LxCounts'
  BY DEF TaskStarts
<1>2. ASSUME NEW d \in LxJobs PROVE LxDriven(d)' /\ LxSettled(d)' /\ LxRecorded(d)' /\ LxLeft(d)'
  <2>1. LxDriven(d)'
    BY <1>2 DEF TaskStarts, LxDriven, LxSettled
  <2>2. LxSettled(d)'
    BY <1>2 DEF TaskStarts, LxDriven, LxSettled, Outcome
  <2>3. LxRecorded(d)'
    BY <1>2 DEF TaskStarts, LxDriven, LxSettled, LxRecorded, Outcome
  <2>4. LxLeft(d)'
    BY <1>2 DEF TaskStarts, LxDriven, LxSettled, LxLeft
  <2> QED
    BY <2>1, <2>2, <2>3, <2>4
<1> QED
  BY <1>1, <1>2

LEMMA FoundKeeps ==
  ASSUME LxInv, NEW c \in LxJobs, At(c, "compile"),
         NEW files \in SUBSET { "log", "pdf" },
         NEW end \in { "completed", "failed", "raised", "cancelled" }, Found(c, files, end),
         end = "completed" => "pdf" \in files, end = "failed" => "pdf" \notin files
  PROVE  LxInv'
<1> USE DEF LxInv, LxTypeOK, LxCounts, LxPcs, LxEnds, LxActive, LxFound, LxSettling, At, Goes, RecordIs,
        BeginFinish, WorkspaceEvent, lxFacts, lxDisk, lxHistory, lxStream, lxBounds
<1>1. LxTypeOK' /\ LxCounts'
  BY DEF Found, Ends
<1>2. ASSUME NEW d \in LxJobs PROVE LxDriven(d)' /\ LxSettled(d)' /\ LxRecorded(d)' /\ LxLeft(d)'
  <2>1. LxDriven(d)'
    BY <1>2 DEF Found, Ends, LxDriven, LxSettled
  <2>2. LxSettled(d)'
    BY <1>2 DEF Found, Ends, LxDriven, LxSettled, Outcome
  <2>3. LxRecorded(d)'
    BY <1>2 DEF Found, Ends, LxDriven, LxSettled, LxRecorded, Outcome
  <2>4. LxLeft(d)'
    BY <1>2 DEF Found, Ends, LxDriven, LxSettled, LxLeft
  <2> QED
    BY <2>1, <2>2, <2>3, <2>4
<1> QED
  BY <1>1, <1>2

LEMMA ExecuteKeeps ==
  ASSUME LxInv, NEW c \in LxJobs, Execute(c)
  PROVE  LxInv'
BY FoundKeeps DEF Execute

LEMMA CompilationFailsKeeps ==
  ASSUME LxInv, NEW c \in LxJobs, CompilationFails(c)
  PROVE  LxInv'
<1>1. CASE At(c, "compile") /\ Found(c, {"log"}, "failed")
  BY <1>1, FoundKeeps
<1>2. CASE At(c, "compile") /\ Found(c, {"pdf"}, "raised")
  BY <1>2, FoundKeeps
<1> QED
  BY <1>1, <1>2 DEF CompilationFails

LEMMA CancelCompilingKeeps ==
  ASSUME LxInv, NEW c \in LxJobs, CancelCompiling(c)
  PROVE  LxInv'
BY FoundKeeps DEF CancelCompiling

LEMMA DiscardedKeeps ==
  ASSUME LxInv, NEW c \in LxJobs, Discarded(c)
  PROVE  LxInv'
<1> USE DEF LxInv, LxTypeOK, LxCounts, LxPcs, LxEnds, LxActive, LxFound, LxSettling, At, Goes, RecordIs,
        BeginFinish, WorkspaceEvent, lxFacts, lxDisk, lxHistory, lxStream, lxBounds
<1>1. LxTypeOK' /\ LxCounts'
  BY DEF Discarded, Unstaged
<1>2. ASSUME NEW d \in LxJobs PROVE LxDriven(d)' /\ LxSettled(d)' /\ LxRecorded(d)' /\ LxLeft(d)'
  <2>1. LxDriven(d)'
    BY <1>2 DEF Discarded, Unstaged, LxDriven, LxSettled
  <2>2. LxSettled(d)'
    BY <1>2 DEF Discarded, Unstaged, LxDriven, LxSettled, Outcome
  <2>3. LxRecorded(d)'
    BY <1>2 DEF Discarded, Unstaged, LxDriven, LxSettled, LxRecorded, Outcome
  <2>4. LxLeft(d)'
    BY <1>2 DEF Discarded, Unstaged, LxDriven, LxSettled, LxLeft
  <2> QED
    BY <2>1, <2>2, <2>3, <2>4
<1> QED
  BY <1>1, <1>2

LEMMA DiscardRaisesKeeps ==
  ASSUME LxInv, NEW c \in LxJobs, DiscardRaises(c)
  PROVE  LxInv'
<1> USE DEF LxInv, LxTypeOK, LxCounts, LxPcs, LxEnds, LxActive, LxFound, LxSettling, At, Goes, RecordIs,
        BeginFinish, WorkspaceEvent, lxFacts, lxDisk, lxHistory, lxStream, lxBounds
<1>1. LxTypeOK' /\ LxCounts'
  BY DEF DiscardRaises, Fault, Ends
<1>2. ASSUME NEW d \in LxJobs PROVE LxDriven(d)' /\ LxSettled(d)' /\ LxRecorded(d)' /\ LxLeft(d)'
  <2>1. LxDriven(d)'
    BY <1>2 DEF DiscardRaises, Fault, Ends, LxDriven, LxSettled
  <2>2. LxSettled(d)'
    BY <1>2 DEF DiscardRaises, Fault, Ends, LxDriven, LxSettled, Outcome
  <2>3. LxRecorded(d)'
    BY <1>2 DEF DiscardRaises, Fault, Ends, LxDriven, LxSettled, LxRecorded, Outcome
  <2>4. LxLeft(d)'
    BY <1>2 DEF DiscardRaises, Fault, Ends, LxDriven, LxSettled, LxLeft
  <2> QED
    BY <2>1, <2>2, <2>3, <2>4
<1> QED
  BY <1>1, <1>2

LEMMA DiscardCutKeeps ==
  ASSUME LxInv, NEW c \in LxJobs, DiscardCut(c)
  PROVE  LxInv'
<1> USE DEF LxInv, LxTypeOK, LxCounts, LxPcs, LxEnds, LxActive, LxFound, LxSettling, At, Goes, RecordIs,
        BeginFinish, WorkspaceEvent, lxFacts, lxDisk, lxHistory, lxStream, lxBounds
<1>1. LxTypeOK' /\ LxCounts'
  BY DEF DiscardCut, Ends
<1>2. ASSUME NEW d \in LxJobs PROVE LxDriven(d)' /\ LxSettled(d)' /\ LxRecorded(d)' /\ LxLeft(d)'
  <2>1. LxDriven(d)'
    BY <1>2 DEF DiscardCut, Ends, LxDriven, LxSettled
  <2>2. LxSettled(d)'
    BY <1>2 DEF DiscardCut, Ends, LxDriven, LxSettled, Outcome
  <2>3. LxRecorded(d)'
    BY <1>2 DEF DiscardCut, Ends, LxDriven, LxSettled, LxRecorded, Outcome
  <2>4. LxLeft(d)'
    BY <1>2 DEF DiscardCut, Ends, LxDriven, LxSettled, LxLeft
  <2> QED
    BY <2>1, <2>2, <2>3, <2>4
<1> QED
  BY <1>1, <1>2

LEMMA SettleAttemptKeeps ==
  ASSUME LxInv, NEW c \in LxJobs, SettleAttempt(c)
  PROVE  LxInv'
<1> USE DEF LxInv, LxTypeOK, LxCounts, LxPcs, LxEnds, LxActive, LxFound, LxSettling, At, Goes, RecordIs,
        BeginFinish, WorkspaceEvent, lxFacts, lxDisk, lxHistory, lxStream, lxBounds
<1>1. LxTypeOK' /\ LxCounts'
  BY DEF SettleAttempt, Outcome
<1>2. ASSUME NEW d \in LxJobs PROVE LxDriven(d)' /\ LxSettled(d)' /\ LxRecorded(d)' /\ LxLeft(d)'
  <2>1. LxDriven(d)'
    BY <1>2 DEF SettleAttempt, Outcome, LxDriven, LxSettled
  <2>2. LxSettled(d)'
    BY <1>2 DEF SettleAttempt, Outcome, LxDriven, LxSettled, Outcome
  <2>3. LxRecorded(d)'
    BY <1>2 DEF SettleAttempt, Outcome, LxDriven, LxSettled, LxRecorded, Outcome
  <2>4. LxLeft(d)'
    BY <1>2 DEF SettleAttempt, Outcome, LxDriven, LxSettled, LxLeft
  <2> QED
    BY <2>1, <2>2, <2>3, <2>4
<1> QED
  BY <1>1, <1>2

LEMMA SettleRecordKeeps ==
  ASSUME LxInv, NEW c \in LxJobs, SettleRecord(c)
  PROVE  LxInv'
<1> USE DEF LxInv, LxTypeOK, LxCounts, LxPcs, LxEnds, LxActive, LxFound, LxSettling, At, Goes, RecordIs,
        BeginFinish, WorkspaceEvent, lxFacts, lxDisk, lxHistory, lxStream, lxBounds
<1>1. LxTypeOK' /\ LxCounts'
  BY DEF SettleRecord, Outcome
<1>2. ASSUME NEW d \in LxJobs PROVE LxDriven(d)' /\ LxSettled(d)' /\ LxRecorded(d)' /\ LxLeft(d)'
  <2>1. LxDriven(d)'
    BY <1>2 DEF SettleRecord, Outcome, LxDriven, LxSettled
  <2>2. LxSettled(d)'
    BY <1>2 DEF SettleRecord, Outcome, LxDriven, LxSettled, Outcome
  <2>3. LxRecorded(d)'
    <3>1. CASE d # c
      BY <1>2, <3>1 DEF SettleRecord, LxRecorded
    <3>2. CASE d = c
      BY <3>2 DEF SettleRecord, LxDriven, LxSettled, LxRecorded, Outcome
    <3> QED
      BY <3>1, <3>2
  <2>4. LxLeft(d)'
    BY <1>2 DEF SettleRecord, Outcome, LxDriven, LxSettled, LxLeft
  <2> QED
    BY <2>1, <2>2, <2>3, <2>4
<1> QED
  BY <1>1, <1>2

LEMMA TellKeeps ==
  ASSUME LxInv, NEW c \in LxJobs, Tell(c)
  PROVE  LxInv'
<1> USE DEF LxInv, LxTypeOK, LxCounts, LxPcs, LxEnds, LxActive, LxFound, LxSettling, At, Goes, RecordIs,
        BeginFinish, WorkspaceEvent, lxFacts, lxDisk, lxHistory, lxStream, lxBounds
<1>1. LxTypeOK' /\ LxCounts'
  BY DEF Tell, Outcome
<1>2. ASSUME NEW d \in LxJobs PROVE LxDriven(d)' /\ LxSettled(d)' /\ LxRecorded(d)' /\ LxLeft(d)'
  <2>1. LxDriven(d)'
    BY <1>2 DEF Tell, Outcome, LxDriven, LxSettled
  <2>2. LxSettled(d)'
    BY <1>2 DEF Tell, Outcome, LxDriven, LxSettled, Outcome
  <2>3. LxRecorded(d)'
    BY <1>2 DEF Tell, Outcome, LxDriven, LxSettled, LxRecorded, Outcome
  <2>4. LxLeft(d)'
    BY <1>2 DEF Tell, Outcome, LxDriven, LxSettled, LxLeft
  <2> QED
    BY <2>1, <2>2, <2>3, <2>4
<1> QED
  BY <1>1, <1>2

LEMMA StoreRaisesKeeps ==
  ASSUME LxInv, NEW c \in LxJobs, StoreRaises(c)
  PROVE  LxInv'
<1> USE DEF LxInv, LxTypeOK, LxCounts, LxPcs, LxEnds, LxActive, LxFound, LxSettling, At, Goes, RecordIs,
        BeginFinish, WorkspaceEvent, lxFacts, lxDisk, lxHistory, lxStream, lxBounds
<1>1. LxTypeOK' /\ LxCounts'
  <2>1. /\ lxPc' = lxPc \/ lxPc' = [lxPc EXCEPT ![c] = "over"]
        /\ lxRecord' = lxRecord \/ lxRecord' = [lxRecord EXCEPT ![c] = lxRecord[c]]
             \/ lxRecord' = [lxRecord EXCEPT ![c] = "running"]
        /\ lxUntold' = lxUntold \/ lxUntold' = [lxUntold EXCEPT ![c] = TRUE]
        /\ lxEnd' = lxEnd \/ lxEnd' = [lxEnd EXCEPT ![c] = "unstarted"]
             \/ lxEnd' = [lxEnd EXCEPT ![c] = "raised"]
    BY ZenonT(30) DEF StoreRaises, Ends, Untold
  <2>2. UNCHANGED << lxRun, lxTarget, lxAttempt, lxRoot, lxDisk, lxStream, lxUp, lxDeaths >>
    BY ZenonT(30) DEF StoreRaises, Fault
  <2>3. lxPc' \in [LxJobs -> LxPcs] /\ lxUntold' \in [LxJobs -> BOOLEAN]
    <3>1. lxPc' \in [LxJobs -> LxPcs]
      BY ONLY <2>1, lxPc \in [LxJobs -> LxPcs] DEF LxPcs
    <3>2. lxUntold' \in [LxJobs -> BOOLEAN]
      BY ONLY <2>1, lxUntold \in [LxJobs -> BOOLEAN]
    <3> QED
      BY <3>1, <3>2
  <2>4. lxRecord' \in [LxJobs -> {"none", "queued", "running", "completed", "failed", "cancelled", "interrupted"}]
    BY <2>1
  <2>5. lxEnd' \in [LxJobs -> LxEnds]
    BY <2>1
  <2> QED
    BY <2>2, <2>3, <2>4, <2>5
<1>2. ASSUME NEW d \in LxJobs PROVE LxDriven(d)' /\ LxSettled(d)' /\ LxRecorded(d)' /\ LxLeft(d)'
  <2>1. LxDriven(d)'
    BY <1>2 DEF StoreRaises, Fault, Ends, Untold, Outcome, LxDriven, LxSettled
  <2>2. LxSettled(d)'
    BY <1>2 DEF StoreRaises, Fault, Ends, Untold, Outcome, LxDriven, LxSettled, Outcome
  <2>3. LxRecorded(d)'
    BY <1>2 DEF StoreRaises, Fault, Ends, Untold, Outcome, LxDriven, LxSettled, LxRecorded, Outcome
  <2>4. LxLeft(d)'
    BY <1>2 DEF StoreRaises, Fault, Ends, Untold, Outcome, LxDriven, LxSettled, LxLeft
  <2> QED
    BY <2>1, <2>2, <2>3, <2>4
<1> QED
  BY <1>1, <1>2

LEMMA EndRunKeeps ==
  ASSUME LxInv, NEW c \in LxJobs, EndRun(c)
  PROVE  LxInv'
<1> USE DEF LxInv, LxTypeOK, LxCounts, LxPcs, LxEnds, LxActive, LxFound, LxSettling, At, Goes, RecordIs,
        BeginFinish, WorkspaceEvent, lxFacts, lxDisk, lxHistory, lxStream, lxBounds
<1>1. LxTypeOK' /\ LxCounts'
  BY DEF EndRun
<1>2. ASSUME NEW d \in LxJobs PROVE LxDriven(d)' /\ LxSettled(d)' /\ LxRecorded(d)' /\ LxLeft(d)'
  <2>1. LxDriven(d)'
    BY <1>2 DEF EndRun, LxDriven, LxSettled
  <2>2. LxSettled(d)'
    BY <1>2 DEF EndRun, LxDriven, LxSettled, Outcome
  <2>3. LxRecorded(d)'
    BY <1>2 DEF EndRun, LxDriven, LxSettled, LxRecorded, Outcome
  <2>4. LxLeft(d)'
    BY <1>2 DEF EndRun, LxDriven, LxSettled, LxLeft
  <2> QED
    BY <2>1, <2>2, <2>3, <2>4
<1> QED
  BY <1>1, <1>2

LEMMA CancelUnstartedKeeps ==
  ASSUME LxInv, NEW c \in LxJobs, CancelUnstarted(c)
  PROVE  LxInv'
<1> USE DEF LxInv, LxTypeOK, LxCounts, LxPcs, LxEnds, LxActive, LxFound, LxSettling, At, Goes, RecordIs,
        BeginFinish, WorkspaceEvent, lxFacts, lxDisk, lxHistory, lxStream, lxBounds
<1>1. LxTypeOK' /\ LxCounts'
  BY DEF CancelUnstarted
<1>2. ASSUME NEW d \in LxJobs PROVE LxDriven(d)' /\ LxSettled(d)' /\ LxRecorded(d)' /\ LxLeft(d)'
  <2>1. LxDriven(d)'
    BY <1>2 DEF CancelUnstarted, LxDriven, LxSettled
  <2>2. LxSettled(d)'
    BY <1>2 DEF CancelUnstarted, LxDriven, LxSettled, Outcome
  <2>3. LxRecorded(d)'
    BY <1>2 DEF CancelUnstarted, LxDriven, LxSettled, LxRecorded, Outcome
  <2>4. LxLeft(d)'
    BY <1>2 DEF CancelUnstarted, LxDriven, LxSettled, LxLeft
  <2> QED
    BY <2>1, <2>2, <2>3, <2>4
<1> QED
  BY <1>1, <1>2

LEMMA CancelFinishingKeeps ==
  ASSUME LxInv, NEW c \in LxJobs, CancelFinishing(c)
  PROVE  LxInv'
<1> USE DEF LxInv, LxTypeOK, LxCounts, LxPcs, LxEnds, LxActive, LxFound, LxSettling, At, Goes, RecordIs,
        BeginFinish, WorkspaceEvent, lxFacts, lxDisk, lxHistory, lxStream, lxBounds
<1>1. LxTypeOK' /\ LxCounts'
  BY DEF CancelFinishing
<1>2. ASSUME NEW d \in LxJobs PROVE LxDriven(d)' /\ LxSettled(d)' /\ LxRecorded(d)' /\ LxLeft(d)'
  <2>1. LxDriven(d)'
    BY <1>2 DEF CancelFinishing, LxDriven, LxSettled
  <2>2. LxSettled(d)'
    BY <1>2 DEF CancelFinishing, LxDriven, LxSettled, Outcome
  <2>3. LxRecorded(d)'
    BY <1>2 DEF CancelFinishing, LxDriven, LxSettled, LxRecorded, Outcome
  <2>4. LxLeft(d)'
    BY <1>2 DEF CancelFinishing, LxDriven, LxSettled, LxLeft
  <2> QED
    BY <2>1, <2>2, <2>3, <2>4
<1> QED
  BY <1>1, <1>2

LEMMA ReadTreeKeeps ==
  ASSUME LxInv, ReadTree
  PROVE  LxInv'
<1> USE DEF LxInv, LxTypeOK, LxCounts, LxPcs, LxEnds, LxActive, LxFound, LxSettling, At, Goes, RecordIs,
        BeginFinish, WorkspaceEvent, lxFacts, lxDisk, lxHistory, lxStream, lxBounds
<1>1. LxTypeOK' /\ LxCounts'
  BY DEF ReadTree
<1>2. ASSUME NEW d \in LxJobs PROVE LxDriven(d)' /\ LxSettled(d)' /\ LxRecorded(d)' /\ LxLeft(d)'
  <2>1. LxDriven(d)'
    BY <1>2 DEF ReadTree, LxDriven, LxSettled
  <2>2. LxSettled(d)'
    BY <1>2 DEF ReadTree, LxDriven, LxSettled, Outcome
  <2>3. LxRecorded(d)'
    BY <1>2 DEF ReadTree, LxDriven, LxSettled, LxRecorded, Outcome
  <2>4. LxLeft(d)'
    BY <1>2 DEF ReadTree, LxDriven, LxSettled, LxLeft
  <2> QED
    BY <2>1, <2>2, <2>3, <2>4
<1> QED
  BY <1>1, <1>2

LEMMA LxDiesKeeps ==
  ASSUME LxInv, LxDies
  PROVE  LxInv'
<1> USE DEF LxInv, LxTypeOK, LxCounts, LxPcs, LxEnds, LxActive, LxFound, LxSettling, At, Goes, RecordIs,
        BeginFinish, WorkspaceEvent, lxFacts, lxDisk, lxHistory, lxStream, lxBounds
<1>1. LxTypeOK' /\ LxCounts'
  <2>1. lxUp' = FALSE /\ lxDeaths' \in Nat /\ lxDeaths' > 0
    BY DEF LxDies
  <2>2. LxTypeOK'
    BY <2>1 DEF LxDies
  <2> QED
    BY <2>1, <2>2
<1>2. ASSUME NEW d \in LxJobs PROVE LxDriven(d)' /\ LxSettled(d)' /\ LxRecorded(d)' /\ LxLeft(d)'
  <2>1. LxDriven(d)'
    BY <1>2 DEF LxDies, LxDriven, LxSettled
  <2>2. LxSettled(d)'
    BY <1>2 DEF LxDies, LxDriven, LxSettled, Outcome
  <2>3. LxRecorded(d)'
    BY <1>2 DEF LxDies, LxDriven, LxSettled, LxRecorded, Outcome
  <2>4. LxLeft(d)'
    BY <1>2 DEF LxDies, LxDriven, LxSettled, LxLeft
  <2> QED
    BY <2>1, <2>2, <2>3, <2>4
<1> QED
  BY <1>1, <1>2

LEMMA LxRestartsKeeps ==
  ASSUME LxInv, LxRestarts
  PROVE  LxInv'
<1> USE DEF LxInv, LxTypeOK, LxCounts, LxPcs, LxEnds, LxActive, LxFound, LxSettling, At, Goes, RecordIs,
        BeginFinish, WorkspaceEvent, lxFacts, lxDisk, lxHistory, lxStream, lxBounds
<1>1. LxTypeOK' /\ LxCounts'
  BY DEF LxRestarts, InterruptActive, RecoverRun
<1>2. ASSUME NEW d \in LxJobs PROVE LxDriven(d)' /\ LxSettled(d)' /\ LxRecorded(d)' /\ LxLeft(d)'
  <2>1. LxDriven(d)'
    BY <1>2 DEF LxRestarts, InterruptActive, RecoverRun, LxDriven, LxSettled
  <2>2. LxSettled(d)'
    BY <1>2 DEF LxRestarts, InterruptActive, RecoverRun, LxDriven, LxSettled, Outcome
  <2>3. LxRecorded(d)'
    BY <1>2 DEF LxRestarts, InterruptActive, RecoverRun, LxDriven, LxSettled, LxRecorded, Outcome
  <2>4. LxLeft(d)'
    BY <1>2 DEF LxRestarts, InterruptActive, RecoverRun, LxDriven, LxSettled, LxLeft
  <2> QED
    BY <2>1, <2>2, <2>3, <2>4
<1> QED
  BY <1>1, <1>2

LEMMA LxStutterKeeps ==
  ASSUME LxInv, UNCHANGED lxVars
  PROVE  LxInv'
<1> USE DEF LxInv, LxTypeOK, LxCounts, LxPcs, LxEnds, LxActive, LxFound, LxSettling, At, Goes, RecordIs,
        BeginFinish, WorkspaceEvent, lxFacts, lxDisk, lxHistory, lxStream, lxBounds
<1>1. LxTypeOK' /\ LxCounts'
  BY DEF lxVars
<1>2. ASSUME NEW d \in LxJobs PROVE LxDriven(d)' /\ LxSettled(d)' /\ LxRecorded(d)' /\ LxLeft(d)'
  <2>1. LxDriven(d)'
    BY <1>2 DEF lxVars, LxDriven, LxSettled
  <2>2. LxSettled(d)'
    BY <1>2 DEF lxVars, LxDriven, LxSettled, Outcome
  <2>3. LxRecorded(d)'
    BY <1>2 DEF lxVars, LxDriven, LxSettled, LxRecorded, Outcome
  <2>4. LxLeft(d)'
    BY <1>2 DEF lxVars, LxDriven, LxSettled, LxLeft
  <2> QED
    BY <2>1, <2>2, <2>3, <2>4
<1> QED
  BY <1>1, <1>2

(* The client, the Gateway and its deaths keep the four places that a     *)
(* compilation is written to in step.                                      *)
THEOREM LxInvariant == LxSpec => []LxInv
<1>1. LxInit => LxInv
  BY DEF LxInit, LxInv, LxTypeOK, LxCounts, LxPcs, LxEnds, LxActive, LxFound, LxSettling,
     LxDriven, LxSettled, LxRecorded, LxLeft
<1>2. LxInv /\ [LxNext]_lxVars => LxInv'
  BY PrepareStagingKeeps, BeginWorkloadRunKeeps, StartAttemptKeeps,
     CreateRecordKeeps, AnnounceKeeps, RequestFailsKeeps, RequestEndsKeeps,
     RequestDiscardFailsKeeps, TaskStartsKeeps, ExecuteKeeps,
     CompilationFailsKeeps, DiscardedKeeps, DiscardRaisesKeeps, DiscardCutKeeps,
     SettleAttemptKeeps, SettleRecordKeeps, TellKeeps, StoreRaisesKeeps,
     EndRunKeeps, CancelUnstartedKeeps, CancelCompilingKeeps,
     CancelFinishingKeeps, ReadTreeKeeps, LxDiesKeeps, LxRestartsKeeps,
     LxStutterKeeps DEF LxNext, LxDrive
<1> QED
  BY <1>1, <1>2, PTL DEF LxSpec

(* What a client polls agrees with what the Run and the files became, for  *)
(* any number of compilations, failures and deaths, with the exceptions    *)
(* CompilationAgrees names.                                                *)
THEOREM CompilationsAgree == LxSpec => []CompilationsSound
<1>1. LxInv => CompilationsSound
  BY DEF LxInv, CompilationsSound, CompilationAgrees, LxDriven, LxSettled, LxRecorded, LxLeft,
     LxActive
<1> QED
  BY <1>1, LxInvariant, PTL

-----------------------------------------------------------------------------
(* Finalization: every action keeps the invariant. *)

LEMMA FinalizeStartsKeeps ==
  ASSUME FzInv, FinalizeStarts
  PROVE  FzInv'
<1> USE FzAssumption DEF FzInv, fzRest, fzFiles, fzLedger, Generation, AtStep, StepKeeps,
        WithOp, Steps, FileSteps, PastMemory, InPass
<1>1. FzTyped'
  BY DEF FinalizeStarts, FzTyped
<1>2. FzFresh'
  BY DEF FinalizeStarts, FzFresh, FzTyped, MemoryFresh, OpOf
<1>3. FzRecoverable'
  BY DEF FinalizeStarts, FzRecoverable
<1> QED
  BY <1>1, <1>2, <1>3

LEMMA StartGenerationKeeps ==
  ASSUME FzInv, StartGeneration
  PROVE  FzInv'
<1> USE FzAssumption DEF FzInv, fzRest, fzFiles, fzLedger, Generation, AtStep, StepKeeps,
        WithOp, Steps, FileSteps, PastMemory, InPass
<1>1. FzTyped'
  BY DEF StartGeneration, FzTyped
<1>2. FzFresh'
  BY DEF StartGeneration, FzFresh, FzTyped, MemoryFresh, OpOf
<1>3. FzRecoverable'
  BY DEF StartGeneration, FzTyped, FzRecoverable
<1> QED
  BY <1>1, <1>2, <1>3

LEMMA CreateStepKeeps ==
  ASSUME FzInv, NEW s \in FileSteps, CreateStep(s)
  PROVE  FzInv'
<1> USE FzAssumption DEF FzInv, fzRest, fzFiles, fzLedger, Generation, AtStep, StepKeeps,
        WithOp, Steps, FileSteps, PastMemory, InPass
<1>1. FzTyped'
  BY DEF CreateStep, FzTyped
<1>2. FzFresh'
  BY DEF CreateStep, FzFresh, FzTyped, MemoryFresh, OpOf
<1>3. FzRecoverable'
  BY DEF CreateStep, FzRecoverable
<1> QED
  BY <1>1, <1>2, <1>3

LEMMA WaitUntilEligibleKeeps ==
  ASSUME FzInv, NEW s \in FileSteps, WaitUntilEligible(s)
  PROVE  FzInv'
<1> USE FzAssumption DEF FzInv, fzRest, fzFiles, fzLedger, Generation, AtStep, StepKeeps,
        WithOp, Steps, FileSteps, PastMemory, InPass
<1>1. FzTyped'
  BY DEF WaitUntilEligible, FzTyped
<1>2. FzFresh'
  BY DEF WaitUntilEligible, FzFresh, FzTyped, MemoryFresh, OpOf
<1>3. FzRecoverable'
  BY DEF WaitUntilEligible, FzRecoverable
<1> QED
  BY <1>1, <1>2, <1>3

LEMMA StartStepKeeps ==
  ASSUME FzInv, NEW s \in FileSteps, StartStep(s)
  PROVE  FzInv'
<1> USE FzAssumption DEF FzInv, fzRest, fzFiles, fzLedger, Generation, AtStep, StepKeeps,
        WithOp, Steps, FileSteps, PastMemory, InPass
<1>1. FzTyped'
  BY DEF StartStep, FzTyped
<1>2. FzFresh'
  BY DEF StartStep, FzFresh, FzTyped, MemoryFresh, OpOf
<1>3. FzRecoverable'
  BY DEF StartStep, FzRecoverable
<1> QED
  BY <1>1, <1>2, <1>3

LEMMA CompleteStepKeeps ==
  ASSUME FzInv, NEW s \in FileSteps, CompleteStep(s)
  PROVE  FzInv'
<1> USE FzAssumption DEF FzInv, fzRest, fzFiles, fzLedger, Generation, AtStep, StepKeeps,
        WithOp, Steps, FileSteps, PastMemory, InPass
<1>1. FzTyped'
  BY DEF CompleteStep, Provable, Evidence, Required, NextStep, FzTyped
<1>2. FzFresh'
  BY DEF CompleteStep, Provable, Evidence, Required, NextStep, FzFresh, FzTyped,
     MemoryFresh, OpOf
<1>3. FzRecoverable'
  BY DEF CompleteStep, Provable, Evidence, Required, NextStep, FzRecoverable
<1> QED
  BY <1>1, <1>2, <1>3

LEMMA StepConflictsKeeps ==
  ASSUME FzInv, NEW s \in FileSteps, StepConflicts(s)
  PROVE  FzInv'
<1> USE FzAssumption DEF FzInv, fzRest, fzFiles, fzLedger, Generation, AtStep, StepKeeps,
        WithOp, Steps, FileSteps, PastMemory, InPass
<1>1. FzTyped'
  BY DEF StepConflicts, FzTyped
<1>2. FzFresh'
  BY DEF StepConflicts, FzFresh, FzTyped, MemoryFresh, OpOf
<1>3. FzRecoverable'
  BY DEF StepConflicts, FzRecoverable
<1> QED
  BY <1>1, <1>2, <1>3

LEMMA StepFailsIoKeeps ==
  ASSUME FzInv, NEW s \in FileSteps, StepFailsIo(s)
  PROVE  FzInv'
<1> USE FzAssumption DEF FzInv, fzRest, fzFiles, fzLedger, Generation, AtStep, StepKeeps,
        WithOp, Steps, FileSteps, PastMemory, InPass
<1>1. FzTyped'
  BY DEF StepFailsIo, FzTyped
<1>2. FzFresh'
  BY DEF StepFailsIo, FzFresh, FzTyped, MemoryFresh, OpOf
<1>3. FzRecoverable'
  BY DEF StepFailsIo, FzRecoverable
<1> QED
  BY <1>1, <1>2, <1>3

LEMMA RevalidateKeeps ==
  ASSUME FzInv, NEW s \in FileSteps, Revalidate(s)
  PROVE  FzInv'
<1> USE FzAssumption DEF FzInv, fzRest, fzFiles, fzLedger, Generation, AtStep, StepKeeps,
        WithOp, Steps, FileSteps, PastMemory, InPass
<1>1. FzTyped'
  BY DEF Revalidate, Provable, Evidence, Required, NextStep, FzTyped
<1>2. FzFresh'
  BY DEF Revalidate, Provable, Evidence, Required, NextStep, FzFresh, FzTyped,
     MemoryFresh, OpOf
<1>3. FzRecoverable'
  BY DEF Revalidate, Provable, Evidence, Required, NextStep, FzRecoverable
<1> QED
  BY <1>1, <1>2, <1>3

LEMMA EnsureAuditKeeps ==
  ASSUME FzInv, EnsureAudit
  PROVE  FzInv'
<1> USE FzAssumption DEF FzInv, fzRest, fzFiles, fzLedger, Generation, AtStep, StepKeeps,
        WithOp, Steps, FileSteps, PastMemory, InPass
<1>1. FzTyped'
  BY DEF EnsureAudit, BornCompleted, FzTyped
<1>2. FzFresh'
  BY DEF EnsureAudit, BornCompleted, FzFresh, FzTyped, MemoryFresh, OpOf
<1>3. FzRecoverable'
  BY DEF EnsureAudit, BornCompleted, FzRecoverable
<1> QED
  BY <1>1, <1>2, <1>3

LEMMA EnsureInboxKeeps ==
  ASSUME FzInv, EnsureInbox
  PROVE  FzInv'
<1> USE FzAssumption DEF FzInv, fzRest, fzFiles, fzLedger, Generation, AtStep, StepKeeps,
        WithOp, Steps, FileSteps, PastMemory, InPass
<1>1. FzTyped'
  BY DEF EnsureInbox, BornCompleted, FzTyped
<1>2. FzFresh'
  BY DEF EnsureInbox, BornCompleted, FzFresh, FzTyped, MemoryFresh, OpOf
<1>3. FzRecoverable'
  BY DEF EnsureInbox, BornCompleted, FzRecoverable
<1> QED
  BY <1>1, <1>2, <1>3

LEMMA FinalizeTerminalKeeps ==
  ASSUME FzInv, FinalizeTerminal
  PROVE  FzInv'
<1> USE FzAssumption DEF FzInv, fzRest, fzFiles, fzLedger, Generation, AtStep, StepKeeps,
        WithOp, Steps, FileSteps, PastMemory, InPass
<1>1. FzTyped'
  BY DEF FinalizeTerminal, FzTyped
<1>2. FzFresh'
  BY DEF FinalizeTerminal, FzFresh, FzTyped, MemoryFresh, OpOf
<1>3. FzRecoverable'
  BY DEF FinalizeTerminal, FzRecoverable
<1> QED
  BY <1>1, <1>2, <1>3

LEMMA InvalidateGenerationKeeps ==
  ASSUME FzInv, InvalidateGeneration
  PROVE  FzInv'
<1> USE FzAssumption DEF FzInv, fzRest, fzFiles, fzLedger, Generation, AtStep, StepKeeps,
        WithOp, Steps, FileSteps, PastMemory, InPass
<1>1. FzTyped'
  BY DEF InvalidateGeneration, FzTyped
<1>2. FzFresh'
  BY DEF InvalidateGeneration, FzFresh, FzTyped, MemoryFresh, OpOf
<1>3. FzRecoverable'
  BY DEF InvalidateGeneration, FzRecoverable
<1> QED
  BY <1>1, <1>2, <1>3

LEMMA EnterRecoveryRequiredKeeps ==
  ASSUME FzInv, EnterRecoveryRequired
  PROVE  FzInv'
<1> USE FzAssumption DEF FzInv, fzRest, fzFiles, fzLedger, Generation, AtStep, StepKeeps,
        WithOp, Steps, FileSteps, PastMemory, InPass
<1>1. FzTyped'
  BY DEF EnterRecoveryRequired, FzTyped
<1>2. FzFresh'
  BY DEF EnterRecoveryRequired, FzFresh, FzTyped, MemoryFresh, OpOf
<1>3. FzRecoverable'
  BY DEF EnterRecoveryRequired, FzRecoverable
<1> QED
  BY <1>1, <1>2, <1>3

LEMMA RecoverBeginsKeeps ==
  ASSUME FzInv, RecoverBegins
  PROVE  FzInv'
<1> USE FzAssumption DEF FzInv, fzRest, fzFiles, fzLedger, Generation, AtStep, StepKeeps,
        WithOp, Steps, FileSteps, PastMemory, InPass
<1>1. FzTyped'
  BY DEF RecoverBegins, FzTyped
<1>2. FzFresh'
  BY DEF RecoverBegins, FzFresh, FzTyped, MemoryFresh, OpOf
<1>3. FzRecoverable'
  BY DEF RecoverBegins, FzTyped, FzRecoverable
<1> QED
  BY <1>1, <1>2, <1>3

LEMMA ResumeFinalizeKeeps ==
  ASSUME FzInv, ResumeFinalize
  PROVE  FzInv'
<1> USE FzAssumption DEF FzInv, fzRest, fzFiles, fzLedger, Generation, AtStep, StepKeeps,
        WithOp, Steps, FileSteps, PastMemory, InPass
<1>1. FzTyped'
  BY DEF ResumeFinalize, FzTyped
<1>2. FzFresh'
  BY DEF ResumeFinalize, FzFresh, FzTyped, MemoryFresh, OpOf
<1>3. FzRecoverable'
  BY DEF ResumeFinalize, FzRecoverable
<1> QED
  BY <1>1, <1>2, <1>3

LEMMA ReplaceGenerationKeeps ==
  ASSUME FzInv, ReplaceGeneration
  PROVE  FzInv'
<1> USE FzAssumption DEF FzInv, fzRest, fzFiles, fzLedger, Generation, AtStep, StepKeeps,
        WithOp, Steps, FileSteps, PastMemory, InPass
<1>1. FzTyped'
  BY DEF ReplaceGeneration, FzTyped, FzRecoverable
<1>2. FzFresh'
  BY DEF ReplaceGeneration, FzFresh, FzTyped, MemoryFresh, OpOf
<1>3. FzRecoverable'
  BY DEF ReplaceGeneration, FzTyped, FzRecoverable
<1> QED
  BY <1>1, <1>2, <1>3

LEMMA FzDiesKeeps ==
  ASSUME FzInv, FzDies
  PROVE  FzInv'
<1> USE FzAssumption DEF FzInv, fzRest, fzFiles, fzLedger, Generation, AtStep, StepKeeps,
        WithOp, Steps, FileSteps, PastMemory, InPass
<1>1. FzTyped'
  BY DEF FzDies, FzTyped
<1>2. FzFresh'
  BY DEF FzDies, FzFresh, FzTyped, MemoryFresh, OpOf
<1>3. FzRecoverable'
  BY DEF FzDies, FzRecoverable
<1> QED
  BY <1>1, <1>2, <1>3

LEMMA FzRestartsKeeps ==
  ASSUME FzInv, FzRestarts
  PROVE  FzInv'
<1> USE FzAssumption DEF FzInv, fzRest, fzFiles, fzLedger, Generation, AtStep, StepKeeps,
        WithOp, Steps, FileSteps, PastMemory, InPass
<1>1. FzTyped'
  BY DEF FzRestarts, FzTyped
<1>2. FzFresh'
  BY DEF FzRestarts, FzFresh, FzTyped, MemoryFresh, OpOf
<1>3. FzRecoverable'
  BY DEF FzRestarts, FzRecoverable
<1> QED
  BY <1>1, <1>2, <1>3

LEMMA OtherTurnKeeps ==
  ASSUME FzInv, OtherTurn
  PROVE  FzInv'
<1> USE FzAssumption DEF FzInv, fzRest, fzFiles, fzLedger, Generation, AtStep, StepKeeps,
        WithOp, Steps, FileSteps, PastMemory, InPass
<1>1. FzTyped'
  BY DEF OtherTurn, FzTyped
<1>2. FzFresh'
  BY DEF OtherTurn, FzFresh, FzTyped, MemoryFresh, OpOf
<1>3. FzRecoverable'
  BY DEF OtherTurn, FzRecoverable
<1> QED
  BY <1>1, <1>2, <1>3

LEMMA OtherTurnEndsKeeps ==
  ASSUME FzInv, OtherTurnEnds
  PROVE  FzInv'
<1> USE FzAssumption DEF FzInv, fzRest, fzFiles, fzLedger, Generation, AtStep, StepKeeps,
        WithOp, Steps, FileSteps, PastMemory, InPass
<1>1. FzTyped'
  BY DEF OtherTurnEnds, FzTyped
<1>2. FzFresh'
  BY DEF OtherTurnEnds, FzFresh, FzTyped, MemoryFresh, OpOf
<1>3. FzRecoverable'
  BY DEF OtherTurnEnds, FzRecoverable
<1> QED
  BY <1>1, <1>2, <1>3

LEMMA RewriteRecordsKeeps ==
  ASSUME FzInv, RewriteRecords
  PROVE  FzInv'
<1> USE FzAssumption DEF FzInv, fzRest, fzFiles, fzLedger, Generation, AtStep, StepKeeps,
        WithOp, Steps, FileSteps, PastMemory, InPass
<1>1. FzTyped'
  BY DEF RewriteRecords, FzTyped
<1>2. FzFresh'
  BY DEF RewriteRecords, FzFresh, FzTyped, MemoryFresh, OpOf
<1>3. FzRecoverable'
  BY DEF RewriteRecords, FzRecoverable
<1> QED
  BY <1>1, <1>2, <1>3

LEMMA DeleteIndexedSessionKeeps ==
  ASSUME FzInv, DeleteIndexedSession
  PROVE  FzInv'
<1> USE FzAssumption DEF FzInv, fzRest, fzFiles, fzLedger, Generation, AtStep, StepKeeps,
        WithOp, Steps, FileSteps, PastMemory, InPass
<1>1. FzTyped'
  BY DEF DeleteIndexedSession, FzTyped
<1>2. FzFresh'
  BY DEF DeleteIndexedSession, FzFresh, FzTyped, MemoryFresh, OpOf
<1>3. FzRecoverable'
  BY DEF DeleteIndexedSession, FzRecoverable
<1> QED
  BY <1>1, <1>2, <1>3

LEMMA FzStutterKeeps ==
  ASSUME FzInv, UNCHANGED fzVars
  PROVE  FzInv'
<1> USE FzAssumption DEF FzInv, fzRest, fzFiles, fzLedger, Generation, AtStep, StepKeeps,
        WithOp, Steps, FileSteps, PastMemory, InPass
<1>1. FzTyped'
  BY DEF fzVars, FzTyped
<1>2. FzFresh'
  BY DEF fzVars, FzFresh, FzTyped, MemoryFresh, OpOf
<1>3. FzRecoverable'
  BY DEF fzVars, FzRecoverable
<1> QED
  BY <1>1, <1>2, <1>3

(* A pass carries on only evidence it has seen, and a recovery command is  *)
(* used up only when the Run moves on.                                     *)
THEOREM FzInvariant == FzSpec => []FzInv
<1>1. FzInit => FzInv
  BY FzAssumption DEF FzInit, FzInv, FzTyped, FzFresh, FzRecoverable, Generation,
     Steps,
     PastMemory, InPass
<1>2. FzInv /\ [FzNext]_fzVars => FzInv'
  BY FinalizeStartsKeeps, StartGenerationKeeps, CreateStepKeeps,
     WaitUntilEligibleKeeps, StartStepKeeps, CompleteStepKeeps, StepConflictsKeeps,
     StepFailsIoKeeps, RevalidateKeeps, EnsureAuditKeeps, EnsureInboxKeeps,
     FinalizeTerminalKeeps, InvalidateGenerationKeeps, EnterRecoveryRequiredKeeps,
     RecoverBeginsKeeps, ResumeFinalizeKeeps, ReplaceGenerationKeeps, FzDiesKeeps,
     FzRestartsKeeps, OtherTurnKeeps, OtherTurnEndsKeeps, RewriteRecordsKeeps,
     DeleteIndexedSessionKeeps, FzStutterKeeps DEF FzNext
<1> QED
  BY <1>1, <1>2, PTL DEF FzSpec

(* A Run is closed on evidence that was in the Session files during the    *)
(* pass that closed it, or stays recoverable, whatever passes, deaths and  *)
(* edits came before (_revalidate_completed_file_step).                    *)
THEOREM ClosedOnFreshEvidence == FzSpec => []FinalizationSound
<1>1. FzInv => FinalizationSound
  BY DEF FzInv, FzFresh, FzRecoverable, MemoryFresh, InPass, PastMemory,
     FinalizationSound,
     TerminalEvidenceIsFresh, RecoveryNotSpent
<1> QED
  BY <1>1, FzInvariant, PTL

-----------------------------------------------------------------------------
(* Workspace locks: leases, counters and what a step leaves alone. *)

Leases == [lock : LkNames, mode : LkModes]

LEMMA TransactionShape ==
  ASSUME NEW op \in LkTransactions
  PROVE  /\ Len(op) \in Nat /\ Len(op) > 0
         /\ \A i \in 1 .. Len(op) : op[i] \in Leases
         /\ \A i, j \in 1 .. Len(op) : op[i].lock = op[j].lock => i = j
         /\ op[1].lock = "workspace"
<1>1. CASE op = ReadLeases
  BY <1>1 DEF ReadLeases, Lease, Leases, LkNames, LkModes
<1>2. CASE op = WriteLeases
  BY <1>2 DEF WriteLeases, Lease, Leases, LkNames, LkModes
<1>3. CASE op = ExclusiveLeases
  BY <1>3 DEF ExclusiveLeases, Lease, Leases, LkNames, LkModes
<1> QED
  BY <1>1, <1>2, <1>3 DEF LkTransactions

LEMMA WantedShape ==
  ASSUME LkTyped, LkPlaced, NEW t \in LkTasks, lkPc[t] # "idle", lkAt[t] > 0
  PROVE  /\ lkOp[t] \in LkTransactions /\ lkAt[t] \in 1 .. Len(lkOp[t])
         /\ Len(lkOp[t]) \in Nat
         /\ Wanted(t) \in Leases /\ LocalOf(t) \in LkKeys
<1>1. /\ lkOp[t] \in LkTransactions /\ lkAt[t] \in Nat /\ lkAt[t] <= Len(lkOp[t])
  BY DEF LkTyped, LkPlaced
<1>2. Len(lkOp[t]) \in Nat
  BY <1>1, TransactionShape
<1>3. lkAt[t] \in 1 .. Len(lkOp[t])
  BY <1>1, <1>2
<1>4. Wanted(t) \in Leases
  BY <1>1, <1>3, TransactionShape DEF Wanted
<1> QED
  BY <1>1, <1>2, <1>3, <1>4 DEF LocalOf, LkKeys, LkProcs, Leases

LEMMA CountsAreNat ==
  ASSUME WaitersCounted, ReadersCounted, NEW k \in LkKeys
  PROVE  lkWaiting[k] \in Nat /\ lkReaders[k] \in Nat
<1>1. IsFiniteSet(Waiters(k)) /\ IsFiniteSet(ReadersOf(k))
  BY LkAssumption, FS_Subset DEF Waiters, ReadersOf
<1> QED
  BY <1>1, FS_CardinalityType DEF WaitersCounted, ReadersCounted

(* A step that keeps who waits, adds a writer or takes one away.           *)
LEMMA WaitersSame ==
  ASSUME WaitersCounted, lkWaiting' = lkWaiting,
         \A u \in LkTasks, k \in LkKeys : WaitsOn(u, k)' <=> WaitsOn(u, k)
  PROVE  WaitersCounted'
<1>1. ASSUME NEW k \in LkKeys PROVE Waiters(k)' = Waiters(k)
  BY <1>1 DEF Waiters
<1> QED
  BY <1>1 DEF WaitersCounted

LEMMA WaiterComes ==
  ASSUME LkTyped, WaitersCounted, NEW t \in LkTasks, NEW k \in LkKeys,
         lkWaiting' = [lkWaiting EXCEPT ![k] = @ + 1],
         ~ WaitsOn(t, k), WaitsOn(t, k)',
         \A u \in LkTasks, j \in LkKeys : u # t \/ j # k => (WaitsOn(u, j)' <=> WaitsOn(u, j))
  PROVE  WaitersCounted'
<1>1. ASSUME NEW j \in LkKeys, j # k PROVE Waiters(j)' = Waiters(j)
  BY <1>1 DEF Waiters
<1>2. Waiters(k)' = Waiters(k) \cup {t} /\ t \notin Waiters(k)
  BY DEF Waiters
<1>3. IsFiniteSet(Waiters(k))
  BY LkAssumption, FS_Subset DEF Waiters
<1>4. Cardinality(Waiters(k)') = Cardinality(Waiters(k)) + 1
  BY <1>2, <1>3, FS_AddElement
<1>5. ASSUME NEW j \in LkKeys, j # k PROVE lkWaiting'[j] = lkWaiting[j]
  BY <1>5 DEF LkTyped
<1>6. lkWaiting'[k] = lkWaiting[k] + 1
  BY DEF LkTyped
<1> QED
  BY <1>1, <1>4, <1>5, <1>6 DEF WaitersCounted

LEMMA WaiterGoes ==
  ASSUME LkTyped, WaitersCounted, NEW t \in LkTasks, NEW k \in LkKeys,
         lkWaiting' = [lkWaiting EXCEPT ![k] = @ - 1],
         WaitsOn(t, k), ~ WaitsOn(t, k)',
         \A u \in LkTasks, j \in LkKeys : u # t \/ j # k => (WaitsOn(u, j)' <=> WaitsOn(u, j))
  PROVE  WaitersCounted'
<1>1. ASSUME NEW j \in LkKeys, j # k PROVE Waiters(j)' = Waiters(j)
  BY <1>1 DEF Waiters
<1>2. Waiters(k)' = Waiters(k) \ {t} /\ t \in Waiters(k)
  BY DEF Waiters
<1>3. IsFiniteSet(Waiters(k))
  BY LkAssumption, FS_Subset DEF Waiters
<1>4. Cardinality(Waiters(k)') = Cardinality(Waiters(k)) - 1
  BY <1>2, <1>3, FS_RemoveElement
<1>5. ASSUME NEW j \in LkKeys, j # k PROVE lkWaiting'[j] = lkWaiting[j]
  BY <1>5 DEF LkTyped
<1>6. lkWaiting'[k] = lkWaiting[k] - 1
  BY DEF LkTyped
<1> QED
  BY <1>1, <1>4, <1>5, <1>6 DEF WaitersCounted

(* The same for the readers of a local lock.                               *)
LEMMA ReadersSame ==
  ASSUME ReadersCounted, lkReaders' = lkReaders,
         \A u \in LkTasks, k \in LkKeys : ReadsUnder(u, k)' <=> ReadsUnder(u, k)
  PROVE  ReadersCounted'
<1>1. ASSUME NEW k \in LkKeys PROVE ReadersOf(k)' = ReadersOf(k)
  BY <1>1 DEF ReadersOf
<1> QED
  BY <1>1 DEF ReadersCounted

LEMMA ReaderComes ==
  ASSUME LkTyped, ReadersCounted, NEW t \in LkTasks, NEW k \in LkKeys,
         lkReaders' = [lkReaders EXCEPT ![k] = @ + 1],
         ~ ReadsUnder(t, k), ReadsUnder(t, k)',
         \A u \in LkTasks, j \in LkKeys : u # t \/ j # k => (ReadsUnder(u, j)' <=> ReadsUnder(u, j))
  PROVE  ReadersCounted'
<1>1. ASSUME NEW j \in LkKeys, j # k PROVE ReadersOf(j)' = ReadersOf(j)
  BY <1>1 DEF ReadersOf
<1>2. ReadersOf(k)' = ReadersOf(k) \cup {t} /\ t \notin ReadersOf(k)
  BY DEF ReadersOf
<1>3. IsFiniteSet(ReadersOf(k))
  BY LkAssumption, FS_Subset DEF ReadersOf
<1>4. Cardinality(ReadersOf(k)') = Cardinality(ReadersOf(k)) + 1
  BY <1>2, <1>3, FS_AddElement
<1>5. ASSUME NEW j \in LkKeys, j # k PROVE lkReaders'[j] = lkReaders[j]
  BY <1>5 DEF LkTyped
<1>6. lkReaders'[k] = lkReaders[k] + 1
  BY DEF LkTyped
<1> QED
  BY <1>1, <1>4, <1>5, <1>6 DEF ReadersCounted

LEMMA ReaderGoes ==
  ASSUME LkTyped, ReadersCounted, NEW t \in LkTasks, NEW k \in LkKeys,
         lkReaders' = [lkReaders EXCEPT ![k] = @ - 1],
         ReadsUnder(t, k), ~ ReadsUnder(t, k)',
         \A u \in LkTasks, j \in LkKeys : u # t \/ j # k => (ReadsUnder(u, j)' <=> ReadsUnder(u, j))
  PROVE  ReadersCounted'
<1>1. ASSUME NEW j \in LkKeys, j # k PROVE ReadersOf(j)' = ReadersOf(j)
  BY <1>1 DEF ReadersOf
<1>2. ReadersOf(k)' = ReadersOf(k) \ {t} /\ t \in ReadersOf(k)
  BY DEF ReadersOf
<1>3. IsFiniteSet(ReadersOf(k))
  BY LkAssumption, FS_Subset DEF ReadersOf
<1>4. Cardinality(ReadersOf(k)') = Cardinality(ReadersOf(k)) - 1
  BY <1>2, <1>3, FS_RemoveElement
<1>5. ASSUME NEW j \in LkKeys, j # k PROVE lkReaders'[j] = lkReaders[j]
  BY <1>5 DEF LkTyped
<1>6. lkReaders'[k] = lkReaders[k] - 1
  BY DEF LkTyped
<1> QED
  BY <1>1, <1>4, <1>5, <1>6 DEF ReadersCounted

(* A coroutine that a step leaves where it is, or only wakes.              *)
Stays(u) ==
  /\ lkOp'[u] = lkOp[u] /\ lkAt'[u] = lkAt[u]
  /\ lkPc'[u] = lkPc[u] \/ (lkPc[u] = "asleep" /\ lkPc'[u] = "woken")

LEMMA StayingCounts ==
  ASSUME NEW u, Stays(u)
  PROVE  /\ Wanted(u)' = Wanted(u) /\ LocalOf(u)' = LocalOf(u) /\ Depth(u)' = Depth(u)
         /\ \A k : WaitsOn(u, k)' <=> WaitsOn(u, k)
         /\ \A k : ReadsUnder(u, k)' <=> ReadsUnder(u, k)
<1>1. Wanted(u)' = Wanted(u) /\ LocalOf(u)' = LocalOf(u) /\ Depth(u)' = Depth(u)
  BY DEF Stays, Wanted, LocalOf, Depth
<1>2. \A k : WaitsOn(u, k)' <=> WaitsOn(u, k)
  BY <1>1 DEF Stays, WaitsOn
<1>3. \A k : ReadsUnder(u, k)' <=> ReadsUnder(u, k)
  BY <1>1 DEF Stays, ReadsUnder
<1> QED
  BY <1>1, <1>2, <1>3

LEMMA SleepersStay ==
  ASSUME SleepsForAReason, UNCHANGED << lkReaders, lkWriter, lkWaiting >>,
  lkHurt \subseteq lkHurt',
         \A u \in LkTasks : lkPc'[u] = "asleep" => lkPc[u] = "asleep" /\ Stays(u)
  PROVE  SleepsForAReason'
<1> SUFFICES ASSUME NEW u \in LkTasks, lkPc'[u] = "asleep", LocalOf(u)' \notin lkHurt'
             PROVE  ~ LocalFree(u)'
  BY DEF SleepsForAReason
<1>1. Wanted(u)' = Wanted(u) /\ LocalOf(u)' = LocalOf(u)
  BY StayingCounts
<1>2. ~ LocalFree(u)
  BY <1>1 DEF SleepsForAReason
<1> QED
  BY <1>1, <1>2 DEF LocalFree, SharedFree, ExclusiveFree

(* Leases taken are kept by whoever stays, when no lock of theirs goes.     *)
LEMMA KeptStays ==
  ASSUME LkKept, NEW u \in LkTasks, Stays(u),
         \A l : \A h \in lkOs[l] : h.task = u => h \in lkOs'[l]
  PROVE  \A i \in 1 .. lkAt'[u] :
            (lkPc'[u] \in Taking /\ i < lkAt'[u]) \/ lkPc'[u] = "inside" => HoldsLease(u, i)'
<1> SUFFICES ASSUME NEW i \in 1 .. lkAt'[u],
                    (lkPc'[u] \in Taking /\ i < lkAt'[u]) \/ lkPc'[u] = "inside"
             PROVE  HoldsLease(u, i)'
  OBVIOUS
<1>1. HoldsLease(u, i)
  BY DEF LkKept, Stays, Taking
<1> QED
  BY <1>1 DEF HoldsLease, Stays

LEMMA PlacedStays ==
  ASSUME LkPlaced, NEW u \in LkTasks, Stays(u)
  PROVE  /\ lkPc'[u] = "idle" => lkAt'[u] = 0
         /\ lkPc'[u] # "idle" => lkOp'[u] \in LkTransactions /\ lkAt'[u] <= Len(lkOp'[u])
         /\ lkPc'[u] \in Taking => lkAt'[u] > 0
         /\ lkPc'[u] = "inside" => lkAt'[u] = Len(lkOp'[u])
BY DEF LkPlaced, Stays, Taking

-----------------------------------------------------------------------------
(* Workspace locks: every action keeps the invariant. *)

LEMMA BeginTransactionKeeps ==
  ASSUME LkInv, NEW t \in LkTasks, NEW op \in LkTransactions, BeginTransaction(t, op)
  PROVE  LkInv'
<1>0. /\ lkPc[t] = "idle" /\ lkAt[t] = 0
      /\ lkPc'[t] = "enter" /\ lkAt'[t] = 1 /\ lkOp'[t] = op
      /\ \A u \in LkTasks \ {t} : Stays(u)
      /\ UNCHANGED << lkReaders, lkWriter, lkWaiting, lkOs, lkHurt >>
  BY DEF LkInv, LkTyped, LkPlaced, BeginTransaction, Moved, Stays, lkLocal
<1>1. LkTyped'
  BY DEF LkInv, LkTyped, LkPcs, BeginTransaction, Moved, lkLocal
<1>2. LkPlaced'
  BY <1>0, PlacedStays, TransactionShape DEF LkInv, LkPlaced
<1>3. LkCompatible' /\ LkKept'
  BY <1>0, KeptStays DEF LkInv, LkCompatible, LkKept, Taking
<1>4. \A u \in LkTasks, k \in LkKeys : WaitsOn(u, k)' <=> WaitsOn(u, k)
  BY <1>0, StayingCounts DEF WaitsOn
<1>5. \A u \in LkTasks, k \in LkKeys : ReadsUnder(u, k)' <=> ReadsUnder(u, k)
  BY <1>0, StayingCounts DEF ReadsUnder, Depth
<1>6. WaitersCounted' /\ ReadersCounted'
  BY <1>0, <1>4, <1>5, WaitersSame, ReadersSame DEF LkInv
<1>7. SleepsForAReason'
  BY <1>0, SleepersStay DEF LkInv, Stays
<1> QED
  BY <1>1, <1>2, <1>3, <1>6, <1>7 DEF LkInv

LEMMA AcquireSharedKeeps ==
  ASSUME LkInv, NEW t \in LkTasks, AcquireShared(t)
  PROVE  LkInv'
<1>0. /\ lkPc[t] \in { "enter", "woken" } /\ Wanted(t).mode = "shared"
      /\ lkPc'[t] \in { "poll", "asleep" } /\ lkAt'[t] = lkAt[t] /\ lkOp'[t] = lkOp[t]
      /\ \A u \in LkTasks \ {t} : Stays(u) /\ lkPc'[u] = lkPc[u]
      /\ UNCHANGED << lkWriter, lkWaiting, lkOs, lkHurt >>
  BY DEF LkInv, LkTyped, AcquireShared, Moved, Stays
<1>a. /\ lkOp[t] \in LkTransactions /\ lkAt[t] \in 1 .. Len(lkOp[t]) /\ Len(lkOp[t]) \in Nat
      /\ Wanted(t) \in Leases /\ LocalOf(t) \in LkKeys
  BY <1>0, WantedShape DEF LkInv, LkPlaced, Taking
<1>k. PICK k \in LkKeys : k = LocalOf(t)
  BY <1>a
<1>b. Wanted(t)' = Wanted(t) /\ LocalOf(t)' = k
  BY <1>0, <1>k DEF Wanted, LocalOf
<1>1. LkTyped'
  <2>1. lkReaders' \in [LkKeys -> Int]
    BY <1>k DEF LkInv, LkTyped, AcquireShared
  <2> QED
    BY <2>1 DEF LkInv, LkTyped, LkPcs, AcquireShared, Moved
<1>2. LkPlaced'
  <2>1. /\ lkPc[t] \in Taking => lkAt[t] > 0
        /\ lkOp[t] \in LkTransactions /\ lkAt[t] <= Len(lkOp[t])
    BY <1>0 DEF LkInv, LkPlaced
  <2> QED
    BY <2>1, <1>0, PlacedStays DEF LkInv, LkPlaced, Taking
<1>3. LkCompatible'
  BY <1>0 DEF LkInv, LkCompatible
<1>4. LkKept'
  <2>1. ASSUME NEW i \in 1 .. lkAt'[t], i < lkAt'[t] PROVE HoldsLease(t, i)'
    BY <2>1, <1>0 DEF LkInv, LkKept, HoldsLease, Taking
  <2> QED
    BY <2>1, <1>0, KeptStays DEF LkInv, LkKept, Taking
<1>5. WaitersCounted'
  <2>1. ASSUME NEW u \in LkTasks, NEW j \in LkKeys PROVE WaitsOn(u, j)' <=> WaitsOn(u, j)
    BY <2>1, <1>0, <1>b, StayingCounts DEF WaitsOn
  <2> QED
    BY <2>1, <1>0, WaitersSame DEF LkInv
<1>6. CASE SharedFree(k)
  <2>1. /\ lkReaders' = [lkReaders EXCEPT ![k] = @ + 1] /\ lkPc'[t] = "poll"
    BY <1>6, <1>0, <1>k DEF AcquireShared, LkInv, LkTyped, Moved
  <2>2. Depth(t) = lkAt[t] - 1 /\ Depth(t)' = lkAt[t]
    BY <1>0, <2>1 DEF Depth
  <2>3. ReadsUnder(t, k)'
    <3>1. lkOp'[t][lkAt[t]] = Lease(k[2], "shared")
      BY <1>0, <1>a, <1>k DEF Wanted, LocalOf, Lease, Leases
    <3>2. LkProc(t) = k[1] /\ lkAt[t] \in 1 .. lkAt[t]
      BY <1>a, <1>k DEF LocalOf
    <3> QED
      BY <3>1, <3>2, <2>2 DEF ReadsUnder
  <2>4. ~ ReadsUnder(t, k)
    <3> SUFFICES ASSUME NEW i \in 1 .. (lkAt[t] - 1), lkOp[t][i] = Lease(k[2], "shared")
                 PROVE  FALSE
      BY <2>2 DEF ReadsUnder
    <3>1. lkOp[t][i].lock = lkOp[t][lkAt[t]].lock
      BY <1>k DEF LocalOf, Wanted, Lease
    <3>2. i \in 1 .. Len(lkOp[t]) /\ i # lkAt[t]
      BY <1>a
    <3> QED
      BY <3>1, <3>2, <1>a, TransactionShape
  <2>5. ASSUME NEW u \in LkTasks, NEW j \in LkKeys, u # t \/ j # k
        PROVE  ReadsUnder(u, j)' <=> ReadsUnder(u, j)
    <3>1. CASE u # t
      BY <3>1, <1>0, StayingCounts
    <3>2. CASE u = t /\ j # k
      <4>1. lkOp[t][lkAt[t]] # Lease(j[2], "shared") \/ LkProc(t) # j[1]
        <5>1. SUFFICES ASSUME lkOp[t][lkAt[t]] = Lease(j[2], "shared"), LkProc(t) = j[1]
                       PROVE  FALSE
          OBVIOUS
        <5>2. j = << LkProc(t), Wanted(t).lock >>
          BY <5>1 DEF LkKeys, Wanted, Lease
        <5> QED
          BY <5>2, <3>2, <1>k DEF LocalOf
      <4>2. 1 .. lkAt[t] = (1 .. (lkAt[t] - 1)) \cup {lkAt[t]}
        BY <1>a
      <4> QED
        BY <4>1, <4>2, <3>2, <2>2, <1>0 DEF ReadsUnder
    <3> QED
      BY <3>1, <3>2, <2>5
  <2>6. ReadersCounted'
    BY <1>a, <2>1, <2>3, <2>4, <2>5, ReaderComes DEF LkInv
  <2>7. SleepsForAReason'
    <3> SUFFICES ASSUME NEW u \in LkTasks, lkPc'[u] = "asleep", LocalOf(u)' \notin lkHurt'
                 PROVE  ~ LocalFree(u)'
      BY DEF SleepsForAReason
    <3>1. u # t /\ Stays(u) /\ lkPc[u] = "asleep"
      BY <1>0, <2>1
    <3>2. Wanted(u)' = Wanted(u) /\ LocalOf(u)' = LocalOf(u)
      BY <3>1, StayingCounts
    <3>3. ~ LocalFree(u)
      BY <3>1, <3>2, <1>0 DEF LkInv, SleepsForAReason
    <3>4. LocalOf(u) \in LkKeys
      BY <3>1, WantedShape DEF LkInv, LkPlaced, Taking
    <3>5. lkReaders[LocalOf(u)] # 0 => lkReaders'[LocalOf(u)] # 0
      <4>1. lkReaders[LocalOf(u)] \in Nat
        BY <3>4, CountsAreNat DEF LkInv
      <4> QED
        BY <4>1, <3>4, <2>1, <1>a DEF LkInv, LkTyped
    <3> QED
      BY <3>2, <3>3, <3>5, <1>0 DEF LocalFree, SharedFree, ExclusiveFree
  <2> QED
    BY <1>1, <1>2, <1>3, <1>4, <1>5, <2>6, <2>7 DEF LkInv
<1>7. CASE ~ SharedFree(k)
  <2>1. lkReaders' = lkReaders /\ lkPc'[t] = "asleep"
    BY <1>7, <1>0, <1>k DEF AcquireShared, LkInv, LkTyped, Moved
  <2>2. ASSUME NEW u \in LkTasks, NEW j \in LkKeys PROVE ReadsUnder(u, j)' <=> ReadsUnder(u, j)
    BY <2>1, <1>0, StayingCounts DEF ReadsUnder, Depth
  <2>3. SleepsForAReason'
    <3> SUFFICES ASSUME NEW u \in LkTasks, lkPc'[u] = "asleep", LocalOf(u)' \notin lkHurt'
                 PROVE  ~ LocalFree(u)'
      BY DEF SleepsForAReason
    <3>1. CASE u = t
      BY <3>1, <1>7, <1>0, <1>b, <1>k DEF LocalFree, SharedFree
    <3>2. CASE u # t
      <4>1. Wanted(u)' = Wanted(u) /\ LocalOf(u)' = LocalOf(u) /\ ~ LocalFree(u)
        BY <3>2, <1>0, StayingCounts DEF LkInv, SleepsForAReason
      <4> QED
        BY <4>1, <2>1, <1>0 DEF LocalFree, SharedFree, ExclusiveFree
    <3> QED
      BY <3>1, <3>2
  <2> QED
    BY <1>1, <1>2, <1>3, <1>4, <1>5, <2>1, <2>2, <2>3, ReadersSame DEF LkInv
<1> QED
  BY <1>6, <1>7

LEMMA AcquireExclusiveKeeps ==
  ASSUME LkInv, NEW t \in LkTasks, AcquireExclusive(t)
  PROVE  LkInv'
<1> DEFINE waiting == lkWaiting[LocalOf(t)] + (IF lkPc[t] = "enter" THEN 1 ELSE 0)
<1>0. /\ lkPc[t] \in { "enter", "woken" } /\ Wanted(t).mode = "exclusive"
      /\ lkPc'[t] \in { "poll", "asleep" } /\ lkAt'[t] = lkAt[t] /\ lkOp'[t] = lkOp[t]
      /\ \A u \in LkTasks \ {t} : Stays(u) /\ lkPc'[u] = lkPc[u]
      /\ UNCHANGED << lkReaders, lkOs, lkHurt >>
  BY DEF LkInv, LkTyped, AcquireExclusive, Moved, Stays
<1>a. /\ lkOp[t] \in LkTransactions /\ lkAt[t] \in 1 .. Len(lkOp[t]) /\ Len(lkOp[t]) \in Nat
      /\ Wanted(t) \in Leases /\ LocalOf(t) \in LkKeys
  BY <1>0, WantedShape DEF LkInv, LkPlaced, Taking
<1>k. PICK k \in LkKeys : k = LocalOf(t)
  BY <1>a
<1>b. Wanted(t)' = Wanted(t) /\ LocalOf(t)' = k
  BY <1>0, <1>k DEF Wanted, LocalOf
<1>c. lkWaiting[k] \in Nat /\ waiting \in Nat /\ DOMAIN lkWaiting = LkKeys /\ DOMAIN lkWriter = LkKeys
  BY <1>k, CountsAreNat DEF LkInv, LkTyped
<1>1. LkTyped'
  <2>1. lkWaiting' \in [LkKeys -> Int]
    BY <1>k, <1>c DEF LkInv, LkTyped, AcquireExclusive
  <2>2. lkWriter' \in [LkKeys -> BOOLEAN]
    BY <1>k, <1>c DEF LkInv, LkTyped, AcquireExclusive
  <2> QED
    BY <2>1, <2>2 DEF LkInv, LkTyped, LkPcs, AcquireExclusive, Moved
<1>2. LkPlaced'
  <2>1. /\ lkPc[t] \in Taking => lkAt[t] > 0
        /\ lkOp[t] \in LkTransactions /\ lkAt[t] <= Len(lkOp[t])
    BY <1>0 DEF LkInv, LkPlaced
  <2> QED
    BY <2>1, <1>0, PlacedStays DEF LkInv, LkPlaced, Taking
<1>3. LkCompatible'
  BY <1>0 DEF LkInv, LkCompatible
<1>4. LkKept'
  <2>1. ASSUME NEW i \in 1 .. lkAt'[t], i < lkAt'[t] PROVE HoldsLease(t, i)'
    BY <2>1, <1>0 DEF LkInv, LkKept, HoldsLease, Taking
  <2> QED
    BY <2>1, <1>0, KeptStays DEF LkInv, LkKept, Taking
<1>5. ReadersCounted'
  <2>1. lkOp[t][lkAt[t]].mode = "exclusive"
    BY <1>0 DEF Wanted
  <2>2. ASSUME NEW j \in LkKeys PROVE ReadsUnder(t, j)' <=> ReadsUnder(t, j)
    <3>1. lkOp[t][lkAt[t]] # Lease(j[2], "shared")
      BY <2>1 DEF Lease
    <3>2. Depth(t) = lkAt[t] - 1 /\ Depth(t)' \in { lkAt[t] - 1, lkAt[t] }
      BY <1>0 DEF Depth
    <3>3. 1 .. lkAt[t] = (1 .. (lkAt[t] - 1)) \cup {lkAt[t]}
      BY <1>a
    <3> QED
      BY <3>1, <3>2, <3>3, <1>0 DEF ReadsUnder
  <2>3. ASSUME NEW u \in LkTasks, NEW j \in LkKeys PROVE ReadsUnder(u, j)' <=> ReadsUnder(u, j)
    BY <2>2, <1>0, StayingCounts
  <2> QED
    BY <2>3, <1>0, ReadersSame DEF LkInv
<1>6. ASSUME NEW u \in LkTasks, NEW j \in LkKeys, u # t \/ j # k
      PROVE  WaitsOn(u, j)' <=> WaitsOn(u, j)
  <2>1. CASE u # t
    BY <2>1, <1>0, StayingCounts
  <2>2. CASE u = t
    BY <2>2, <1>6, <1>b, <1>k DEF WaitsOn
  <2> QED
    BY <2>1, <2>2
<1>7. WaitsOn(t, k) <=> lkPc[t] = "woken"
  BY <1>0, <1>k DEF WaitsOn
<1>8. WaitsOn(t, k)' <=> lkPc'[t] = "asleep"
  BY <1>0, <1>b DEF WaitsOn
<1>9. WaitersCounted'
  <2>1. CASE lkPc[t] = "enter" /\ lkPc'[t] = "asleep"
    <3>1. lkWaiting' = [lkWaiting EXCEPT ![k] = @ + 1]
      BY <2>1, <1>0, <1>c, <1>k DEF AcquireExclusive, Moved, LkInv, LkTyped
    <3> QED
      BY <3>1, <2>1, <1>a, <1>6, <1>7, <1>8, WaiterComes DEF LkInv
  <2>2. CASE lkPc[t] = "woken" /\ lkPc'[t] = "poll"
    <3>1. lkWaiting' = [lkWaiting EXCEPT ![k] = @ - 1]
      BY <2>2, <1>0, <1>c, <1>k DEF AcquireExclusive, Moved, LkInv, LkTyped
    <3> QED
      BY <3>1, <2>2, <1>a, <1>6, <1>7, <1>8, WaiterGoes DEF LkInv
  <2>3. CASE ~ (lkPc[t] = "enter" /\ lkPc'[t] = "asleep") /\ ~ (lkPc[t] = "woken" /\ lkPc'[t] = "poll")
    <3>1. lkWaiting' = [lkWaiting EXCEPT ![k] = lkWaiting[k]]
      BY <2>3, <1>0, <1>c, <1>k DEF AcquireExclusive, Moved, LkInv, LkTyped
    <3>2. lkWaiting' = lkWaiting
      BY <3>1, <1>a DEF LkInv, LkTyped
    <3>3. WaitsOn(t, k)' <=> WaitsOn(t, k)
      BY <2>3, <1>0, <1>7, <1>8
    <3> QED
      BY <3>2, <3>3, <1>6, WaitersSame DEF LkInv
  <2> QED
    BY <2>1, <2>2, <2>3
<1>10. SleepsForAReason'
  <2> SUFFICES ASSUME NEW u \in LkTasks, lkPc'[u] = "asleep", LocalOf(u)' \notin lkHurt'
               PROVE  ~ LocalFree(u)'
    BY DEF SleepsForAReason
  <2>1. CASE u = t
    <3>1. ~ ExclusiveFree(k) /\ lkWriter' = lkWriter
      BY <2>1, <1>k DEF AcquireExclusive, Moved, LkInv, LkTyped
    <3> QED
      BY <3>1, <2>1, <1>0, <1>b DEF LocalFree, ExclusiveFree
  <2>2. CASE u # t
    <3>1. lkPc[u] = "asleep" /\ Wanted(u)' = Wanted(u) /\ LocalOf(u)' = LocalOf(u)
      BY <2>2, <1>0, StayingCounts
    <3>2. ~ LocalFree(u)
      BY <3>1, <1>0 DEF LkInv, SleepsForAReason
    <3>3. LocalOf(u) \in LkKeys
      BY <3>1, WantedShape DEF LkInv, LkPlaced, Taking
    <3>4. CASE ExclusiveFree(k)
      <4>1. lkWriter' = [lkWriter EXCEPT ![k] = TRUE] /\ lkWaiting' = [lkWaiting EXCEPT ![k] = waiting - 1]
        BY <3>4, <1>k DEF AcquireExclusive
      <4>2. LocalOf(u) = k => lkWriter'[LocalOf(u)]
        BY <4>1, <1>a, <1>c
      <4>3. LocalOf(u) # k => /\ lkWriter'[LocalOf(u)] = lkWriter[LocalOf(u)]
                              /\ lkWaiting'[LocalOf(u)] = lkWaiting[LocalOf(u)]
        BY <4>1, <3>3, <1>c
      <4> QED
        BY <4>2, <4>3, <3>1, <3>2, <1>0 DEF LocalFree, SharedFree, ExclusiveFree
    <3>5. CASE ~ ExclusiveFree(k)
      <4>1. lkWriter' = lkWriter /\ lkWaiting' = [lkWaiting EXCEPT ![k] = waiting]
        BY <3>5, <1>k DEF AcquireExclusive
      <4>2. lkWaiting[LocalOf(u)] # 0 => lkWaiting'[LocalOf(u)] # 0
        BY <4>1, <3>3, <1>k, <1>c
      <4> QED
        BY <4>1, <4>2, <3>1, <3>2, <1>0 DEF LocalFree, SharedFree, ExclusiveFree
    <3> QED
      BY <3>4, <3>5
  <2> QED
    BY <2>1, <2>2
<1> QED
  BY <1>1, <1>2, <1>3, <1>4, <1>5, <1>9, <1>10 DEF LkInv

LEMMA TryAcquireKeeps ==
  ASSUME LkInv, NEW t \in LkTasks, TryAcquire(t)
  PROVE  LkInv'
<1>0. /\ lkPc[t] = "poll" /\ SystemGrants(t) /\ lkOp'[t] = lkOp[t]
      /\ \A u \in LkTasks \ {t} : Stays(u) /\ lkPc'[u] = lkPc[u]
      /\ UNCHANGED << lkReaders, lkWriter, lkWaiting, lkHurt >>
  BY DEF LkInv, LkTyped, TryAcquire, Moved, Stays, lkLocal
<1>a. /\ lkOp[t] \in LkTransactions /\ lkAt[t] \in 1 .. Len(lkOp[t]) /\ Len(lkOp[t]) \in Nat
      /\ Wanted(t) \in Leases
  BY <1>0, WantedShape DEF LkInv, LkPlaced, Taking
<1>b. \/ lkAt[t] < Len(lkOp[t]) /\ lkAt'[t] = lkAt[t] + 1 /\ lkPc'[t] = "enter"
      \/ lkAt[t] = Len(lkOp[t]) /\ lkAt'[t] = lkAt[t] /\ lkPc'[t] = "inside"
  BY <1>a DEF LkInv, LkTyped, TryAcquire, Moved
<1>c. Wanted(t).lock \in LkNames /\ Hold(t) \in [task : LkTasks, mode : LkModes]
  BY <1>a DEF Leases, Hold
<1>d. lkOs' = [lkOs EXCEPT ![Wanted(t).lock] = @ \cup {Hold(t)}]
  BY DEF TryAcquire
<1>1. LkTyped'
  <2>1. lkOs' \in [LkNames -> SUBSET [task : LkTasks, mode : LkModes]]
    BY <1>c, <1>d DEF LkInv, LkTyped
  <2>2. lkAt' \in [LkTasks -> Nat] /\ lkPc' \in [LkTasks -> LkPcs]
    <3>1. CASE lkAt[t] < Len(lkOp[t])
      <4>1. lkAt' = [lkAt EXCEPT ![t] = @ + 1] /\ lkPc' = [lkPc EXCEPT ![t] = "enter"]
        BY <3>1 DEF TryAcquire, Moved
      <4> QED
        BY <4>1 DEF LkInv, LkTyped, LkPcs
    <3>2. CASE ~ (lkAt[t] < Len(lkOp[t]))
      <4>1. lkAt' = lkAt /\ lkPc' = [lkPc EXCEPT ![t] = "inside"]
        BY <3>2 DEF TryAcquire, Moved
      <4> QED
        BY <4>1 DEF LkInv, LkTyped, LkPcs
    <3> QED
      BY <3>1, <3>2
  <2> QED
    BY <2>1, <2>2, <1>0 DEF LkInv, LkTyped, TryAcquire
<1>2. LkPlaced'
  BY <1>0, <1>a, <1>b, PlacedStays DEF LkInv, LkPlaced, Taking
<1>3. LkCompatible'
  <2> SUFFICES ASSUME NEW l \in LkNames, NEW h \in lkOs'[l], NEW g \in lkOs'[l],
                      h.mode = "exclusive"
               PROVE  h = g
    BY DEF LkCompatible
  <2>1. CASE l = Wanted(t).lock
    <3>1. h \in lkOs[l] \cup {Hold(t)} /\ g \in lkOs[l] \cup {Hold(t)}
      BY <2>1, <1>c, <1>d DEF LkInv, LkTyped
    <3>2. \A u \in lkOs[l] : u.mode = "shared" /\ Wanted(t).mode = "shared"
      BY <2>1, <1>0 DEF SystemGrants
    <3>3. Hold(t).mode = Wanted(t).mode
      BY DEF Hold
    <3> QED
      BY <3>1, <3>2, <3>3
  <2>2. CASE l # Wanted(t).lock
    BY <2>2, <1>c, <1>d DEF LkInv, LkTyped, LkCompatible
  <2> QED
    BY <2>1, <2>2
<1>4. LkKept'
  <2>1. ASSUME NEW l PROVE lkOs[l] \subseteq lkOs'[l]
    BY <1>c, <1>d DEF LkInv, LkTyped
  <2>2. ASSUME NEW i \in 1 .. lkAt[t] PROVE HoldsLease(t, i)'
    <3>1. CASE i < lkAt[t]
      <4>1. HoldsLease(t, i)
        BY <3>1, <1>0 DEF LkInv, LkKept, Taking
      <4> QED
        BY <4>1, <2>1, <1>0 DEF HoldsLease
    <3>2. CASE i = lkAt[t]
      <4>1. Hold(t) \in lkOs'[Wanted(t).lock]
        BY <1>c, <1>d DEF LkInv, LkTyped
      <4> QED
        BY <4>1, <3>2, <1>0 DEF HoldsLease, Hold, Wanted
    <3> QED
      BY <3>1, <3>2, <1>a
  <2>3. ASSUME NEW i \in 1 .. lkAt'[t],
               (lkPc'[t] \in Taking /\ i < lkAt'[t]) \/ lkPc'[t] = "inside"
        PROVE  HoldsLease(t, i)'
    <3>1. i \in 1 .. lkAt[t]
      BY <2>3, <1>a, <1>b
    <3> QED
      BY <3>1, <2>2
  <2>4. ASSUME NEW u \in LkTasks, u # t
        PROVE  \A i \in 1 .. lkAt'[u] :
                 (lkPc'[u] \in Taking /\ i < lkAt'[u]) \/ lkPc'[u] = "inside" => HoldsLease(u, i)'
    BY <2>4, <2>1, <1>0, KeptStays DEF LkInv
  <2> QED
    BY <2>3, <2>4 DEF LkKept
<1>5. Depth(t)' = Depth(t)
  BY <1>0, <1>a, <1>b DEF Depth
<1>6. ASSUME NEW u \in LkTasks, NEW k \in LkKeys
      PROVE  (WaitsOn(u, k)' <=> WaitsOn(u, k)) /\ (ReadsUnder(u, k)' <=> ReadsUnder(u, k))
  <2>1. CASE u = t
    BY <2>1, <1>0, <1>b, <1>5 DEF WaitsOn, ReadsUnder
  <2>2. CASE u # t
    BY <2>2, <1>0, StayingCounts
  <2> QED
    BY <2>1, <2>2
<1>7. WaitersCounted' /\ ReadersCounted'
  BY <1>0, <1>6, WaitersSame, ReadersSame DEF LkInv
<1>8. SleepsForAReason'
  BY <1>0, <1>b, SleepersStay DEF LkInv
<1> QED
  BY <1>1, <1>2, <1>3, <1>4, <1>7, <1>8 DEF LkInv

LEMMA LeaveTransactionKeeps ==
  ASSUME LkInv, NEW t \in LkTasks, LeaveTransaction(t) \/ CancelHolding(t)
  PROVE  LkInv'
<1>0. /\ lkPc[t] \in { "poll", "inside" } /\ lkPc'[t] = "leave"
      /\ lkAt'[t] = lkAt[t] /\ lkOp'[t] = lkOp[t]
      /\ \A u \in LkTasks \ {t} : Stays(u) /\ lkPc'[u] = lkPc[u]
      /\ UNCHANGED << lkReaders, lkWriter, lkWaiting, lkOs, lkHurt >>
  BY DEF LkInv, LkTyped, LeaveTransaction, CancelHolding, Moved, Stays, lkLocal
<1>1. LkTyped'
  BY DEF LkInv, LkTyped, LkPcs, LeaveTransaction, CancelHolding, Moved, lkLocal
<1>2. LkPlaced'
  BY <1>0, PlacedStays DEF LkInv, LkPlaced, Taking
<1>3. LkCompatible' /\ LkKept'
  BY <1>0, KeptStays DEF LkInv, LkCompatible, LkKept, Taking
<1>4. ASSUME NEW u \in LkTasks, NEW k \in LkKeys
      PROVE  (WaitsOn(u, k)' <=> WaitsOn(u, k)) /\ (ReadsUnder(u, k)' <=> ReadsUnder(u, k))
  BY <1>0, StayingCounts DEF WaitsOn, ReadsUnder, Depth
<1>5. WaitersCounted' /\ ReadersCounted'
  BY <1>0, <1>4, WaitersSame, ReadersSame DEF LkInv
<1>6. SleepsForAReason'
  BY <1>0, SleepersStay DEF LkInv
<1> QED
  BY <1>1, <1>2, <1>3, <1>5, <1>6 DEF LkInv

LEMMA TransactionEndsKeeps ==
  ASSUME LkInv, NEW t \in LkTasks, TransactionEnds(t)
  PROVE  LkInv'
<1>0. /\ lkPc[t] = "leave" /\ lkAt[t] = 0 /\ lkPc'[t] = "idle" /\ lkAt'[t] = 0
      /\ \A u \in LkTasks \ {t} : Stays(u) /\ lkPc'[u] = lkPc[u]
      /\ UNCHANGED << lkReaders, lkWriter, lkWaiting, lkOs, lkHurt >>
  BY DEF LkInv, LkTyped, TransactionEnds, Moved, Stays, lkLocal
<1>1. LkTyped'
  BY DEF LkInv, LkTyped, LkPcs, TransactionEnds, Moved, lkLocal
<1>2. LkPlaced'
  BY <1>0, PlacedStays DEF LkInv, LkPlaced, Taking
<1>3. LkCompatible' /\ LkKept'
  BY <1>0, KeptStays DEF LkInv, LkCompatible, LkKept, Taking
<1>4. ASSUME NEW u \in LkTasks, NEW k \in LkKeys
      PROVE  (WaitsOn(u, k)' <=> WaitsOn(u, k)) /\ (ReadsUnder(u, k)' <=> ReadsUnder(u, k))
  BY <1>0, StayingCounts DEF WaitsOn, ReadsUnder, Depth
<1>5. WaitersCounted' /\ ReadersCounted'
  BY <1>0, <1>4, WaitersSame, ReadersSame DEF LkInv
<1>6. SleepsForAReason'
  BY <1>0, SleepersStay DEF LkInv
<1> QED
  BY <1>1, <1>2, <1>3, <1>5, <1>6 DEF LkInv

LEMMA ReleaseLeaseKeeps ==
  ASSUME LkInv, NEW t \in LkTasks, ReleaseLease(t)
  PROVE  LkInv'
<1>0. /\ lkPc[t] = "leave" /\ lkAt[t] > 0 /\ lkPc'[t] = "leave"
      /\ lkAt'[t] = lkAt[t] - 1 /\ lkOp'[t] = lkOp[t]
      /\ \A u \in LkTasks \ {t} : Stays(u)
      /\ UNCHANGED << lkWaiting, lkHurt >>
  BY DEF LkInv, LkTyped, ReleaseLease, ReleaseShared, ReleaseExclusive, NotifyAll, Sleepers,
     Stays
<1>a. /\ lkOp[t] \in LkTransactions /\ lkAt[t] \in 1 .. Len(lkOp[t]) /\ Len(lkOp[t]) \in Nat
      /\ Wanted(t) \in Leases /\ LocalOf(t) \in LkKeys
  BY <1>0, WantedShape DEF LkInv
<1>k. PICK k \in LkKeys : k = LocalOf(t)
  BY <1>a
<1>b. /\ lkPc' = [u \in LkTasks |-> IF u \in Sleepers(k) THEN "woken" ELSE lkPc[u]]
      /\ lkOs' = [lkOs EXCEPT ![Wanted(t).lock] = @ \ {Hold(t)}]
  BY <1>k DEF ReleaseLease, ReleaseShared, ReleaseExclusive, NotifyAll, SystemRelease
<1>c. Wanted(t).mode \in LkModes /\ Wanted(t).lock \in LkNames
  BY <1>a DEF Leases
<1>1. LkTyped'
  <2>1. lkOs' \in [LkNames -> SUBSET [task : LkTasks, mode : LkModes]]
    BY <1>b DEF LkInv, LkTyped
  <2>2. lkPc' \in [LkTasks -> LkPcs]
    BY <1>b DEF LkInv, LkTyped, LkPcs
  <2>3. lkAt' \in [LkTasks -> Nat]
    BY <1>0 DEF LkInv, LkTyped, ReleaseLease
  <2>4. lkReaders' \in [LkKeys -> Int] /\ lkWriter' \in [LkKeys -> BOOLEAN]
    <3>1. CASE Wanted(t).mode = "shared"
      <4>1. lkReaders' = [lkReaders EXCEPT ![k] = @ - 1] /\ lkWriter' = lkWriter
        BY <3>1, <1>k DEF ReleaseLease, ReleaseShared
      <4> QED
        BY <4>1 DEF LkInv, LkTyped
    <3>2. CASE Wanted(t).mode # "shared"
      <4>1. lkReaders' = lkReaders /\ lkWriter' = [lkWriter EXCEPT ![k] = FALSE]
        BY <3>2, <1>k DEF ReleaseLease, ReleaseExclusive
      <4> QED
        BY <4>1 DEF LkInv, LkTyped
    <3> QED
      BY <3>1, <3>2
  <2> QED
    BY <2>1, <2>2, <2>3, <2>4 DEF LkInv, LkTyped, ReleaseLease
<1>2. LkPlaced'
  BY <1>0, <1>a, PlacedStays DEF LkInv, LkPlaced, Taking
<1>3. LkCompatible'
  BY <1>b DEF LkInv, LkTyped, LkCompatible
<1>4. LkKept'
  <2>1. ASSUME NEW u \in LkTasks \ {t}, NEW l, NEW h \in lkOs[l], h.task = u PROVE h \in lkOs'[l]
    <3>1. h # Hold(t)
      BY <2>1 DEF Hold
    <3> QED
      BY <3>1, <2>1, <1>b, <1>c DEF LkInv, LkTyped
  <2>2. ASSUME NEW u \in LkTasks \ {t}
        PROVE  \A i \in 1 .. lkAt'[u] :
                 (lkPc'[u] \in Taking /\ i < lkAt'[u]) \/ lkPc'[u] = "inside" => HoldsLease(u, i)'
    BY <2>1, <1>0, KeptStays DEF LkInv
  <2> QED
    BY <2>2, <1>0 DEF LkKept, Taking
<1>5. WaitersCounted'
  <2>1. ASSUME NEW u \in LkTasks, NEW j \in LkKeys PROVE WaitsOn(u, j)' <=> WaitsOn(u, j)
    BY <1>0, StayingCounts DEF WaitsOn
  <2> QED
    BY <2>1, <1>0, WaitersSame DEF LkInv
<1>6. Depth(t) = lkAt[t] /\ Depth(t)' = lkAt[t] - 1
  BY <1>0 DEF Depth
<1>7. 1 .. lkAt[t] = (1 .. (lkAt[t] - 1)) \cup {lkAt[t]}
  BY <1>a
<1>8. ReadersCounted'
  <2>1. CASE Wanted(t).mode = "shared"
    <3>1. lkReaders' = [lkReaders EXCEPT ![k] = @ - 1]
      BY <2>1, <1>k DEF ReleaseLease, ReleaseShared
    <3>2. ReadsUnder(t, k)
      <4>1. lkOp[t][lkAt[t]] = Lease(k[2], "shared")
        BY <2>1, <1>a, <1>k DEF Wanted, LocalOf, Lease, Leases
      <4>2. LkProc(t) = k[1] /\ lkAt[t] \in 1 .. lkAt[t]
        BY <1>a, <1>k DEF LocalOf
      <4> QED
        BY <4>1, <4>2, <1>6 DEF ReadsUnder
    <3>3. ~ ReadsUnder(t, k)'
      <4> SUFFICES ASSUME NEW i \in 1 .. (lkAt[t] - 1), lkOp[t][i] = Lease(k[2], "shared")
                   PROVE  FALSE
        BY <1>0, <1>6 DEF ReadsUnder
      <4>1. lkOp[t][i].lock = lkOp[t][lkAt[t]].lock
        BY <1>k DEF LocalOf, Wanted, Lease
      <4>2. i \in 1 .. Len(lkOp[t]) /\ i # lkAt[t]
        BY <1>a
      <4> QED
        BY <4>1, <4>2, <1>a, TransactionShape
    <3>4. ASSUME NEW u \in LkTasks, NEW j \in LkKeys, u # t \/ j # k
          PROVE  ReadsUnder(u, j)' <=> ReadsUnder(u, j)
      <4>1. CASE u # t
        BY <4>1, <1>0, StayingCounts
      <4>2. CASE u = t /\ j # k
        <5>1. lkOp[t][lkAt[t]] # Lease(j[2], "shared") \/ LkProc(t) # j[1]
          <6>1. SUFFICES ASSUME lkOp[t][lkAt[t]] = Lease(j[2], "shared"), LkProc(t) = j[1]
                         PROVE  FALSE
            OBVIOUS
          <6>2. j = << LkProc(t), Wanted(t).lock >>
            BY <6>1 DEF LkKeys, Wanted, Lease
          <6> QED
            BY <6>2, <4>2, <1>k DEF LocalOf
        <5> QED
          BY <5>1, <4>2, <1>6, <1>7, <1>0 DEF ReadsUnder
      <4> QED
        BY <4>1, <4>2, <3>4
    <3> QED
      BY <3>1, <3>2, <3>3, <3>4, ReaderGoes DEF LkInv
  <2>2. CASE Wanted(t).mode = "exclusive"
    <3>1. lkReaders' = lkReaders
      BY <2>2 DEF ReleaseLease, ReleaseExclusive
    <3>2. ASSUME NEW j \in LkKeys PROVE ReadsUnder(t, j)' <=> ReadsUnder(t, j)
      <4>1. lkOp[t][lkAt[t]] # Lease(j[2], "shared")
        BY <2>2 DEF Lease, Wanted
      <4> QED
        BY <4>1, <1>6, <1>7, <1>0 DEF ReadsUnder
    <3>3. ASSUME NEW u \in LkTasks, NEW j \in LkKeys PROVE ReadsUnder(u, j)' <=> ReadsUnder(u, j)
      BY <3>2, <1>0, StayingCounts
    <3> QED
      BY <3>1, <3>3, ReadersSame DEF LkInv
  <2> QED
    BY <2>1, <2>2, <1>c DEF LkModes
<1>9. SleepsForAReason'
  <2> SUFFICES ASSUME NEW u \in LkTasks, lkPc'[u] = "asleep", LocalOf(u)' \notin lkHurt'
               PROVE  ~ LocalFree(u)'
    BY DEF SleepsForAReason
  <2>1. u # t /\ u \notin Sleepers(k) /\ lkPc[u] = "asleep"
    BY <1>0, <1>b
  <2>2. Wanted(u)' = Wanted(u) /\ LocalOf(u)' = LocalOf(u)
    BY <2>1, <1>0, StayingCounts
  <2>3. LocalOf(u) # k /\ LocalOf(u) \in LkKeys
    BY <2>1, WantedShape DEF Sleepers, LkInv, LkPlaced, Taking
  <2>4. ~ LocalFree(u)
    BY <2>1, <2>2, <1>0 DEF LkInv, SleepsForAReason
  <2>5. /\ lkReaders'[LocalOf(u)] = lkReaders[LocalOf(u)]
        /\ lkWriter'[LocalOf(u)] = lkWriter[LocalOf(u)]
    BY <2>3, <1>k DEF ReleaseLease, ReleaseShared, ReleaseExclusive, LkInv, LkTyped
  <2> QED
    BY <2>2, <2>4, <2>5, <1>0 DEF LocalFree, SharedFree, ExclusiveFree
<1> QED
  BY <1>1, <1>2, <1>3, <1>4, <1>5, <1>8, <1>9 DEF LkInv

LEMMA CancelWaitingKeeps ==
  ASSUME LkInv, NEW t \in LkTasks, CancelWaiting(t)
  PROVE  LkInv'
<1>0. /\ lkPc[t] \in { "asleep", "woken" } /\ lkPc'[t] = "leave"
      /\ lkAt'[t] = lkAt[t] - 1 /\ lkOp'[t] = lkOp[t]
      /\ \A u \in LkTasks \ {t} : Stays(u) /\ lkPc'[u] = lkPc[u]
      /\ UNCHANGED << lkReaders, lkWriter, lkOs >> /\ lkHurt \subseteq lkHurt'
  BY DEF LkInv, LkTyped, CancelWaiting, Moved, Stays
<1>a. /\ lkOp[t] \in LkTransactions /\ lkAt[t] \in 1 .. Len(lkOp[t]) /\ Len(lkOp[t]) \in Nat
      /\ Wanted(t) \in Leases /\ LocalOf(t) \in LkKeys
  BY <1>0, WantedShape DEF LkInv, LkPlaced, Taking
<1>k. PICK k \in LkKeys : k = LocalOf(t)
  BY <1>a
<1>1. LkTyped'
  <2>1. lkWaiting' \in [LkKeys -> Int]
    BY <1>k DEF LkInv, LkTyped, CancelWaiting
  <2>2. lkAt' \in [LkTasks -> Nat]
    BY <1>a DEF LkInv, LkTyped, CancelWaiting
  <2> QED
    BY <2>1, <2>2 DEF LkInv, LkTyped, LkPcs, CancelWaiting, Moved
<1>2. LkPlaced'
  BY <1>0, <1>a, PlacedStays DEF LkInv, LkPlaced, Taking
<1>3. LkCompatible' /\ LkKept'
  BY <1>0, KeptStays DEF LkInv, LkCompatible, LkKept, Taking
<1>4. ReadersCounted'
  <2>1. Depth(t)' = Depth(t)
    BY <1>0 DEF Depth
  <2>2. ASSUME NEW u \in LkTasks, NEW j \in LkKeys PROVE ReadsUnder(u, j)' <=> ReadsUnder(u, j)
    BY <2>1, <1>0, StayingCounts DEF ReadsUnder
  <2> QED
    BY <2>2, <1>0, ReadersSame DEF LkInv
<1>5. ASSUME NEW u \in LkTasks \ {t}, NEW j \in LkKeys PROVE WaitsOn(u, j)' <=> WaitsOn(u, j)
  BY <1>0, StayingCounts
<1>6. ASSUME NEW j \in LkKeys
      PROVE  ~ WaitsOn(t, j)' /\ (WaitsOn(t, j) <=> Wanted(t).mode = "exclusive" /\ j = k)
  BY <1>0, <1>k DEF WaitsOn
<1>7. CASE Wanted(t).mode = "exclusive"
  <2>1. lkWaiting' = [lkWaiting EXCEPT ![k] = @ - 1] /\ lkHurt' = lkHurt \cup {k}
    BY <1>7, <1>k DEF CancelWaiting
  <2>2. WaitersCounted'
    <3>1. WaitsOn(t, k) /\ ~ WaitsOn(t, k)'
      BY <1>6, <1>7
    <3>2. ASSUME NEW u \in LkTasks, NEW j \in LkKeys, u # t \/ j # k
          PROVE  WaitsOn(u, j)' <=> WaitsOn(u, j)
      <4>1. CASE u # t
        BY <4>1, <1>5
      <4>2. CASE u = t /\ j # k
        BY <4>2, <1>6
      <4> QED
        BY <3>2, <4>1, <4>2
    <3> QED
      BY <2>1, <3>1, <3>2, WaiterGoes DEF LkInv
  <2>3. SleepsForAReason'
    <3> SUFFICES ASSUME NEW u \in LkTasks, lkPc'[u] = "asleep", LocalOf(u)' \notin lkHurt'
                 PROVE  ~ LocalFree(u)'
      BY DEF SleepsForAReason
    <3>1. u # t /\ lkPc[u] = "asleep" /\ Stays(u)
      BY <1>0
    <3>2. Wanted(u)' = Wanted(u) /\ LocalOf(u)' = LocalOf(u)
      BY <3>1, StayingCounts
    <3>3. LocalOf(u) # k /\ LocalOf(u) \in LkKeys /\ ~ LocalFree(u)
      BY <3>1, <3>2, <2>1, WantedShape DEF LkInv, LkPlaced, Taking, SleepsForAReason
    <3>4. lkWaiting'[LocalOf(u)] = lkWaiting[LocalOf(u)]
      BY <3>3, <2>1 DEF LkInv, LkTyped
    <3> QED
      BY <3>2, <3>3, <3>4, <1>0 DEF LocalFree, SharedFree, ExclusiveFree
  <2> QED
    BY <1>1, <1>2, <1>3, <1>4, <2>2, <2>3 DEF LkInv
<1>8. CASE Wanted(t).mode # "exclusive"
  <2>1. lkWaiting' = lkWaiting
    BY <1>8 DEF CancelWaiting
  <2>2. WaitersCounted'
    BY <2>1, <1>5, <1>6, <1>8, WaitersSame DEF LkInv
  <2>3. SleepsForAReason'
    BY <2>1, <1>0, SleepersStay DEF LkInv
  <2> QED
    BY <1>1, <1>2, <1>3, <1>4, <2>2, <2>3 DEF LkInv
<1> QED
  BY <1>7, <1>8

(* A process dies: its coroutines are gone, its local locks are new, and the *)
(* coroutines of the other processes keep everything.                       *)
LEMMA LkDiesKeeps ==
  ASSUME LkInv, NEW p \in LkProcs, LkDies(p)
  PROVE  LkInv'
<1>0. /\ \A u \in LkTasks : LkProc(u) # p => Stays(u) /\ lkPc'[u] = lkPc[u]
      /\ \A u \in LkTasks : LkProc(u) = p => lkPc'[u] = "idle" /\ lkAt'[u] = 0 /\ lkOp'[u] = << >>
  BY DEF LkInv, LkTyped, LkDies, Stays
<1>1. LkTyped'
  <2>1. lkOp' \in [LkTasks -> LkTransactions \cup { << >> }]
    BY DEF LkInv, LkTyped, LkDies
  <2>2. lkAt' \in [LkTasks -> Nat] /\ lkPc' \in [LkTasks -> LkPcs]
    BY DEF LkInv, LkTyped, LkDies, LkPcs
  <2>3. lkReaders' \in [LkKeys -> Int] /\ lkWaiting' \in [LkKeys -> Int]
    BY DEF LkInv, LkTyped, LkDies, LkKeys
  <2>4. lkWriter' \in [LkKeys -> BOOLEAN]
    BY DEF LkInv, LkTyped, LkDies, LkKeys
  <2>5. lkOs' \in [LkNames -> SUBSET [task : LkTasks, mode : LkModes]]
    BY DEF LkInv, LkTyped, LkDies
  <2> QED
    BY <2>1, <2>2, <2>3, <2>4, <2>5 DEF LkTyped
<1>2. LkPlaced'
  <2>1. ASSUME NEW u \in LkTasks, LkProc(u) = p
        PROVE  lkPc'[u] = "idle" /\ lkAt'[u] = 0
    BY <2>1, <1>0
  <2> QED
    BY <2>1, <1>0, PlacedStays DEF LkInv, LkPlaced, Taking
<1>3. LkCompatible'
  BY DEF LkInv, LkTyped, LkCompatible, LkDies
<1>4. LkKept'
  <2>1. ASSUME NEW u \in LkTasks, LkProc(u) # p, NEW l, NEW h \in lkOs[l], l \in LkNames, h.task = u
        PROVE  h \in lkOs'[l]
    BY <2>1 DEF LkDies
  <2>2. ASSUME NEW u \in LkTasks, LkProc(u) # p, NEW i \in 1 .. lkAt'[u],
               (lkPc'[u] \in Taking /\ i < lkAt'[u]) \/ lkPc'[u] = "inside"
        PROVE  HoldsLease(u, i)'
    <3>1. HoldsLease(u, i) /\ lkOp'[u] = lkOp[u] /\ lkAt'[u] = lkAt[u] /\ lkPc[u] # "idle"
      BY <2>2, <1>0 DEF LkInv, LkKept, Stays, Taking
    <3>2. lkOp[u] \in LkTransactions /\ Len(lkOp[u]) \in Nat /\ i \in 1 .. Len(lkOp[u])
      BY <3>1, TransactionShape DEF LkInv, LkPlaced, LkTyped
    <3>3. lkOp[u][i].lock \in LkNames
      BY <3>2, TransactionShape DEF Leases
    <3> QED
      BY <3>1, <3>3, <2>1, <2>2 DEF HoldsLease
  <2>3. ASSUME NEW u \in LkTasks, LkProc(u) = p PROVE lkPc'[u] = "idle"
    BY <2>3, <1>0
  <2> QED
    BY <2>2, <2>3 DEF LkKept, Taking
<1>5. ASSUME NEW u \in LkTasks, NEW k \in LkKeys, k[1] = p
      PROVE  ~ WaitsOn(u, k)' /\ ~ ReadsUnder(u, k)'
  <2>1. CASE LkProc(u) = p
    BY <2>1, <1>0 DEF WaitsOn, ReadsUnder, Depth
  <2>2. CASE LkProc(u) # p
    BY <2>2, <1>5 DEF WaitsOn, LocalOf, ReadsUnder
  <2> QED
    BY <2>1, <2>2
<1>6. ASSUME NEW u \in LkTasks, NEW k \in LkKeys, k[1] # p
      PROVE  (WaitsOn(u, k)' <=> WaitsOn(u, k)) /\ (ReadsUnder(u, k)' <=> ReadsUnder(u, k))
  <2>1. CASE LkProc(u) # p
    BY <2>1, <1>0, StayingCounts
  <2>2. CASE LkProc(u) = p
    BY <2>2, <1>6 DEF WaitsOn, LocalOf, ReadsUnder
  <2> QED
    BY <2>1, <2>2
<1>7. WaitersCounted' /\ ReadersCounted'
  <2>1. ASSUME NEW k \in LkKeys, k[1] = p
        PROVE  lkWaiting'[k] = Cardinality(Waiters(k)') /\ lkReaders'[k] = Cardinality(ReadersOf(k)')
    <3>1. Waiters(k)' = {} /\ ReadersOf(k)' = {}
      BY <2>1, <1>5 DEF Waiters, ReadersOf
    <3>2. lkWaiting'[k] = 0 /\ lkReaders'[k] = 0
      BY <2>1 DEF LkDies, LkKeys
    <3> QED
      BY <3>1, <3>2, FS_EmptySet
  <2>2. ASSUME NEW k \in LkKeys, k[1] # p
        PROVE  lkWaiting'[k] = Cardinality(Waiters(k)') /\ lkReaders'[k] = Cardinality(ReadersOf(k)')
    <3>1. Waiters(k)' = Waiters(k) /\ ReadersOf(k)' = ReadersOf(k)
      BY <2>2, <1>6 DEF Waiters, ReadersOf
    <3>2. lkWaiting'[k] = lkWaiting[k] /\ lkReaders'[k] = lkReaders[k]
      BY <2>2 DEF LkDies, LkKeys
    <3> QED
      BY <3>1, <3>2 DEF LkInv, WaitersCounted, ReadersCounted
  <2> QED
    BY <2>1, <2>2 DEF WaitersCounted, ReadersCounted
<1>8. SleepsForAReason'
  <2> SUFFICES ASSUME NEW u \in LkTasks, lkPc'[u] = "asleep", LocalOf(u)' \notin lkHurt'
               PROVE  ~ LocalFree(u)'
    BY DEF SleepsForAReason
  <2>1. LkProc(u) # p /\ lkPc[u] = "asleep" /\ Stays(u)
    BY <1>0
  <2>2. Wanted(u)' = Wanted(u) /\ LocalOf(u)' = LocalOf(u)
    BY <2>1, StayingCounts
  <2>3. LocalOf(u) \in LkKeys /\ LocalOf(u)[1] # p
    BY <2>1, WantedShape DEF LkInv, LkPlaced, Taking, LocalOf
  <2>4. ~ LocalFree(u)
    BY <2>1, <2>2, <2>3 DEF LkInv, SleepsForAReason, LkDies
  <2>5. /\ lkReaders'[LocalOf(u)] = lkReaders[LocalOf(u)]
        /\ lkWaiting'[LocalOf(u)] = lkWaiting[LocalOf(u)]
    BY <2>3 DEF LkDies, LkKeys
  <2>6. lkWriter'[LocalOf(u)] <=> lkWriter[LocalOf(u)]
    BY <2>3 DEF LkDies, LkKeys
  <2> QED
    BY <2>2, <2>4, <2>5, <2>6 DEF LocalFree, SharedFree, ExclusiveFree
<1> QED
  BY <1>1, <1>2, <1>3, <1>4, <1>7, <1>8 DEF LkInv

LEMMA LkStutterKeeps ==
  ASSUME LkInv, UNCHANGED lkVars
  PROVE  LkInv'
<1>1. LkTyped' /\ LkPlaced' /\ LkCompatible'
  BY DEF lkVars, LkInv, LkTyped, LkPlaced, LkCompatible
<1>2. LkKept'
  BY DEF lkVars, LkInv, LkKept, HoldsLease
<1>3. \A u \in LkTasks : Stays(u)
  BY DEF lkVars, Stays
<1>4. WaitersCounted' /\ ReadersCounted'
  BY <1>3, StayingCounts, WaitersSame, ReadersSame DEF lkVars, LkInv
<1>5. SleepsForAReason'
  BY <1>3, SleepersStay DEF lkVars, LkInv
<1> QED
  BY <1>1, <1>2, <1>4, <1>5 DEF LkInv

LEMMA LkStarts == LkInit => LkInv
<1> SUFFICES ASSUME LkInit PROVE LkInv
  OBVIOUS
<1>1. LkTyped /\ LkPlaced /\ LkCompatible /\ LkKept /\ SleepsForAReason
  BY DEF LkInit, LkTyped, LkPlaced, LkCompatible, LkKept, SleepsForAReason, LkPcs, LkKeys,
     Taking
<1>2. ASSUME NEW k \in LkKeys
      PROVE  lkWaiting[k] = Cardinality(Waiters(k)) /\ lkReaders[k] = Cardinality(ReadersOf(k))
  <2>1. Waiters(k) = {} /\ ReadersOf(k) = {}
    BY DEF LkInit, Waiters, ReadersOf, WaitsOn, ReadsUnder, Depth
  <2>2. lkWaiting[k] = 0 /\ lkReaders[k] = 0
    BY DEF LkInit, LkKeys
  <2> QED
    BY <2>1, <2>2, FS_EmptySet
<1> QED
  BY <1>1, <1>2 DEF LkInv, WaitersCounted, ReadersCounted

(* The invariant of the locks: the counters of every local lock count       *)
(* coroutines, the system's locks are compatible and kept by who is on the   *)
(* way in, and sleepers have a reason (sandbox/locks.py, _lease).           *)
THEOREM LkInvariant == LkSpec => []LkInv
<1>1. ASSUME LkInv, [LkNext]_lkVars PROVE LkInv'
  <2>1. CASE UNCHANGED lkVars
    BY <2>1, <1>1, LkStutterKeeps
  <2>2. ASSUME NEW t \in LkTasks, NEW op \in LkTransactions, BeginTransaction(t, op) PROVE LkInv'
    BY <2>2, <1>1, BeginTransactionKeeps
  <2>3. ASSUME NEW t \in LkTasks, AcquireShared(t) \/ AcquireExclusive(t) \/ TryAcquire(t)
        PROVE  LkInv'
    BY <2>3, <1>1, AcquireSharedKeeps, AcquireExclusiveKeeps, TryAcquireKeeps
  <2>4. ASSUME NEW t \in LkTasks, LeaveTransaction(t) \/ ReleaseLease(t) \/ TransactionEnds(t)
        PROVE  LkInv'
    BY <2>4, <1>1, LeaveTransactionKeeps, ReleaseLeaseKeeps, TransactionEndsKeeps
  <2>5. ASSUME NEW t \in LkTasks, CancelWaiting(t) \/ CancelHolding(t)
        PROVE  LkInv'
    BY <2>5, <1>1, CancelWaitingKeeps, LeaveTransactionKeeps
  <2>6. ASSUME NEW p \in LkProcs, LkDies(p) PROVE LkInv'
    BY <2>6, <1>1, LkDiesKeeps
  <2> QED
    BY <1>1, <2>1, <2>2, <2>3, <2>4, <2>5, <2>6 DEF LkNext
<1> QED
  BY <1>1, LkStarts, PTL DEF LkSpec

LEMMA InsideHolds ==
  ASSUME LkInv, NEW t \in LkTasks, lkPc[t] = "inside", NEW i \in 1 .. Len(lkOp[t])
  PROVE  [task |-> t, mode |-> lkOp[t][i].mode] \in lkOs[lkOp[t][i].lock]
BY DEF LkInv, LkPlaced, LkKept, HoldsLease

(* Two coroutines that hold the same system lock are one, if one of them    *)
(* holds it exclusively.                                                    *)
LEMMA ExclusiveHolderIsAlone ==
  ASSUME LkCompatible, NEW l \in LkNames, NEW t, NEW u, NEW m,
         [task |-> t, mode |-> "exclusive"] \in lkOs[l], [task |-> u, mode |-> m] \in lkOs[l]
  PROVE  t = u
<1>1. [task |-> t, mode |-> "exclusive"] = [task |-> u, mode |-> m]
  BY DEF LkCompatible
<1> QED
  BY <1>1

(* The workspace, mutation and file locks of a project (sandbox/locks.py)    *)
(* exclude what they must, for any number of processes and coroutines and    *)
(* whatever is cancelled or dies: nobody is inside beside an exclusive       *)
(* transaction, a write is alone with its file, and no wake-up is lost but    *)
(* for the waiters that a cancelled writer leaves behind.                   *)
THEOREM LocksExclude == LkSpec => []LocksSound
<1>1. LkInv => LocksSound
  <2> SUFFICES ASSUME LkInv PROVE TransactionsExclude
    BY DEF LkInv, LocksSound
  <2>1. ASSUME NEW t \in LkTasks, NEW u \in LkTasks, Inside(t, {ExclusiveLeases}),
               Inside(u, LkTransactions)
        PROVE  t = u
    <3>1. 1 \in 1 .. Len(lkOp[t]) /\ lkOp[t][1] = Lease("workspace", "exclusive")
      BY <2>1 DEF Inside, ExclusiveLeases
    <3>2. 1 \in 1 .. Len(lkOp[u]) /\ lkOp[u][1].lock = "workspace"
      BY <2>1, TransactionShape DEF Inside
    <3>3. [task |-> t, mode |-> "exclusive"] \in lkOs["workspace"]
      BY <3>1, <2>1, InsideHolds DEF Inside, Lease
    <3>4. [task |-> u, mode |-> lkOp[u][1].mode] \in lkOs["workspace"]
      BY <3>2, <2>1, InsideHolds DEF Inside
    <3> QED
      BY <3>3, <3>4, ExclusiveHolderIsAlone DEF LkInv, LkNames
  <2>2. ASSUME NEW t \in LkTasks, NEW u \in LkTasks, Inside(t, {WriteLeases}),
               Inside(u, {ReadLeases, WriteLeases})
        PROVE  t = u
    <3>1. 3 \in 1 .. Len(lkOp[t]) /\ lkOp[t][3] = Lease("file", "exclusive")
      BY <2>2 DEF Inside, WriteLeases
    <3>2. PICK i \in 1 .. Len(lkOp[u]) : lkOp[u][i].lock = "file"
      <4>1. CASE lkOp[u] = ReadLeases
        <5>1. 2 \in 1 .. Len(lkOp[u]) /\ lkOp[u][2].lock = "file"
          BY <4>1 DEF ReadLeases, Lease
        <5> QED
          BY <5>1
      <4>2. CASE lkOp[u] = WriteLeases
        <5>1. 3 \in 1 .. Len(lkOp[u]) /\ lkOp[u][3].lock = "file"
          BY <4>2 DEF WriteLeases, Lease
        <5> QED
          BY <5>1
      <4> QED
        BY <2>2, <4>1, <4>2 DEF Inside
    <3>3. [task |-> t, mode |-> "exclusive"] \in lkOs["file"]
      BY <3>1, <2>2, InsideHolds DEF Inside, Lease
    <3>4. [task |-> u, mode |-> lkOp[u][i].mode] \in lkOs["file"]
      BY <3>2, <2>2, InsideHolds DEF Inside
    <3> QED
      BY <3>3, <3>4, ExclusiveHolderIsAlone DEF LkInv, LkNames
  <2> QED
    BY <2>1, <2>2 DEF TransactionsExclude
<1> QED
  BY <1>1, LkInvariant, PTL

-----------------------------------------------------------------------------
(* The note vault: files, revisions and trash.                              *)
\* The paths, the ids and the rows of a vault.
NvPaths == NotePaths \cup FolderPaths
NvIds == ({"uuid"} \X Nat) \cup NvPaths \cup {NoNoteId}
NvRow == [id : NvIds, path : NvPaths]
NvDoc(n) == [id : NvIds, body : 0 .. n]
NvRev(n) == [id : NvIds, body : 0 .. n, at : Nat]
NvSteps == {"none", "mkdir", "write", "snapshot", "rows", "remember", "trash", "untrash"}
NvKinds == {"none", "note", "folder", "update", "revert", "move", "delete", "restore"}
NvOpRow == [kind : NvKinds, step : NvSteps, id : NvIds, path : NvPaths \cup {Nowhere},
            from : NvPaths \cup {Nowhere}, tid : Nat, body : Nat]

\* The files: nothing lies in a folder that is not there.
NvFiles(disk, n) ==
  /\ DOMAIN disk \subseteq NvPaths
  /\ \A q \in DOMAIN disk : disk[q] \in NvDoc(n)
  /\ \A q \in DOMAIN disk : FolderOf(q) = Nowhere \/ FolderOf(q) \in DOMAIN disk

\* A deleted tree: the node and what was below it.
NvTree(entry, n) ==
  /\ entry.path \in NvPaths /\ entry.path \in DOMAIN entry.nodes /\ DOMAIN entry.nodes \subseteq NvPaths
  /\ \A q \in DOMAIN entry.nodes : InTree(q, entry.path) /\ entry.nodes[q] \in NvDoc(n)
NvTrees(trash, ops, n) ==
  /\ DOMAIN trash \subseteq 1 .. ops
  /\ \A t \in DOMAIN trash : NvTree(trash[t], n)

\* Where a body is: in a file, in a revision or in the trash.
NvRevised(revs, b) == \E r \in revs : r.body = b
NvHolds(disk, revs, trash, b) ==
  \/ \E q \in DOMAIN disk : disk[q].body = b
  \/ NvRevised(revs, b)
  \/ \E t \in DOMAIN trash : \E q \in DOMAIN trash[t].nodes : trash[t].nodes[q].body = b

\* What the handler in progress has in hand: the file it is about to overwrite is
\* in a revision, and what it took to the trash is not replaced on the disk.
NvOverwrites(path, disk, revs, keep) ==
  /\ path \in NvPaths
  /\ path \in DOMAIN disk => disk[path].body \notin keep \/ NvRevised(revs, disk[path].body)
NvTookAway(op, disk, trash, keep) ==
  /\ op.path \in NvPaths /\ op.tid \in DOMAIN trash /\ trash[op.tid].path = op.path
  /\ \A q \in DOMAIN disk : InTree(q, op.path) => disk[q].body \notin keep
NvMoving(op) ==
  /\ op.path \in NvPaths /\ op.from \in NvPaths
  /\ op.path \in NotePaths <=> op.from \in NotePaths
NvHand(op, disk, revs, trash, keep, n) ==
  /\ op \in NvOpRow
  /\ op.step \in {"snapshot", "rows", "write"} => op.body <= n
  /\ op.step = "mkdir" => op.path \in FolderPaths
  /\ op.step = "rows" => NvMoving(op)
  /\ op.step = "write" => NvOverwrites(op.path, disk, revs, keep)
  /\ op.step = "trash" => NvTookAway(op, disk, trash, keep)

NvInv ==
  /\ nvBodies \in Nat /\ nvOps \in Nat
  /\ NvFiles(nvDisk, nvBodies)
  /\ nvRows \subseteq NvRow /\ nvScan.rows \subseteq NvRow
  /\ nvRevs \subseteq NvRev(nvBodies)
  /\ NvTrees(nvTrash, nvOps, nvBodies)
  /\ nvKeep \subseteq 0 .. nvBodies
  /\ NvHand(nvOp, nvDisk, nvRevs, nvTrash, nvKeep, nvBodies)
  /\ \A b \in nvKeep : NvHolds(nvDisk, nvRevs, nvTrash, b)

\* Sequences of one and of two elements.
LEMMA NvSameOne ==
  ASSUME NEW S, NEW s \in Seq(S), NEW a \in S, Len(s) = 1, s[1] = a PROVE s = <<a>>
<1>1. <<a>> \in Seq(S) /\ Len(<<a>>) = 1 /\ <<a>>[1] = a
  OBVIOUS
<1>2. \A i \in 1..Len(s) : s[i] = <<a>>[i]
  BY <1>1
<1> HIDE <1>1
<1> QED BY <1>1, <1>2, SeqEqual
LEMMA NvSameTwo ==
  ASSUME NEW S, NEW s \in Seq(S), NEW a \in S, NEW b \in S, Len(s) = 2, s[1] = a, s[2] = b PROVE s = <<a, b>>
<1>1. <<a, b>> \in Seq(S) /\ Len(<<a, b>>) = 2 /\ <<a, b>>[1] = a /\ <<a, b>>[2] = b
  OBVIOUS
<1>2. \A i \in 1..Len(s) : s[i] = <<a, b>>[i]
  BY <1>1
<1> QED BY <1>1, <1>2, SeqEqual
\* Cutting and joining short sequences.
LEMMA NvPairs ==
  ASSUME NEW S, NEW a \in S, NEW b \in S
  PROVE  /\ Len(<<a, b>>) = 2 /\ Len(<<a>>) = 1 /\ <<a, b>> # <<a>>
         /\ SubSeq(<<a, b>>, 1, 1) = <<a>> /\ SubSeq(<<a, b>>, 2, 2) = <<b>>
         /\ SubSeq(<<a, b>>, 1, 2) = <<a, b>>
         /\ SubSeq(<<a>>, 1, 1) = <<a>>
         /\ <<a>> \o <<b>> = <<a, b>>
<1>a1. <<a, b>> \in Seq(S) /\ Len(<<a, b>>) = 2 /\ <<a, b>>[1] = a /\ <<a, b>>[2] = b
  OBVIOUS
<1>1. PICK s \in Seq(S) : s = <<a, b>> /\ Len(s) = 2 /\ s[1] = a /\ s[2] = b
  BY <1>a1
<1>a2. <<a>> \in Seq(S) /\ Len(<<a>>) = 1 /\ <<a>>[1] = a
  OBVIOUS
<1>2. PICK t \in Seq(S) : t = <<a>> /\ Len(t) = 1 /\ t[1] = a
  BY <1>a2
<1>a3. <<b>> \in Seq(S) /\ Len(<<b>>) = 1 /\ <<b>>[1] = b
  OBVIOUS
<1>3. PICK u \in Seq(S) : u = <<b>> /\ Len(u) = 1 /\ u[1] = b
  BY <1>a3
<1>4. SubSeq(s, 1, 1) = <<a>>
  <2>1. SubSeq(s, 1, 1) \in Seq(S) /\ Len(SubSeq(s, 1, 1)) = 1 /\ SubSeq(s, 1, 1)[1] = a
    BY <1>1, SubSeqProperties
  <2> QED BY <2>1, NvSameOne
<1>5. SubSeq(s, 2, 2) = <<b>>
  <2>1. SubSeq(s, 2, 2) \in Seq(S) /\ Len(SubSeq(s, 2, 2)) = 1 /\ SubSeq(s, 2, 2)[1] = b
    BY <1>1, SubSeqProperties
  <2> QED BY <2>1, NvSameOne
<1>6. SubSeq(s, 1, 2) = <<a, b>>
  <2>1. SubSeq(s, 1, 2) \in Seq(S) /\ Len(SubSeq(s, 1, 2)) = 2 /\ SubSeq(s, 1, 2)[1] = a /\ SubSeq(s, 1, 2)[2] = b
    BY <1>1, SubSeqProperties
  <2>2. PICK w \in Seq(S) : w = SubSeq(s, 1, 2)
    BY <2>1
  <2>3. Len(w) = 2 /\ w[1] = a /\ w[2] = b
    BY <2>1, <2>2, Zenon
  <2>4. w = <<a, b>>
    BY <2>2, <2>3, NvSameTwo
  <2> QED BY <2>2, <2>4, Zenon
<1>7. SubSeq(t, 1, 1) = <<a>>
  <2>1. SubSeq(t, 1, 1) \in Seq(S) /\ Len(SubSeq(t, 1, 1)) = 1 /\ SubSeq(t, 1, 1)[1] = a
    BY <1>2, SubSeqProperties
  <2> QED BY <2>1, NvSameOne
<1>8. t \o u = <<a, b>>
  <2>1. t \o u \in Seq(S) /\ Len(t \o u) = 2 /\ (t \o u)[1] = a /\ (t \o u)[2] = b
    <3>1. t \o u \in Seq(S) /\ Len(t \o u) = Len(t) + Len(u)
             /\ \A i \in 1 .. Len(t) + Len(u) : (t \o u)[i] = IF i <= Len(t) THEN t[i] ELSE u[i - Len(t)]
      BY ConcatProperties
    <3> QED BY <3>1, <1>2, <1>3
  <2>2. PICK w : w = t \o u
    OBVIOUS
  <2>3. w \in Seq(S) /\ Len(w) = 2 /\ w[1] = a /\ w[2] = b
    BY <2>1, <2>2, Zenon
  <2>4. w = <<a, b>>
    BY <2>3, NvSameTwo
  <2> QED BY <2>2, <2>4, Zenon
<1>9. Len(<<a, b>>) = 2 /\ Len(<<a>>) = 1 /\ <<a, b>> # <<a>>
  OBVIOUS
<1> QED BY <1>1, <1>2, <1>3, <1>4, <1>5, <1>6, <1>7, <1>8, <1>9
\* The pieces of a path: paths are names at the top or in a folder.
LEMMA NvPieces ==
  ASSUME NEW a \in NvNames \cup NvFolders, NEW b \in NvNames \cup NvFolders
  PROVE  /\ Len(<<a, b>>) = 2 /\ Len(<<a>>) = 1 /\ <<a, b>> # <<a>>
         /\ FolderOf(<<a, b>>) = <<a>> /\ FolderOf(<<a>>) = << >>
         /\ SubSeq(<<a, b>>, 1, 1) = <<a>> /\ SubSeq(<<a, b>>, 2, 2) = <<b>>
         /\ SubSeq(<<a, b>>, 1, 2) = <<a, b>> /\ SubSeq(<<a>>, 1, 1) = <<a>>
         /\ <<a>> \o <<b>> = <<a, b>>
<1>1. /\ Len(<<a, b>>) = 2 /\ Len(<<a>>) = 1 /\ <<a, b>> # <<a>>
      /\ SubSeq(<<a, b>>, 1, 1) = <<a>> /\ SubSeq(<<a, b>>, 2, 2) = <<b>>
      /\ SubSeq(<<a, b>>, 1, 2) = <<a, b>> /\ SubSeq(<<a>>, 1, 1) = <<a>>
      /\ <<a>> \o <<b>> = <<a, b>>
  BY NvPairs, ZenonT(30)
<1>2. Len(<<a, b>>) - 1 = 1
  BY <1>1
<1>3. FolderOf(<<a, b>>) = <<a>>
  BY <1>1, <1>2 DEF FolderOf
<1>4. FolderOf(<<a>>) = << >>
  BY DEF FolderOf
<1> QED BY <1>1, <1>3, <1>4

\* What is known of a path of the vault.
LEMMA NvFolder ==
  ASSUME NEW p \in NvPaths
  PROVE  /\ p # Nowhere
         /\ p \in FolderPaths => FolderOf(p) = Nowhere /\ p \notin NotePaths
         /\ p \in NotePaths => FolderOf(p) = Nowhere \/ FolderOf(p) \in FolderPaths
<1>1. CASE p \in FolderPaths
  <2>1. PICK d \in NvFolders : p = << d >>
    BY <1>1 DEF FolderPaths
  <2>2. FolderOf(p) = << >>
    BY <2>1 DEF FolderOf
  <2>3. p \notin NotePaths
    BY <2>1, NvAssumption DEF NotePaths
  <2> QED BY <1>1, <2>1, <2>2, <2>3 DEF Nowhere
<1>2. CASE p \in NotePaths
  <2>1. CASE \E n \in NvNames : p = << n >>
    BY <1>2, <2>1, NvAssumption DEF FolderOf, Nowhere, FolderPaths
  <2>2. CASE \E d \in NvFolders, n \in NvNames : p = << d, n >>
    <3>1. PICK d \in NvFolders, n \in NvNames : p = << d, n >>
      BY <2>2
    <3>2. FolderOf(p) = << d >>
      BY <3>1, NvPieces
    <3> QED BY <3>1, <3>2 DEF Nowhere, FolderPaths
  <2> QED BY <1>2, <2>1, <2>2 DEF NotePaths
<1> QED BY <1>1, <1>2 DEF NvPaths

\* The tree of a path is the path and what lies directly in it: the vault has two levels.
LEMMA NvUnder ==
  ASSUME NEW p \in NvPaths, NEW q \in NvPaths
  PROVE  InTree(q, p) <=> (q = p \/ FolderOf(q) = p)
<1> DEFINE S == NvNames \cup NvFolders
<1>1. ASSUME NEW r \in NvPaths
      PROVE  (\E x \in S : r = << x >>) \/ (\E d \in S, n \in S : r = << d, n >>)
  BY DEF NvPaths, NotePaths, FolderPaths
<1>2. ASSUME NEW x \in S PROVE Len(<< x >>) = 1 /\ FolderOf(<< x >>) = << >> /\ SubSeq(<< x >>, 1, 1) = << x >>
  <2>1. Len(<< x >>) = 1 /\ SubSeq(<< x >>, 1, 1) = << x >>
    BY NvPieces
  <2>2. FolderOf(<< x >>) = << >>
    BY DEF FolderOf
  <2> QED BY <2>1, <2>2
<1>3. ASSUME NEW d \in S, NEW n \in S
      PROVE  /\ Len(<< d, n >>) = 2 /\ FolderOf(<< d, n >>) = << d >> /\ SubSeq(<< d, n >>, 1, 1) = << d >>
             /\ SubSeq(<< d, n >>, 1, 2) = << d, n >>
  <2>1. Len(<< d, n >>) = 2 /\ SubSeq(<< d, n >>, 1, 1) = << d >> /\ SubSeq(<< d, n >>, 1, 2) = << d, n >>
    BY NvPieces
  <2>2. Len(<< d, n >>) - 1 = 1
    BY <2>1
  <2>3. FolderOf(<< d, n >>) = << d >>
    BY <2>1, <2>2 DEF FolderOf
  <2> QED BY <2>1, <2>3
<1> HIDE DEF S
<1>4. CASE \E x \in S : q = << x >>
  <2>1. PICK x \in S : q = << x >>
    BY <1>4
  <2>2. CASE \E y \in S : p = << y >>
    <3>1. PICK y \in S : p = << y >>
      BY <2>2
    <3>2. Len(p) = 1 /\ Len(q) = 1 /\ FolderOf(q) = << >> /\ SubSeq(q, 1, 1) = q /\ p # << >>
      BY <2>1, <3>1, <1>2
    <3> QED BY <3>2 DEF InTree
  <2>3. CASE \E d \in S, n \in S : p = << d, n >>
    <3>1. PICK d \in S, n \in S : p = << d, n >>
      BY <2>3
    <3>2. Len(p) = 2 /\ Len(q) = 1 /\ FolderOf(q) = << >> /\ p # << >> /\ p # q
      BY <2>1, <3>1, <1>2, <1>3
    <3> QED BY <3>2 DEF InTree
  <2> QED BY <1>1, <2>2, <2>3
<1>5. CASE \E d \in S, n \in S : q = << d, n >>
  <2>1. PICK d \in S, n \in S : q = << d, n >>
    BY <1>5
  <2>2. CASE \E y \in S : p = << y >>
    <3>1. PICK y \in S : p = << y >>
      BY <2>2
    <3>2. Len(p) = 1 /\ Len(q) = 2 /\ SubSeq(q, 1, 1) = FolderOf(q) /\ p # q
      BY <2>1, <3>1, <1>2, <1>3
    <3> QED BY <3>2 DEF InTree
  <2>3. CASE \E e \in S, m \in S : p = << e, m >>
    <3>1. PICK e \in S, m \in S : p = << e, m >>
      BY <2>3
    <3>2. /\ Len(p) = 2 /\ Len(q) = 2 /\ SubSeq(q, 1, 2) = q
          /\ FolderOf(q) = << d >> /\ Len(<< d >>) = 1
      BY <2>1, <3>1, <1>2, <1>3
    <3>3. FolderOf(q) # p
      BY <3>2
    <3> QED BY <3>2, <3>3 DEF InTree
  <2> QED BY <1>1, <2>2, <2>3
<1> QED BY <1>1, <1>4, <1>5

\* A tree moved elsewhere and back.
LEMMA NvMoves ==
  ASSUME NEW from \in NvPaths, NEW to \in NvPaths, from \in NotePaths <=> to \in NotePaths,
         NEW q \in NvPaths, InTree(q, from)
  PROVE  /\ Rebase(q, from, to) \in NvPaths /\ Rebase(Rebase(q, from, to), to, from) = q
         /\ InTree(Rebase(q, from, to), to)
         /\ q = from => Rebase(q, from, to) = to
         /\ q # from => FolderOf(Rebase(q, from, to)) = to
<1>1. q = from \/ FolderOf(q) = from
  BY NvUnder
<1> DEFINE S == NvNames \cup NvFolders
<1>2. ASSUME NEW p \in NvPaths, NEW t \in NvPaths PROVE Rebase(p, p, t) = t
  <2>1. p \in Seq(S) /\ t \in Seq(S)
    <3>1. ASSUME NEW x \in S PROVE << x >> \in Seq(S)
      OBVIOUS
    <3>2. ASSUME NEW x \in S, NEW y \in S PROVE << x, y >> \in Seq(S)
      OBVIOUS
    <3>3. ASSUME NEW r \in NvPaths
          PROVE  (\E x \in S : r = << x >>) \/ (\E d \in S, n \in S : r = << d, n >>)
      BY DEF NvPaths, NotePaths, FolderPaths
    <3>4. ASSUME NEW r \in NvPaths PROVE r \in Seq(S)
      BY <3>1, <3>2, <3>3
    <3> HIDE DEF S
    <3> QED BY <3>4
  <2>2. Len(p) \in Nat /\ Len(p) < Len(p) + 1
    BY <2>1
  <2>3. SubSeq(p, Len(p) + 1, Len(p)) = << >>
    BY <2>2, SubSeqEmpty
  <2>4. t \o << >> = t
    BY <2>1, ConcatEmptySeq
  <2> QED BY <2>3, <2>4 DEF Rebase
<1>3. CASE q = from
  BY <1>2, <1>3, NvUnder
<1>4. CASE q # from
  <2>1. from \in FolderPaths /\ to \in FolderPaths
    BY <1>1, <1>4, NvFolder DEF NvPaths
  <2>2. PICK d \in NvFolders, e \in NvFolders : from = << d >> /\ to = << e >>
    BY <2>1 DEF FolderPaths
  <2>3. q \in NotePaths
    BY <1>1, <1>4, <2>1, NvFolder DEF NvPaths
  <2>4. PICK n \in NvNames : q = << d, n >>
    <3>1. CASE \E n \in NvNames : q = << n >>
      BY <1>1, <1>4, <2>2, <3>1 DEF FolderOf
    <3>2. CASE \E c \in NvFolders, n \in NvNames : q = << c, n >>
      <4>1. PICK c \in NvFolders, n \in NvNames : q = << c, n >>
        BY <3>2
      <4>2. FolderOf(q) = << c >>
        BY <4>1, NvPieces
      <4>3. << c >> = << d >>
        BY <1>1, <1>4, <2>2, <4>2
      <4>4. c = d
        BY <4>3
      <4> QED BY <4>1, <4>4
    <3> QED BY <2>3, <3>1, <3>2 DEF NotePaths
  <2>5. ASSUME NEW a \in NvFolders, NEW b \in NvFolders, NEW m \in NvNames
        PROVE  Rebase(<< a, m >>, << a >>, << b >>) = << b, m >>
    <3>1. SubSeq(<< a, m >>, 2, 2) = << m >> /\ Len(<< a >>) = 1 /\ Len(<< a, m >>) = 2
      BY NvPieces
    <3>2. Len(<< a >>) + 1 = 2
      BY <3>1
    <3>3. << b >> \o << m >> = << b, m >>
      BY NvPieces
    <3> QED BY <3>1, <3>2, <3>3 DEF Rebase
  <2>6. Rebase(q, from, to) = << e, n >> /\ Rebase(<< e, n >>, to, from) = q
    BY <2>2, <2>4, <2>5
  <2>7. << e, n >> \in NvPaths /\ FolderOf(<< e, n >>) = to
    <3>1. << e, n >> \in NvPaths
      BY DEF NvPaths, NotePaths
    <3>2. FolderOf(<< e, n >>) = << e >>
      BY NvPieces
    <3> QED BY <2>2, <3>1, <3>2
  <2> QED BY <1>4, <2>6, <2>7, NvUnder
<1> QED BY <1>3, <1>4

\* What the ids and the rows of the index are.
LEMMA NvIdsOf ==
  /\ NoNoteId \in NvIds
  /\ \A n \in Nat : << "uuid", n >> \in NvIds
  /\ \A p \in NvPaths : p \in NvIds
BY DEF NvIds

\* A row names a path of the vault.
LEMMA NvNamed ==
  ASSUME nvRows \subseteq NvRow, NEW id, RowsOf(id) # {}
  PROVE  PathOf(id) \in NvPaths
<1>1. \E r \in nvRows : r.id = id
  BY DEF RowsOf
<1>2. DEFINE r == CHOOSE r \in nvRows : r.id = id
<1>3. r \in nvRows
  BY <1>1
<1> QED BY <1>3 DEF PathOf, NvRow

\* The rows a rebuild finds are rows.
LEMMA NvIndexed ==
  ASSUME NEW disk, NEW n, NvFiles(disk, n)
  PROVE  Indexed(disk) \subseteq NvRow
<1> DEFINE First(p) == disk[p].id # NoNoteId
                       /\ p = CHOOSE q \in DOMAIN disk : q \in NotePaths /\ disk[q].id = disk[p].id
           Id(p) == IF p \in NotePaths /\ First(p) THEN disk[p].id ELSE p
<1>1. ASSUME NEW p \in DOMAIN disk PROVE [id |-> Id(p), path |-> p] \in NvRow
  <2>1. p \in NvPaths /\ disk[p] \in NvDoc(n)
    BY DEF NvFiles
  <2>2. disk[p].id \in NvIds /\ p \in NvIds
    BY <2>1, NvIdsOf DEF NvDoc
  <2>3. Id(p) \in NvIds
    BY <2>2
  <2> HIDE DEF Id
  <2> QED BY <2>1, <2>3 DEF NvRow
<1>2. Indexed(disk) = {[id |-> Id(p), path |-> p] : p \in DOMAIN disk}
  BY DEF Indexed
<1> HIDE DEF Id
<1> QED BY <1>1, <1>2

\* Every body that is to be kept, before and after a step.
LEMMA NvKeeps ==
  /\ BodyKept <=> \A b \in nvKeep : NvHolds(nvDisk, nvRevs, nvTrash, b)
  /\ BodyKept' <=> \A b \in nvKeep' : NvHolds(nvDisk', nvRevs', nvTrash', b)
<1>1. ASSUME NEW b PROVE b \in Stored <=> NvHolds(nvDisk, nvRevs, nvTrash, b)
  BY DEF Stored, NvHolds, NvRevised
<1>2. ASSUME NEW b PROVE b \in Stored' <=> NvHolds(nvDisk', nvRevs', nvTrash', b)
  BY DEF Stored, NvHolds, NvRevised
<1> QED BY <1>1, <1>2 DEF BodyKept

\* The bounds grow: what was a document stays one.
LEMMA NvGrows ==
  ASSUME NEW n \in Nat, NEW m \in Nat, n <= m
  PROVE  /\ NvDoc(n) \subseteq NvDoc(m) /\ NvRev(n) \subseteq NvRev(m)
         /\ \A disk : NvFiles(disk, n) => NvFiles(disk, m)
         /\ \A e : NvTree(e, n) => NvTree(e, m)
<1>1. NvDoc(n) \subseteq NvDoc(m) /\ NvRev(n) \subseteq NvRev(m)
  BY DEF NvDoc, NvRev
<1>2. ASSUME NEW disk, NvFiles(disk, n) PROVE NvFiles(disk, m)
  BY <1>1, <1>2 DEF NvFiles
<1>3. ASSUME NEW e, NvTree(e, n) PROVE NvTree(e, m)
  BY <1>1, <1>3 DEF NvTree
<1> QED BY <1>1, <1>2, <1>3

\* So do the trees of the trash.
LEMMA NvTreesGrow ==
  ASSUME NEW n \in Nat, NEW m \in Nat, n <= m, NEW o \in Nat, NEW k \in Nat, o <= k,
         NEW trash, NvTrees(trash, o, n)
  PROVE  NvTrees(trash, k, m)
<1>1. 1 .. o \subseteq 1 .. k
  OBVIOUS
<1>2. \A e : NvTree(e, n) => NvTree(e, m)
  BY NvGrows
<1> QED BY <1>1, <1>2 DEF NvTrees

\* A step that leaves the files, the revisions and the trash alone.
LEMMA NvQuiet ==
  ASSUME NvInv, nvDisk' = nvDisk, nvRevs' = nvRevs, nvTrash' = nvTrash, nvKeep' = nvKeep,
         nvBodies' \in Nat, nvBodies <= nvBodies', nvOps' \in Nat, nvOps <= nvOps',
         nvRows' \subseteq NvRow, nvScan'.rows \subseteq NvRow,
         NvHand(nvOp', nvDisk', nvRevs', nvTrash', nvKeep', nvBodies')
  PROVE  NvInv'
<1>1. /\ nvBodies \in Nat /\ nvOps \in Nat /\ NvFiles(nvDisk, nvBodies) /\ nvRevs \subseteq NvRev(nvBodies)
      /\ NvTrees(nvTrash, nvOps, nvBodies) /\ nvKeep \subseteq 0 .. nvBodies
      /\ \A b \in nvKeep : NvHolds(nvDisk, nvRevs, nvTrash, b)
  BY DEF NvInv
<1>2. NvFiles(nvDisk', nvBodies')
  <2>1. NvFiles(nvDisk, nvBodies')
    BY <1>1, NvGrows
  <2> QED BY <2>1
<1>3. nvRevs' \subseteq NvRev(nvBodies')
  <2>1. NvRev(nvBodies) \subseteq NvRev(nvBodies')
    BY <1>1, NvGrows
  <2> QED BY <1>1, <2>1
<1>4. NvTrees(nvTrash', nvOps', nvBodies')
  <2>1. NvTrees(nvTrash, nvOps', nvBodies')
    BY <1>1, NvTreesGrow
  <2> QED BY <2>1
<1>5. nvKeep' \subseteq 0 .. nvBodies'
  BY <1>1
<1>6. \A b \in nvKeep' : NvHolds(nvDisk', nvRevs', nvTrash', b)
  BY <1>1
<1> QED BY <1>2, <1>3, <1>4, <1>5, <1>6 DEF NvInv

\* A handler that is done has nothing in hand.
LEMMA NvNothing ==
  ASSUME NEW disk, NEW revs, NEW trash, NEW keep, NEW n
  PROVE  NvHand(NoOp, disk, revs, trash, keep, n)
<1>1. NoOp \in NvOpRow
  BY NvIdsOf DEF NoOp, NvOpRow, NvKinds, NvSteps
<1>2. NoOp.step = "none"
  BY DEF NoOp
<1> QED BY <1>1, <1>2 DEF NvHand

\* A handler that only has to remember the signature has nothing in hand either.
LEMMA NvLeft ==
  ASSUME NEW op, NEW from, NvHand(from, nvDisk, nvRevs, nvTrash, nvKeep, nvBodies),
         op = [from EXCEPT !.step = "remember"],
         NEW disk, NEW revs, NEW trash, NEW keep, NEW n
  PROVE  NvHand(op, disk, revs, trash, keep, n)
<1>1. from \in NvOpRow
  BY DEF NvHand
<1>2. op \in NvOpRow /\ op.step = "remember"
  BY <1>1 DEF NvOpRow, NvSteps
<1> QED BY <1>2 DEF NvHand

\* The rows of the index and the scan are of their type after a rebuild has read the files.
LEMMA NvScans ==
  ASSUME NvInv, NEW who, ScanBegins(who)
  PROVE  nvScan'.rows \subseteq NvRow
<1>1. Indexed(nvDisk) \subseteq NvRow
  BY NvIndexed DEF NvInv
<1> QED BY <1>1 DEF ScanBegins

\* What a handler has in hand does not change while the files, the revisions, the
\* trash and the bodies do not.
LEMMA NvSameHand ==
  ASSUME NvInv, UNCHANGED << nvOp, nvDisk, nvRevs, nvTrash, nvKeep, nvBodies >>
  PROVE  NvHand(nvOp', nvDisk', nvRevs', nvTrash', nvKeep', nvBodies')
BY DEF NvInv

\* The rebuild, the watcher and the signature touch no file.
LEMMA NvIndexStep ==
  ASSUME NvInv, NvIndex
  PROVE  NvInv'
<1>0. /\ nvBodies \in Nat /\ nvOps \in Nat /\ nvRows \subseteq NvRow /\ nvScan.rows \subseteq NvRow
      /\ NvHand(nvOp, nvDisk, nvRevs, nvTrash, nvKeep, nvBodies) /\ nvBodies <= nvBodies /\ nvOps <= nvOps
  BY DEF NvInv
<1>1. nvDisk' = nvDisk /\ nvRevs' = nvRevs /\ nvTrash' = nvTrash /\ nvKeep' = nvKeep /\ nvBodies' = nvBodies /\ nvOps' = nvOps
  BY DEF NvIndex, ReindexCommits, QueueWatcher, FlushWatcher, SyncIndex, RememberSignature, nvCounts
<1>2. nvRows' \subseteq NvRow
  BY <1>0 DEF NvIndex, ReindexCommits, QueueWatcher, FlushWatcher, SyncIndex, RememberSignature
<1>3. nvScan'.rows \subseteq NvRow
  <2>1. CASE ReindexCommits
    BY <2>1 DEF ReindexCommits, NoScan
  <2>2. CASE FlushWatcher
    BY <1>0, <2>2, NvScans DEF FlushWatcher
  <2>3. CASE SyncIndex
    BY <1>0, <2>3, NvScans DEF SyncIndex
  <2>4. CASE QueueWatcher \/ RememberSignature
    BY <1>0, <2>4 DEF QueueWatcher, RememberSignature
  <2> QED BY <2>1, <2>2, <2>3, <2>4 DEF NvIndex
<1>4. NvHand(nvOp', nvDisk', nvRevs', nvTrash', nvKeep', nvBodies')
  <2>1. CASE RememberSignature
    <3>1. nvOp' = NoOp
      BY <2>1 DEF RememberSignature
    <3>2. NvHand(NoOp, nvDisk', nvRevs', nvTrash', nvKeep', nvBodies')
      BY NvNothing
    <3> QED BY <3>1, <3>2
  <2>2. CASE ReindexCommits \/ QueueWatcher \/ FlushWatcher \/ SyncIndex
    <3>1. nvOp' = nvOp
      BY <2>2 DEF ReindexCommits, QueueWatcher, FlushWatcher, SyncIndex
    <3> QED BY <1>1, <3>1, NvSameHand
  <2> QED BY <2>1, <2>2 DEF NvIndex
<1>5. nvBodies' \in Nat /\ nvBodies <= nvBodies' /\ nvOps' \in Nat /\ nvOps <= nvOps'
  BY <1>0, <1>1
<1> QED BY <1>1, <1>2, <1>3, <1>4, <1>5, NvQuiet

\* Neither do the steps that only change the rows of the trash.
LEMMA NvUntrashed ==
  ASSUME NvInv, Untrash \/ TrashRow
  PROVE  NvInv'
<1>0. /\ nvBodies \in Nat /\ nvOps \in Nat /\ nvRows \subseteq NvRow /\ nvScan.rows \subseteq NvRow
      /\ NvHand(nvOp, nvDisk, nvRevs, nvTrash, nvKeep, nvBodies)
  BY DEF NvInv
<1>1. nvDisk' = nvDisk /\ nvRevs' = nvRevs /\ nvTrash' = nvTrash /\ nvKeep' = nvKeep /\ nvBodies' = nvBodies /\ nvOps' = nvOps
  BY DEF Untrash, TrashRow, nvCounts
<1>2. nvRows' \subseteq NvRow
  BY <1>0 DEF Untrash, TrashRow
<1>3. nvScan'.rows \subseteq NvRow
  <2>1. CASE Untrash
    BY <2>1, NvScans DEF Untrash
  <2>2. CASE TrashRow
    BY <1>0, <2>2 DEF TrashRow
  <2> QED BY <2>1, <2>2
<1>4. NvHand(nvOp', nvDisk', nvRevs', nvTrash', nvKeep', nvBodies')
  <2>1. CASE Untrash
    <3>1. nvOp' = NoOp
      BY <2>1 DEF Untrash
    <3>2. NvHand(NoOp, nvDisk', nvRevs', nvTrash', nvKeep', nvBodies')
      BY NvNothing
    <3> QED BY <3>1, <3>2
  <2>2. CASE TrashRow
    <3>1. nvOp' = [nvOp EXCEPT !.step = "remember"]
      BY <2>2 DEF TrashRow
    <3> QED BY <1>0, <3>1, NvLeft
  <2> QED BY <2>1, <2>2
<1>5. nvBodies' \in Nat /\ nvBodies <= nvBodies' /\ nvOps' \in Nat /\ nvOps <= nvOps'
  BY <1>0, <1>1
<1> QED BY <1>1, <1>2, <1>3, <1>4, <1>5, NvQuiet

\* A death leaves the files, the revisions and the trash; the rows may be rebuilt.
LEMMA NvDead ==
  ASSUME NvInv, NvDies
  PROVE  NvInv'
<1>0. /\ nvBodies \in Nat /\ nvOps \in Nat /\ nvRows \subseteq NvRow /\ NvFiles(nvDisk, nvBodies)
  BY DEF NvInv
<1>1. nvDisk' = nvDisk /\ nvRevs' = nvRevs /\ nvTrash' = nvTrash /\ nvKeep' = nvKeep /\ nvBodies' = nvBodies /\ nvOps' = nvOps
  BY DEF NvDies
<1>2. nvRows' \subseteq NvRow
  <2>1. Indexed(nvDisk) \subseteq NvRow
    BY <1>0, NvIndexed
  <2> QED BY <1>0, <2>1 DEF NvDies
<1>3. nvScan'.rows \subseteq NvRow
  BY DEF NvDies, NoScan
<1>4. NvHand(nvOp', nvDisk', nvRevs', nvTrash', nvKeep', nvBodies')
  <2>1. nvOp' = NoOp
    BY DEF NvDies
  <2>2. NvHand(NoOp, nvDisk', nvRevs', nvTrash', nvKeep', nvBodies')
    BY NvNothing
  <2> QED BY <2>1, <2>2
<1>5. nvBodies' \in Nat /\ nvBodies <= nvBodies' /\ nvOps' \in Nat /\ nvOps <= nvOps'
  BY <1>0, <1>1
<1> QED BY <1>1, <1>2, <1>3, <1>4, <1>5, NvQuiet

\* create(): the row of a path nothing lies at, and the body it will get.
LEMMA NvCreates ==
  ASSUME NvInv, NEW kind \in {"note", "folder"}, NEW p \in NvPaths, CreateRow(kind, p)
  PROVE  NvInv'
<1>0. /\ nvBodies \in Nat /\ nvOps \in Nat /\ nvRows \subseteq NvRow /\ nvScan.rows \subseteq NvRow
  BY DEF NvInv
<1>1. /\ nvDisk' = nvDisk /\ nvRevs' = nvRevs /\ nvTrash' = nvTrash /\ nvKeep' = nvKeep /\ nvOps' = nvOps + 1
      /\ nvBodies' = IF kind = "note" THEN nvBodies + 1 ELSE nvBodies
      /\ nvRows' = nvRows \cup {[id |-> <<"uuid", nvOps'>>, path |-> p]} /\ nvScan' = nvScan
      /\ nvOp' = [NoOp EXCEPT !.kind = kind, !.step = IF kind = "note" THEN "write" ELSE "mkdir",
                              !.id = <<"uuid", nvOps'>>, !.path = p, !.body = nvBodies + 1]
      /\ p \in (IF kind = "note" THEN NotePaths ELSE FolderPaths) /\ p \notin DOMAIN nvDisk
  BY DEF CreateRow, Started, UniquePath
<1>2. PICK id : id = <<"uuid", nvOps'>>
  OBVIOUS
<1>3. id \in NvIds
  BY <1>0, <1>1, <1>2, NvIdsOf
<1>4. nvRows' \subseteq NvRow
  <2>1. [id |-> id, path |-> p] \in NvRow
    BY <1>3 DEF NvRow
  <2> QED BY <1>0, <1>1, <1>2, <2>1
<1>5. nvScan'.rows \subseteq NvRow
  BY <1>0, <1>1
<1>6. nvBodies' \in Nat /\ nvBodies <= nvBodies' /\ nvOps' \in Nat /\ nvOps <= nvOps'
  BY <1>0, <1>1
<1>7. NvHand(nvOp', nvDisk', nvRevs', nvTrash', nvKeep', nvBodies')
  <2>1. /\ nvOp'.kind = kind /\ nvOp'.id = id /\ nvOp'.path = p /\ nvOp'.body = nvBodies + 1
        /\ nvOp'.step = IF kind = "note" THEN "write" ELSE "mkdir"
    BY <1>1, <1>2 DEF NoOp
  <2>2. nvOp' \in NvOpRow
    <3>1. PICK s : s = IF kind = "note" THEN "write" ELSE "mkdir"
      OBVIOUS
    <3>2. nvOp' = [kind |-> kind, step |-> s, id |-> id, path |-> p, from |-> Nowhere, tid |-> 0, body |-> nvBodies + 1]
      BY <1>1, <1>2, <3>1 DEF NoOp
    <3>3. s \in NvSteps /\ kind \in NvKinds /\ nvBodies + 1 \in Nat
      BY <1>0, <3>1 DEF NvSteps, NvKinds
    <3> QED BY <1>3, <3>2, <3>3 DEF NvOpRow
  <2>3. p \notin DOMAIN nvDisk'
    BY <1>1
  <2>4. CASE kind = "note"
    <3>1. nvOp'.step = "write" /\ nvOp'.body <= nvBodies'
      BY <1>0, <1>1, <2>1, <2>4
    <3>2. NvOverwrites(nvOp'.path, nvDisk', nvRevs', nvKeep')
      BY <2>1, <2>3 DEF NvOverwrites
    <3> QED BY <2>2, <3>1, <3>2 DEF NvHand
  <2>5. CASE kind # "note"
    <3>1. nvOp'.step = "mkdir" /\ nvOp'.path \in FolderPaths
      BY <1>1, <2>1, <2>5
    <3> QED BY <2>2, <3>1 DEF NvHand
  <2> QED BY <2>4, <2>5
<1> QED BY <1>1, <1>4, <1>5, <1>6, <1>7, NvQuiet

\* update() and restore_revision() take a body in hand.
NvTakes(op, kind, id, b) == op = [NoOp EXCEPT !.kind = kind, !.step = "snapshot", !.id = id, !.body = b]

\* Neither update() nor restore_revision() touches a file yet.
LEMMA NvUpdates ==
  ASSUME NvInv, NEW r \in nvRows, UpdateBody(r.id) \/ \E b \in 1 .. MaxBodies : RestoreRevision(r.id, b)
  PROVE  NvInv'
<1>0. /\ nvBodies \in Nat /\ nvOps \in Nat /\ nvRows \subseteq NvRow /\ nvScan.rows \subseteq NvRow
      /\ nvRevs \subseteq NvRev(nvBodies) /\ r.id \in NvIds
  BY DEF NvInv, NvRow
<1>1. /\ nvDisk' = nvDisk /\ nvRevs' = nvRevs /\ nvTrash' = nvTrash /\ nvKeep' = nvKeep /\ nvOps' = nvOps + 1
      /\ nvRows' = nvRows /\ nvScan' = nvScan
  BY DEF UpdateBody, RestoreRevision, Started
<1>2. /\ nvBodies' \in Nat /\ nvBodies <= nvBodies'
      /\ \E kind \in NvKinds, b \in 0 .. nvBodies' :
           NvTakes(nvOp', kind, r.id, b)
  <2>1. CASE UpdateBody(r.id)
    <3>1. nvBodies' = nvBodies + 1 /\ nvOp' = [NoOp EXCEPT !.kind = "update", !.step = "snapshot", !.id = r.id, !.body = nvBodies']
      BY <2>1 DEF UpdateBody
    <3>2. "update" \in NvKinds /\ nvBodies' \in 0 .. nvBodies'
      BY <1>0, <3>1 DEF NvKinds
    <3>3. NvTakes(nvOp', "update", r.id, nvBodies')
      BY <3>1 DEF NvTakes
    <3> QED BY <1>0, <3>1, <3>2, <3>3
  <2>2. CASE \E b \in 1 .. MaxBodies : RestoreRevision(r.id, b)
    <3>1. PICK b \in 1 .. MaxBodies : RestoreRevision(r.id, b)
      BY <2>2
    <3>2. /\ nvBodies' = nvBodies /\ Revised(r.id, b)
          /\ nvOp' = [NoOp EXCEPT !.kind = "revert", !.step = "snapshot", !.id = r.id, !.body = b]
      BY <3>1 DEF RestoreRevision
    <3>3. b \in 0 .. nvBodies
      BY <1>0, <3>2 DEF Revised, NvRev
    <3>4. b \in 0 .. nvBodies' /\ "revert" \in NvKinds
      BY <3>2, <3>3 DEF NvKinds
    <3>5. NvTakes(nvOp', "revert", r.id, b)
      BY <3>2 DEF NvTakes
    <3> QED BY <1>0, <3>2, <3>4, <3>5
  <2> QED BY <2>1, <2>2
<1>3. PICK kind \in NvKinds, b \in 0 .. nvBodies' :
        NvTakes(nvOp', kind, r.id, b)
  BY <1>2
<1>4. NvHand(nvOp', nvDisk', nvRevs', nvTrash', nvKeep', nvBodies')
  <2>1. PICK id \in NvIds : id = r.id
    BY <1>0
  <2>2. nvOp' = [kind |-> kind, step |-> "snapshot", id |-> id, path |-> Nowhere, from |-> Nowhere, tid |-> 0, body |-> b]
    BY <1>3, <2>1 DEF NvTakes, NoOp
  <2>3. b \in Nat /\ b <= nvBodies' /\ "snapshot" \in NvSteps
    BY <1>2 DEF NvSteps
  <2>4. nvOp' \in NvOpRow
    BY <2>1, <2>2, <2>3 DEF NvOpRow
  <2>5. nvOp'.step = "snapshot" /\ nvOp'.body <= nvBodies'
    BY <2>2, <2>3
  <2> QED BY <2>4, <2>5 DEF NvHand
<1>5. nvOps' \in Nat /\ nvOps <= nvOps'
  BY <1>0, <1>1
<1>6. nvRows' \subseteq NvRow /\ nvScan'.rows \subseteq NvRow
  BY <1>0, <1>1
<1> QED BY <1>1, <1>2, <1>4, <1>5, <1>6, NvQuiet

\* _replace_path_prefix: the rows under the old path go under the new one.
LEMMA NvReplaces ==
  ASSUME NvInv, ReplacePrefix
  PROVE  NvInv'
<1>0. /\ nvBodies \in Nat /\ nvOps \in Nat /\ nvRows \subseteq NvRow /\ nvScan.rows \subseteq NvRow
      /\ NvHand(nvOp, nvDisk, nvRevs, nvTrash, nvKeep, nvBodies)
  BY DEF NvInv
<1>1. /\ nvDisk' = nvDisk /\ nvRevs' = nvRevs /\ nvTrash' = nvTrash /\ nvKeep' = nvKeep /\ nvOps' = nvOps
      /\ nvBodies' = nvBodies /\ nvScan' = nvScan /\ nvOp.step = "rows"
      /\ nvOp' = [nvOp EXCEPT !.step = IF nvOp.path \in NotePaths THEN "snapshot" ELSE "remember"]
  BY DEF ReplacePrefix, nvCounts
<1>2. nvOp \in NvOpRow /\ nvOp.body <= nvBodies /\ NvMoving(nvOp)
  BY <1>0, <1>1 DEF NvHand
<1> DEFINE Path(r) == IF InTree(r.path, nvOp.from) THEN Rebase(r.path, nvOp.from, nvOp.path) ELSE r.path
<1>3. ASSUME NEW r \in nvRows PROVE [id |-> r.id, path |-> Path(r)] \in NvRow
  <2>1. r.id \in NvIds /\ r.path \in NvPaths
    BY <1>0 DEF NvRow
  <2>2. nvOp.path \in NvPaths /\ nvOp.from \in NvPaths /\ (nvOp.from \in NotePaths <=> nvOp.path \in NotePaths)
    BY <1>2 DEF NvMoving
  <2>3. CASE InTree(r.path, nvOp.from)
    <3>1. Rebase(r.path, nvOp.from, nvOp.path) \in NvPaths
      BY <2>1, <2>2, <2>3, NvMoves
    <3> QED BY <2>1, <2>3, <3>1 DEF NvRow
  <2>4. CASE ~InTree(r.path, nvOp.from)
    BY <2>1, <2>4 DEF NvRow
  <2> QED BY <2>3, <2>4
<1>4. nvRows' \subseteq NvRow
  <2>1. nvRows' = {[id |-> r.id, path |-> Path(r)] : r \in nvRows}
    BY DEF ReplacePrefix
  <2> HIDE DEF Path
  <2> QED BY <1>3, <2>1
<1>5. NvHand(nvOp', nvDisk', nvRevs', nvTrash', nvKeep', nvBodies')
  <2>1. CASE nvOp.path \in NotePaths
    <3>1. nvOp' = [nvOp EXCEPT !.step = "snapshot"]
      BY <1>1, <2>1
    <3>2. nvOp' \in NvOpRow /\ nvOp'.step = "snapshot" /\ nvOp'.body = nvOp.body
      BY <1>2, <3>1 DEF NvOpRow, NvSteps
    <3> QED BY <1>1, <1>2, <3>2 DEF NvHand
  <2>2. CASE nvOp.path \notin NotePaths
    <3>1. nvOp' = [nvOp EXCEPT !.step = "remember"]
      BY <1>1, <2>2
    <3> QED BY <1>0, <3>1, NvLeft
  <2> QED BY <2>1, <2>2
<1>6. nvBodies' \in Nat /\ nvBodies <= nvBodies' /\ nvOps' \in Nat /\ nvOps <= nvOps'
  BY <1>0, <1>1
<1>7. nvScan'.rows \subseteq NvRow
  BY <1>0, <1>1
<1> QED BY <1>1, <1>4, <1>5, <1>6, <1>7, NvQuiet

\* The body is in a revision afterwards, and a body that is to be kept leaves the
\* revisions only when the newest ones push it out.
LEMMA NvSaves ==
  ASSUME NEW id \in NvIds, NEW n \in Nat, NEW body \in 0 .. n, nvOps \in Nat, nvRevs \subseteq NvRev(n),
         SaveRevision(id, body)
  PROVE  /\ nvRevs' \subseteq NvRev(n) /\ nvKeep' \subseteq nvKeep
         /\ \A b \in nvKeep' : NvRevised(nvRevs, b) => NvRevised(nvRevs', b)
         /\ body \notin nvKeep' \/ NvRevised(nvRevs', body)
<1>1. PICK rev : rev = [id |-> id, body |-> body, at |-> nvOps]
  OBVIOUS
<1>2. rev \in NvRev(n) /\ rev.body = body
  BY <1>1 DEF NvRev
<1>3. PICK saved \in {nvRevs \cup {rev}} \cup (IF Revised(id, body) THEN {nvRevs} ELSE {}) :
        /\ nvRevs' = saved \ Stale(saved, id)
        /\ nvKeep' = nvKeep \ ({r.body : r \in Stale(saved, id)} \ {r.body : r \in nvRevs'})
  BY <1>1 DEF SaveRevision
<1>4. saved \subseteq NvRev(n) /\ nvRevs \subseteq saved /\ NvRevised(saved, body)
  <2>1. CASE saved = nvRevs \cup {rev}
    BY <1>2, <2>1 DEF NvRevised
  <2>2. CASE Revised(id, body) /\ saved = nvRevs
    BY <2>2 DEF Revised, NvRevised
  <2> QED BY <1>3, <2>1, <2>2
<1>5. ASSUME NEW b \in nvKeep', NvRevised(saved, b) PROVE NvRevised(nvRevs', b)
  <2>1. PICK r \in saved : r.body = b
    BY <1>5 DEF NvRevised
  <2>2. CASE r \in Stale(saved, id)
    <3>1. \E s \in nvRevs' : s.body = b
      BY <1>3, <1>5, <2>1, <2>2
    <3> QED BY <3>1 DEF NvRevised
  <2>3. CASE r \notin Stale(saved, id)
    <3>1. r \in nvRevs'
      BY <1>3, <2>1, <2>3
    <3> QED BY <2>1, <3>1 DEF NvRevised
  <2> QED BY <2>2, <2>3
<1>6. \A b : NvRevised(nvRevs, b) => NvRevised(saved, b)
  BY <1>4 DEF NvRevised
<1>7. nvRevs' \subseteq NvRev(n) /\ nvKeep' \subseteq nvKeep
  BY <1>3, <1>4
<1> QED BY <1>4, <1>5, <1>6, <1>7

\* _snapshot_revision: what the file has now is in a revision before it is replaced.
LEMMA NvSnapshots ==
  ASSUME NvInv, SnapshotRevision
  PROVE  NvInv'
<1>0. /\ nvBodies \in Nat /\ nvOps \in Nat /\ nvRows \subseteq NvRow /\ nvScan.rows \subseteq NvRow
      /\ NvFiles(nvDisk, nvBodies) /\ nvRevs \subseteq NvRev(nvBodies) /\ NvTrees(nvTrash, nvOps, nvBodies)
      /\ nvKeep \subseteq 0 .. nvBodies
      /\ NvHand(nvOp, nvDisk, nvRevs, nvTrash, nvKeep, nvBodies)
      /\ \A b \in nvKeep : NvHolds(nvDisk, nvRevs, nvTrash, b)
  BY DEF NvInv
<1>1. /\ nvDisk' = nvDisk /\ nvTrash' = nvTrash /\ nvOps' = nvOps
      /\ nvBodies' = nvBodies /\ nvScan' = nvScan /\ nvRows' = nvRows /\ nvOp.step = "snapshot"
  BY DEF SnapshotRevision, nvCounts
<1>2. nvOp \in NvOpRow /\ nvOp.body <= nvBodies
  BY <1>0, <1>1 DEF NvHand
<1>3. CASE RowsOf(nvOp.id) = {}
  <2>1. nvOp' = NoOp /\ nvRevs' = nvRevs /\ nvKeep' = nvKeep
    BY <1>3 DEF SnapshotRevision
  <2>2. NvHand(NoOp, nvDisk', nvRevs', nvTrash', nvKeep', nvBodies')
    BY NvNothing
  <2>3. NvHand(nvOp', nvDisk', nvRevs', nvTrash', nvKeep', nvBodies')
    BY <2>1, <2>2
  <2>4. nvBodies' \in Nat /\ nvBodies <= nvBodies' /\ nvOps' \in Nat /\ nvOps <= nvOps'
    BY <1>0, <1>1
  <2>5. nvRows' \subseteq NvRow /\ nvScan'.rows \subseteq NvRow
    BY <1>0, <1>1
  <2> QED BY <1>1, <2>1, <2>3, <2>4, <2>5, NvQuiet
<1>4. CASE RowsOf(nvOp.id) # {}
  <2>1. PICK p : p = PathOf(nvOp.id)
    OBVIOUS
  <2>2. p \in NvPaths
    BY <1>0, <1>4, <2>1, NvNamed
  <2>3. /\ nvOp' = [nvOp EXCEPT !.step = "write", !.path = p]
        /\ \/ p \in DOMAIN nvDisk /\ SaveRevision(nvOp.id, nvDisk[p].body)
           \/ p \notin DOMAIN nvDisk /\ nvRevs' = nvRevs /\ nvKeep' = nvKeep
    BY <1>4, <2>1 DEF SnapshotRevision
  <2>4. nvOp' \in NvOpRow /\ nvOp'.step = "write" /\ nvOp'.path = p /\ nvOp'.body = nvOp.body /\ nvOp.id \in NvIds
    BY <1>2, <2>2, <2>3 DEF NvOpRow, NvSteps
  <2>5. /\ nvRevs' \subseteq NvRev(nvBodies) /\ nvKeep' \subseteq nvKeep
        /\ \A b \in nvKeep' : NvRevised(nvRevs, b) => NvRevised(nvRevs', b)
        /\ p \in DOMAIN nvDisk => nvDisk[p].body \notin nvKeep' \/ NvRevised(nvRevs', nvDisk[p].body)
    <3>1. CASE p \notin DOMAIN nvDisk
      BY <1>0, <2>3, <3>1
    <3>2. CASE p \in DOMAIN nvDisk
      <4>1. nvDisk[p].body \in 0 .. nvBodies
        BY <1>0, <3>2 DEF NvFiles, NvDoc
      <4>2. SaveRevision(nvOp.id, nvDisk[p].body)
        BY <2>3, <3>2
      <4> QED BY <1>0, <2>4, <4>1, <4>2, NvSaves
    <3> QED BY <3>1, <3>2
  <2>6. \A b \in nvKeep' : NvHolds(nvDisk', nvRevs', nvTrash', b)
    BY <1>0, <1>1, <2>5 DEF NvHolds
  <2>7. NvHand(nvOp', nvDisk', nvRevs', nvTrash', nvKeep', nvBodies')
    <3>1. NvOverwrites(nvOp'.path, nvDisk', nvRevs', nvKeep')
      BY <1>1, <2>2, <2>4, <2>5 DEF NvOverwrites
    <3>2. nvOp'.body <= nvBodies'
      BY <1>1, <1>2, <2>4
    <3> QED BY <2>4, <3>1, <3>2 DEF NvHand
  <2>8. nvKeep' \subseteq 0 .. nvBodies
    BY <1>0, <2>5
  <2> QED BY <1>0, <1>1, <2>5, <2>6, <2>7, <2>8 DEF NvInv
<1> QED BY <1>3, <1>4

\* The folder of what is outside a tree is outside it too.
LEMMA NvOutsideOf ==
  ASSUME NEW p \in NvPaths, NEW q \in NvPaths, ~InTree(q, p), FolderOf(q) # Nowhere
  PROVE  /\ FolderOf(q) \in FolderPaths /\ FolderOf(q) \in NvPaths /\ q \in NotePaths
         /\ FolderOf(FolderOf(q)) = Nowhere /\ ~InTree(FolderOf(q), p)
<1>1. q \in NotePaths /\ FolderOf(q) \in FolderPaths
  BY NvFolder DEF NvPaths
<1>2. FolderOf(q) \in NvPaths /\ FolderOf(FolderOf(q)) = Nowhere
  <2>1. FolderOf(q) \in NvPaths
    BY <1>1 DEF NvPaths
  <2> QED BY <1>1, <2>1, NvFolder
<1>3. p # Nowhere /\ FolderOf(q) # p
  BY NvFolder, NvUnder
<1> QED BY <1>1, <1>2, <1>3, NvUnder

\* A file written where its folder is.
LEMMA NvPuts ==
  ASSUME NEW n \in Nat, NEW m \in Nat, n <= m, NvFiles(nvDisk, n), NEW p \in NvPaths, HasParent(p),
         NEW doc \in NvDoc(m), PutFile(p, doc)
  PROVE  /\ NvFiles(nvDisk', m) /\ DOMAIN nvDisk' = DOMAIN nvDisk \cup {p} /\ nvDisk'[p] = doc
         /\ \A q \in DOMAIN nvDisk : q # p => nvDisk'[q] = nvDisk[q]
<1>1. /\ DOMAIN nvDisk' = DOMAIN nvDisk \cup {p} /\ nvDisk'[p] = doc
      /\ \A q \in DOMAIN nvDisk : q # p => nvDisk'[q] = nvDisk[q]
  BY DEF PutFile
<1>2. NvFiles(nvDisk, m)
  BY NvGrows
<1>3. \A q \in DOMAIN nvDisk' : nvDisk'[q] \in NvDoc(m)
  BY <1>1, <1>2 DEF NvFiles
<1>4. \A q \in DOMAIN nvDisk' : FolderOf(q) = Nowhere \/ FolderOf(q) \in DOMAIN nvDisk'
  BY <1>1, <1>2 DEF NvFiles, HasParent
<1>5. DOMAIN nvDisk' \subseteq NvPaths
  BY <1>1, <1>2 DEF NvFiles
<1> QED BY <1>1, <1>3, <1>4, <1>5 DEF NvFiles

\* A tree taken away.
LEMMA NvTakesAway ==
  ASSUME NEW n, NvFiles(nvDisk, n), NEW p \in NvPaths, nvDisk' = Without(p)
  PROVE  /\ NvFiles(nvDisk', n)
         /\ \A q : q \in DOMAIN nvDisk' <=> q \in DOMAIN nvDisk /\ ~InTree(q, p)
         /\ \A q \in DOMAIN nvDisk' : nvDisk'[q] = nvDisk[q]
<1>1. /\ \A q : q \in DOMAIN nvDisk' <=> q \in DOMAIN nvDisk /\ ~InTree(q, p)
      /\ \A q \in DOMAIN nvDisk' : nvDisk'[q] = nvDisk[q]
  BY DEF Without
<1>2. ASSUME NEW q \in DOMAIN nvDisk', FolderOf(q) # Nowhere PROVE FolderOf(q) \in DOMAIN nvDisk'
  <2>1. q \in DOMAIN nvDisk /\ q \in NvPaths /\ ~InTree(q, p)
    BY <1>1 DEF NvFiles
  <2>2. FolderOf(q) \in DOMAIN nvDisk
    BY <1>2, <2>1 DEF NvFiles
  <2>3. ~InTree(FolderOf(q), p)
    BY <1>2, <2>1, NvOutsideOf
  <2> QED BY <1>1, <2>2, <2>3
<1>3. DOMAIN nvDisk' \subseteq NvPaths /\ \A q \in DOMAIN nvDisk' : nvDisk'[q] \in NvDoc(n)
  BY <1>1 DEF NvFiles
<1> QED BY <1>1, <1>2, <1>3 DEF NvFiles

\* mkdir: a folder where nothing was.
LEMMA NvMakes ==
  ASSUME NvInv, MakeFolder
  PROVE  NvInv'
<1>0. /\ nvBodies \in Nat /\ nvOps \in Nat /\ nvRows \subseteq NvRow /\ nvScan.rows \subseteq NvRow
      /\ NvFiles(nvDisk, nvBodies) /\ nvRevs \subseteq NvRev(nvBodies) /\ NvTrees(nvTrash, nvOps, nvBodies)
      /\ nvKeep \subseteq 0 .. nvBodies
      /\ NvHand(nvOp, nvDisk, nvRevs, nvTrash, nvKeep, nvBodies)
      /\ \A b \in nvKeep : NvHolds(nvDisk, nvRevs, nvTrash, b)
  BY DEF NvInv
<1>1. /\ nvRevs' = nvRevs /\ nvTrash' = nvTrash /\ nvKeep' = nvKeep /\ nvOps' = nvOps
      /\ nvBodies' = nvBodies /\ nvScan' = nvScan /\ nvRows' = nvRows /\ nvOp.step = "mkdir"
  BY DEF MakeFolder, nvCounts
<1>2. nvOp.path \in FolderPaths /\ nvOp.path \in NvPaths
  BY <1>0, <1>1 DEF NvHand, NvPaths
<1>3. CASE nvOp.path \in DOMAIN nvDisk
  <2>1. nvOp' = NoOp /\ nvDisk' = nvDisk
    BY <1>3 DEF MakeFolder
  <2>2. NvHand(NoOp, nvDisk', nvRevs', nvTrash', nvKeep', nvBodies')
    BY NvNothing
  <2>3. NvHand(nvOp', nvDisk', nvRevs', nvTrash', nvKeep', nvBodies')
    BY <2>1, <2>2
  <2>4. nvBodies' \in Nat /\ nvBodies <= nvBodies' /\ nvOps' \in Nat /\ nvOps <= nvOps'
    BY <1>0, <1>1
  <2>5. nvRows' \subseteq NvRow /\ nvScan'.rows \subseteq NvRow
    BY <1>0, <1>1
  <2> QED BY <1>1, <2>1, <2>3, <2>4, <2>5, NvQuiet
<1>4. CASE nvOp.path \notin DOMAIN nvDisk
  <2>1. PutFile(nvOp.path, Document(NoNoteId, 0)) /\ nvOp' = [nvOp EXCEPT !.step = "remember"]
    BY <1>4 DEF MakeFolder
  <2>2. Document(NoNoteId, 0) \in NvDoc(nvBodies)
    BY <1>0, NvIdsOf DEF Document, NvDoc
  <2>3. HasParent(nvOp.path)
    BY <1>2, NvFolder DEF HasParent
  <2>4. nvBodies <= nvBodies
    BY <1>0
  <2>5. /\ NvFiles(nvDisk', nvBodies) /\ DOMAIN nvDisk' = DOMAIN nvDisk \cup {nvOp.path}
        /\ \A q \in DOMAIN nvDisk : q # nvOp.path => nvDisk'[q] = nvDisk[q]
    BY <1>0, <1>2, <2>1, <2>2, <2>3, <2>4, NvPuts
  <2>6. \A b \in nvKeep' : NvHolds(nvDisk', nvRevs', nvTrash', b)
    BY <1>0, <1>1, <1>4, <2>5 DEF NvHolds
  <2>7. NvHand(nvOp', nvDisk', nvRevs', nvTrash', nvKeep', nvBodies')
    BY <1>0, <2>1, NvLeft
  <2> QED BY <1>0, <1>1, <2>5, <2>6, <2>7 DEF NvInv
<1> QED BY <1>3, <1>4

\* _write_body: what the file had is in a revision, or nobody wants it kept.
LEMMA NvWritesBody ==
  ASSUME NvInv, WriteBody
  PROVE  NvInv'
<1>0. /\ nvBodies \in Nat /\ nvOps \in Nat /\ nvRows \subseteq NvRow /\ nvScan.rows \subseteq NvRow
      /\ NvFiles(nvDisk, nvBodies) /\ nvRevs \subseteq NvRev(nvBodies) /\ NvTrees(nvTrash, nvOps, nvBodies)
      /\ nvKeep \subseteq 0 .. nvBodies
      /\ NvHand(nvOp, nvDisk, nvRevs, nvTrash, nvKeep, nvBodies)
      /\ \A b \in nvKeep : NvHolds(nvDisk, nvRevs, nvTrash, b)
  BY DEF NvInv
<1>1. /\ nvRevs' = nvRevs /\ nvTrash' = nvTrash /\ nvOps' = nvOps
      /\ nvBodies' = nvBodies /\ nvScan' = nvScan /\ nvRows' = nvRows /\ nvOp.step = "write"
  BY DEF WriteBody, nvCounts
<1>2. nvOp \in NvOpRow /\ nvOp.body <= nvBodies /\ NvOverwrites(nvOp.path, nvDisk, nvRevs, nvKeep)
  BY <1>0, <1>1 DEF NvHand
<1>3. CASE nvOp' = NoOp /\ nvDisk' = nvDisk /\ nvKeep' = nvKeep
  <2>2. NvHand(NoOp, nvDisk', nvRevs', nvTrash', nvKeep', nvBodies')
    BY NvNothing
  <2>3. NvHand(nvOp', nvDisk', nvRevs', nvTrash', nvKeep', nvBodies')
    BY <1>3, <2>2
  <2>4. nvBodies' \in Nat /\ nvBodies <= nvBodies' /\ nvOps' \in Nat /\ nvOps <= nvOps'
    BY <1>0, <1>1
  <2>5. nvRows' \subseteq NvRow /\ nvScan'.rows \subseteq NvRow
    BY <1>0, <1>1
  <2> QED BY <1>1, <1>3, <2>3, <2>4, <2>5, NvQuiet
<1>4. CASE /\ HasParent(nvOp.path) /\ PutFile(nvOp.path, Document(nvOp.id, nvOp.body))
           /\ nvKeep' = nvKeep \cup {nvOp.body} /\ nvOp' = [nvOp EXCEPT !.step = "remember"]
  <2>1. PICK p \in NvPaths : p = nvOp.path
    BY <1>2 DEF NvOverwrites
  <2>2. Document(nvOp.id, nvOp.body) \in NvDoc(nvBodies) /\ nvOp.body \in 0 .. nvBodies
    BY <1>0, <1>2 DEF Document, NvDoc, NvOpRow
  <2>3. PICK doc \in NvDoc(nvBodies) : doc = Document(nvOp.id, nvOp.body) /\ doc.body = nvOp.body
    BY <2>2 DEF Document
  <2>4. PutFile(p, doc) /\ HasParent(p) /\ nvBodies <= nvBodies
    BY <1>0, <1>4, <2>1, <2>3
  <2>5. /\ NvFiles(nvDisk', nvBodies) /\ DOMAIN nvDisk' = DOMAIN nvDisk \cup {p} /\ nvDisk'[p] = doc
        /\ \A q \in DOMAIN nvDisk : q # p => nvDisk'[q] = nvDisk[q]
    BY <1>0, <2>4, NvPuts
  <2>6. ASSUME NEW b \in nvKeep' PROVE NvHolds(nvDisk', nvRevs', nvTrash', b)
    <3>1. CASE b = nvOp.body
      <4>1. p \in DOMAIN nvDisk' /\ nvDisk'[p].body = b
        BY <2>3, <2>5, <3>1
      <4> QED BY <4>1 DEF NvHolds
    <3>2. CASE b # nvOp.body
      <4>1. b \in nvKeep /\ NvHolds(nvDisk, nvRevs, nvTrash, b)
        BY <1>0, <1>4, <2>6, <3>2
      <4>2. CASE p \in DOMAIN nvDisk /\ nvDisk[p].body = b
        <5>1. NvRevised(nvRevs, b)
          BY <1>2, <2>1, <4>1, <4>2 DEF NvOverwrites
        <5> QED BY <1>1, <5>1 DEF NvHolds
      <4>3. CASE ~(p \in DOMAIN nvDisk /\ nvDisk[p].body = b)
        BY <1>1, <2>5, <4>1, <4>3 DEF NvHolds
      <4> QED BY <4>2, <4>3
    <3> QED BY <3>1, <3>2
  <2>7. NvHand(nvOp', nvDisk', nvRevs', nvTrash', nvKeep', nvBodies')
    BY <1>0, <1>4, NvLeft
  <2>8. nvKeep' \subseteq 0 .. nvBodies
    BY <1>0, <1>4, <2>2
  <2> QED BY <1>0, <1>1, <2>5, <2>6, <2>7, <2>8 DEF NvInv
<1> QED BY <1>3, <1>4 DEF WriteBody

\* The editor saves over what it read: only that body may go, and what it saves
\* over a file a handler is about to replace is not to be kept.
LEMMA NvEdits ==
  ASSUME NvInv, NEW p \in NotePaths, EditorSaves(p)
  PROVE  NvInv'
<1>0. /\ nvBodies \in Nat /\ nvOps \in Nat /\ nvRows \subseteq NvRow /\ nvScan.rows \subseteq NvRow
      /\ NvFiles(nvDisk, nvBodies) /\ nvRevs \subseteq NvRev(nvBodies) /\ NvTrees(nvTrash, nvOps, nvBodies)
      /\ nvKeep \subseteq 0 .. nvBodies
      /\ NvHand(nvOp, nvDisk, nvRevs, nvTrash, nvKeep, nvBodies)
      /\ \A b \in nvKeep : NvHolds(nvDisk, nvRevs, nvTrash, b)
  BY DEF NvInv
<1> DEFINE old == IF p \in DOMAIN nvDisk THEN {nvDisk[p].body} ELSE {}
           InWindow == \/ nvOp.step = "write" /\ nvOp.path = p
                       \/ nvOp.step = "trash" /\ InTree(p, nvOp.path)
<1>1. /\ nvRevs' = nvRevs /\ nvTrash' = nvTrash /\ nvOps' = nvOps /\ nvOp' = nvOp
      /\ nvBodies' = nvBodies + 1 /\ nvScan' = nvScan /\ nvRows' = nvRows /\ HasParent(p)
      /\ PutFile(p, Document(IF p \in DOMAIN nvDisk THEN nvDisk[p].id ELSE NoNoteId, nvBodies'))
      /\ nvKeep' = (nvKeep \ old) \cup (IF InWindow THEN {} ELSE {nvBodies'})
  BY DEF EditorSaves
<1>2. p \in NvPaths /\ nvBodies + 1 \in Nat /\ nvBodies <= nvBodies + 1 /\ nvBodies' \in 0 .. nvBodies + 1
  BY <1>0, <1>1 DEF NvPaths
<1>3. PICK doc \in NvDoc(nvBodies + 1) : PutFile(p, doc) /\ doc.body = nvBodies + 1
  <2>1. PICK id : id = IF p \in DOMAIN nvDisk THEN nvDisk[p].id ELSE NoNoteId
    OBVIOUS
  <2>2. id \in NvIds
    BY <1>0, <2>1, NvIdsOf DEF NvFiles, NvDoc
  <2>3. PutFile(p, Document(id, nvBodies + 1))
    BY <1>1, <2>1
  <2>4. Document(id, nvBodies + 1) \in NvDoc(nvBodies + 1) /\ Document(id, nvBodies + 1).body = nvBodies + 1
    BY <1>1, <1>2, <2>2 DEF Document, NvDoc
  <2> QED BY <2>3, <2>4
<1>4. /\ NvFiles(nvDisk', nvBodies + 1) /\ DOMAIN nvDisk' = DOMAIN nvDisk \cup {p} /\ nvDisk'[p] = doc
      /\ \A q \in DOMAIN nvDisk : q # p => nvDisk'[q] = nvDisk[q]
  BY <1>0, <1>1, <1>2, <1>3, NvPuts
<1>5. \A q \in DOMAIN nvDisk : nvDisk[q].body \in 0 .. nvBodies
  BY <1>0 DEF NvFiles, NvDoc
<1>6. nvRevs' \subseteq NvRev(nvBodies') /\ NvTrees(nvTrash', nvOps', nvBodies')
  <2>1. NvRev(nvBodies) \subseteq NvRev(nvBodies + 1)
    BY <1>0, <1>2, NvGrows
  <2>2. NvTrees(nvTrash, nvOps, nvBodies + 1)
    <3>1. nvOps <= nvOps
      BY <1>0
    <3> QED BY <1>0, <1>2, <3>1, NvTreesGrow
  <2> QED BY <1>0, <1>1, <2>1, <2>2
<1>8. \A b \in nvKeep' : b \in nvKeep \/ b = nvBodies + 1
  BY <1>1
<1>7. nvKeep' \subseteq 0 .. nvBodies'
  <2>1. \A b \in 0 .. nvBodies : b \in 0 .. nvBodies + 1
    BY <1>0
  <2>2. ASSUME NEW b \in nvKeep' PROVE b \in 0 .. nvBodies + 1
    <3>1. nvBodies + 1 \in 0 .. nvBodies + 1
      BY <1>0
    <3> QED BY <1>0, <1>8, <2>1, <3>1
  <2> QED BY <1>1, <2>2
<1>9. ASSUME NEW b \in nvKeep' PROVE NvHolds(nvDisk', nvRevs', nvTrash', b)
  <2>1. CASE b = nvBodies + 1
    <3>1. p \in DOMAIN nvDisk' /\ nvDisk'[p].body = b
      BY <1>3, <1>4, <2>1
    <3> QED BY <3>1 DEF NvHolds
  <2>2. CASE b # nvBodies + 1
    <3>1. b \in nvKeep /\ b \notin old /\ NvHolds(nvDisk, nvRevs, nvTrash, b)
      BY <1>0, <1>1, <1>9, <2>2
    <3>2. ~(p \in DOMAIN nvDisk /\ nvDisk[p].body = b)
      BY <3>1
    <3> QED BY <1>1, <1>4, <3>1, <3>2 DEF NvHolds
  <2> QED BY <2>1, <2>2
<1>10. NvHand(nvOp', nvDisk', nvRevs', nvTrash', nvKeep', nvBodies')
  <2>1. /\ nvOp \in NvOpRow
        /\ nvOp.step \in {"snapshot", "rows", "write"} => nvOp.body <= nvBodies
        /\ nvOp.step = "mkdir" => nvOp.path \in FolderPaths
        /\ nvOp.step = "rows" => NvMoving(nvOp)
        /\ nvOp.step = "write" => NvOverwrites(nvOp.path, nvDisk, nvRevs, nvKeep)
        /\ nvOp.step = "trash" => NvTookAway(nvOp, nvDisk, nvTrash, nvKeep)
    BY <1>0 DEF NvHand
  <2>2. nvOp.step \in {"snapshot", "rows", "write"} => nvOp.body <= nvBodies + 1
    <3>1. nvOp.body \in Nat
      BY <2>1 DEF NvOpRow
    <3> QED BY <1>0, <2>1, <3>1
  <2>3. ASSUME NEW q \in DOMAIN nvDisk, q # p, nvDisk'[q].body \in nvKeep' PROVE nvDisk[q].body \in nvKeep
    <3>1. nvDisk'[q].body = nvDisk[q].body /\ nvDisk[q].body \in 0 .. nvBodies
      BY <1>4, <1>5, <2>3
    <3>2. nvDisk[q].body # nvBodies + 1
      BY <1>0, <3>1
    <3> QED BY <1>8, <2>3, <3>1, <3>2
  <2>4. ASSUME InWindow PROVE nvDisk'[p].body \notin nvKeep'
    <3>1. nvKeep' \subseteq nvKeep
      BY <1>1, <2>4
    <3>2. nvBodies + 1 \notin nvKeep
      BY <1>0
    <3> QED BY <1>3, <1>4, <3>1, <3>2
  <2>5. ASSUME nvOp.step = "write" PROVE NvOverwrites(nvOp.path, nvDisk', nvRevs', nvKeep')
    <3>1. NvOverwrites(nvOp.path, nvDisk, nvRevs, nvKeep)
      BY <2>1, <2>5
    <3>2. CASE nvOp.path = p
      BY <1>2, <2>4, <2>5, <3>2 DEF NvOverwrites
    <3>3. CASE nvOp.path # p
      BY <1>1, <1>4, <2>3, <3>1, <3>3 DEF NvOverwrites
    <3> QED BY <3>2, <3>3
  <2>6. ASSUME nvOp.step = "trash" PROVE NvTookAway(nvOp, nvDisk', nvTrash', nvKeep')
    <3>1. NvTookAway(nvOp, nvDisk, nvTrash, nvKeep)
      BY <2>1, <2>6
    <3>2. ASSUME NEW q \in DOMAIN nvDisk', InTree(q, nvOp.path) PROVE nvDisk'[q].body \notin nvKeep'
      <4>1. CASE q = p
        BY <2>4, <2>6, <3>2, <4>1
      <4>2. CASE q # p
        <5>1. q \in DOMAIN nvDisk /\ nvDisk[q].body \notin nvKeep
          BY <1>4, <3>1, <3>2, <4>2 DEF NvTookAway
        <5> QED BY <2>3, <4>2, <5>1
      <4> QED BY <4>1, <4>2
    <3> QED BY <1>1, <3>1, <3>2 DEF NvTookAway
  <2> QED BY <1>1, <2>1, <2>2, <2>5, <2>6 DEF NvHand
<1> QED BY <1>0, <1>1, <1>2, <1>4, <1>6, <1>7, <1>9, <1>10 DEF NvInv

\* The editor removes a file or a folder with what is in it.
LEMMA NvEditorTakes ==
  ASSUME NvInv, NEW p \in NvPaths, EditorRemoves(p)
  PROVE  NvInv'
<1>0. /\ nvBodies \in Nat /\ nvOps \in Nat /\ nvRows \subseteq NvRow /\ nvScan.rows \subseteq NvRow
      /\ NvFiles(nvDisk, nvBodies) /\ nvRevs \subseteq NvRev(nvBodies) /\ NvTrees(nvTrash, nvOps, nvBodies)
      /\ nvKeep \subseteq 0 .. nvBodies
      /\ NvHand(nvOp, nvDisk, nvRevs, nvTrash, nvKeep, nvBodies)
      /\ \A b \in nvKeep : NvHolds(nvDisk, nvRevs, nvTrash, b)
  BY DEF NvInv
<1>1. /\ nvRevs' = nvRevs /\ nvTrash' = nvTrash /\ nvOps' = nvOps /\ nvOp' = nvOp
      /\ nvBodies' = nvBodies /\ nvScan' = nvScan /\ nvRows' = nvRows
      /\ nvDisk' = Without(p)
      /\ nvKeep' = nvKeep \ {nvDisk[q].body : q \in {q \in DOMAIN nvDisk : InTree(q, p)}}
  BY DEF EditorRemoves
<1>2. /\ NvFiles(nvDisk', nvBodies)
      /\ \A q : q \in DOMAIN nvDisk' <=> q \in DOMAIN nvDisk /\ ~InTree(q, p)
      /\ \A q \in DOMAIN nvDisk' : nvDisk'[q] = nvDisk[q]
  BY <1>0, <1>1, NvTakesAway
<1>3. nvKeep' \subseteq nvKeep /\ \A q \in DOMAIN nvDisk : InTree(q, p) => nvDisk[q].body \notin nvKeep'
  BY <1>1
<1>4. ASSUME NEW b \in nvKeep' PROVE NvHolds(nvDisk', nvRevs', nvTrash', b)
  <2>1. NvHolds(nvDisk, nvRevs, nvTrash, b)
    BY <1>0, <1>3
  <2>2. \A q \in DOMAIN nvDisk : nvDisk[q].body = b => ~InTree(q, p)
    BY <1>3, <1>4
  <2> QED BY <1>1, <1>2, <2>1, <2>2 DEF NvHolds
<1>5. NvHand(nvOp', nvDisk', nvRevs', nvTrash', nvKeep', nvBodies')
  <2>1. /\ nvOp \in NvOpRow
        /\ nvOp.step \in {"snapshot", "rows", "write"} => nvOp.body <= nvBodies
        /\ nvOp.step = "mkdir" => nvOp.path \in FolderPaths
        /\ nvOp.step = "rows" => NvMoving(nvOp)
        /\ nvOp.step = "write" => NvOverwrites(nvOp.path, nvDisk, nvRevs, nvKeep)
        /\ nvOp.step = "trash" => NvTookAway(nvOp, nvDisk, nvTrash, nvKeep)
    BY <1>0 DEF NvHand
  <2>2. nvOp.step = "write" => NvOverwrites(nvOp.path, nvDisk', nvRevs', nvKeep')
    BY <1>1, <1>2, <1>3, <2>1 DEF NvOverwrites
  <2>3. nvOp.step = "trash" => NvTookAway(nvOp, nvDisk', nvTrash', nvKeep')
    BY <1>1, <1>2, <1>3, <2>1 DEF NvTookAway
  <2> QED BY <1>1, <2>1, <2>2, <2>3 DEF NvHand
<1>6. nvKeep' \subseteq 0 .. nvBodies'
  BY <1>0, <1>1, <1>3
<1> QED BY <1>0, <1>1, <1>2, <1>4, <1>5, <1>6 DEF NvInv

\* delete(): a new directory of the trash takes the whole tree.
LEMMA NvDeletes ==
  ASSUME NvInv, NEW id \in NvIds, DeleteNode(id)
  PROVE  NvInv'
<1>0. /\ nvBodies \in Nat /\ nvOps \in Nat /\ nvRows \subseteq NvRow /\ nvScan.rows \subseteq NvRow
      /\ NvFiles(nvDisk, nvBodies) /\ nvRevs \subseteq NvRev(nvBodies) /\ NvTrees(nvTrash, nvOps, nvBodies)
      /\ nvKeep \subseteq 0 .. nvBodies
      /\ NvHand(nvOp, nvDisk, nvRevs, nvTrash, nvKeep, nvBodies)
      /\ \A b \in nvKeep : NvHolds(nvDisk, nvRevs, nvTrash, b)
  BY DEF NvInv
<1>1. PICK p, tid : p = PathOf(id) /\ tid = nvOps'
  OBVIOUS
<1>2. p \in NvPaths
  BY <1>0, <1>1, NvNamed DEF DeleteNode
<1>3. /\ nvRevs' = nvRevs /\ nvKeep' = nvKeep /\ nvOps' = nvOps + 1
      /\ nvBodies' = nvBodies /\ nvScan' = nvScan /\ nvRows' = nvRows /\ p \in DOMAIN nvDisk
      /\ nvTrash' = [t \in DOMAIN nvTrash \cup {tid} |->
                       IF t = tid THEN [path |-> p, nodes |-> TakeTree(p)] ELSE nvTrash[t]]
      /\ nvDisk' = Without(p)
      /\ nvOp' = [NoOp EXCEPT !.kind = "delete", !.step = "trash", !.id = id, !.path = p, !.tid = tid]
  BY <1>1 DEF DeleteNode, Started
<1>4. /\ NvFiles(nvDisk', nvBodies)
      /\ \A q : q \in DOMAIN nvDisk' <=> q \in DOMAIN nvDisk /\ ~InTree(q, p)
      /\ \A q \in DOMAIN nvDisk' : nvDisk'[q] = nvDisk[q]
  BY <1>0, <1>2, <1>3, NvTakesAway
<1>5. tid = nvOps + 1 /\ tid \in Nat /\ tid \notin DOMAIN nvTrash
  BY <1>0, <1>1, <1>3 DEF NvTrees
<1>6. PICK nodes : nodes = TakeTree(p)
  OBVIOUS
<1>7. /\ \A q : q \in DOMAIN nodes <=> q \in DOMAIN nvDisk /\ InTree(q, p)
      /\ \A q \in DOMAIN nodes : nodes[q] = nvDisk[q]
  BY <1>6 DEF TakeTree
<1>8. /\ DOMAIN nvTrash' = DOMAIN nvTrash \cup {tid} /\ nvTrash'[tid] = [path |-> p, nodes |-> nodes]
      /\ \A t \in DOMAIN nvTrash : nvTrash'[t] = nvTrash[t]
  BY <1>3, <1>5, <1>6
<1>9. PICK entry : entry = nvTrash'[tid] /\ entry.path = p /\ entry.nodes = nodes
  BY <1>8
<1>10. NvTrees(nvTrash', nvOps', nvBodies')
  <2>1. NvTree(entry, nvBodies)
    <3>1. InTree(p, p)
      BY <1>2, NvUnder
    <3>2. p \in DOMAIN nodes /\ DOMAIN nodes \subseteq NvPaths
      BY <1>0, <1>3, <1>7, <3>1 DEF NvFiles
    <3>3. \A q \in DOMAIN nodes : InTree(q, p) /\ nodes[q] \in NvDoc(nvBodies)
      BY <1>0, <1>7 DEF NvFiles
    <3> QED BY <1>2, <1>9, <3>2, <3>3 DEF NvTree
  <2>2. NvTrees(nvTrash, nvOps + 1, nvBodies)
    <3>1. nvOps <= nvOps + 1 /\ nvOps + 1 \in Nat /\ nvBodies <= nvBodies
      BY <1>0
    <3> QED BY <1>0, <3>1, NvTreesGrow
  <2>3. DOMAIN nvTrash' \subseteq 1 .. nvOps + 1
    BY <1>0, <1>5, <1>8, <2>2 DEF NvTrees
  <2>4. \A t \in DOMAIN nvTrash' : NvTree(nvTrash'[t], nvBodies)
    BY <1>8, <1>9, <2>1, <2>2 DEF NvTrees
  <2> QED BY <1>3, <2>3, <2>4 DEF NvTrees
<1>11. ASSUME NEW b \in nvKeep' PROVE NvHolds(nvDisk', nvRevs', nvTrash', b)
  <2>1. NvHolds(nvDisk, nvRevs, nvTrash, b)
    BY <1>0, <1>3
  <2>2. CASE \E q \in DOMAIN nvDisk : nvDisk[q].body = b
    <3>1. PICK q \in DOMAIN nvDisk : nvDisk[q].body = b
      BY <2>2
    <3>2. CASE InTree(q, p)
      <4>1. q \in DOMAIN nodes /\ nodes[q].body = b
        BY <1>7, <3>1, <3>2
      <4>2. tid \in DOMAIN nvTrash' /\ nvTrash'[tid].nodes = nodes
        BY <1>8, <1>9
      <4> QED BY <4>1, <4>2 DEF NvHolds
    <3>3. CASE ~InTree(q, p)
      <4>1. q \in DOMAIN nvDisk' /\ nvDisk'[q].body = b
        BY <1>4, <3>1, <3>3
      <4> QED BY <4>1 DEF NvHolds
    <3> QED BY <3>2, <3>3
  <2>3. CASE NvRevised(nvRevs, b)
    BY <1>3, <2>3 DEF NvHolds
  <2>4. CASE \E t \in DOMAIN nvTrash : \E q \in DOMAIN nvTrash[t].nodes : nvTrash[t].nodes[q].body = b
    <3>1. PICK t \in DOMAIN nvTrash : \E q \in DOMAIN nvTrash[t].nodes : nvTrash[t].nodes[q].body = b
      BY <2>4
    <3>2. t \in DOMAIN nvTrash' /\ nvTrash'[t] = nvTrash[t]
      BY <1>8
    <3> QED BY <3>1, <3>2 DEF NvHolds
  <2> QED BY <2>1, <2>2, <2>3, <2>4 DEF NvHolds
<1>12. NvHand(nvOp', nvDisk', nvRevs', nvTrash', nvKeep', nvBodies')
  <2>1. nvOp' = [kind |-> "delete", step |-> "trash", id |-> id, path |-> p, from |-> Nowhere, tid |-> tid, body |-> 0]
    BY <1>3 DEF NoOp
  <2>2. "delete" \in NvKinds /\ "trash" \in NvSteps
    BY DEF NvKinds, NvSteps
  <2>3. nvOp' \in NvOpRow
    BY <1>2, <1>5, <2>1, <2>2 DEF NvOpRow
  <2>4. nvOp'.step = "trash" /\ nvOp'.path = p /\ nvOp'.tid = tid
    BY <2>1
  <2>5. NvTookAway(nvOp', nvDisk', nvTrash', nvKeep')
    BY <1>2, <1>4, <1>8, <1>9, <2>4 DEF NvTookAway
  <2> QED BY <2>3, <2>4, <2>5 DEF NvHand
<1>13. nvOps' \in Nat
  BY <1>0, <1>3
<1> QED BY <1>0, <1>3, <1>4, <1>10, <1>11, <1>12, <1>13 DEF NvInv

\* What a path of the same kind gets from its tree, and what is no part of it.
LEMMA NvNew ==
  ASSUME NEW n, NvFiles(nvDisk, n), NEW to \in NvPaths, to \notin DOMAIN nvDisk
  PROVE  \A q \in DOMAIN nvDisk : ~InTree(q, to)
<1> SUFFICES ASSUME NEW q \in DOMAIN nvDisk PROVE ~InTree(q, to)
  OBVIOUS
<1>1. q \in NvPaths /\ (FolderOf(q) = Nowhere \/ FolderOf(q) \in DOMAIN nvDisk) /\ to # Nowhere
  BY NvFolder DEF NvFiles
<1> QED BY <1>1, NvUnder

\* os.replace of a tree: every file is where it was or at its place under the new name.
LEMMA NvMovesTree ==
  ASSUME NEW n, NvFiles(nvDisk, n), NEW from \in NvPaths, NEW to \in NvPaths,
         from \in NotePaths <=> to \in NotePaths, from \in DOMAIN nvDisk, to \notin DOMAIN nvDisk,
         HasParent(to), nvDisk' = Relocated(from, to)
  PROVE  /\ NvFiles(nvDisk', n)
         /\ \A q \in DOMAIN nvDisk : \E r \in DOMAIN nvDisk' : nvDisk'[r] = nvDisk[q]
<1> DEFINE moved == {q \in DOMAIN nvDisk : InTree(q, from)}
           old(q) == IF InTree(q, to) THEN Rebase(q, to, from) ELSE q
           D == (DOMAIN nvDisk \ moved) \cup {Rebase(r, from, to) : r \in moved}
<1>1. DOMAIN nvDisk' = D /\ \A q \in D : nvDisk'[q] = nvDisk[old(q)]
  BY DEF Relocated
<1>2. /\ DOMAIN nvDisk \subseteq NvPaths /\ \A q \in DOMAIN nvDisk : nvDisk[q] \in NvDoc(n)
      /\ \A q \in DOMAIN nvDisk : FolderOf(q) = Nowhere \/ FolderOf(q) \in DOMAIN nvDisk
  BY DEF NvFiles
<1>3. \A q \in DOMAIN nvDisk : ~InTree(q, to)
  BY NvNew
<1>4. ASSUME NEW q \in DOMAIN nvDisk, ~InTree(q, from) PROVE q \in DOMAIN nvDisk' /\ nvDisk'[q] = nvDisk[q]
  <2>1. q \in D /\ old(q) = q
    BY <1>3, <1>4
  <2> HIDE DEF D, old
  <2> QED BY <1>1, <2>1
<1>5. ASSUME NEW r \in DOMAIN nvDisk, InTree(r, from)
      PROVE  /\ Rebase(r, from, to) \in DOMAIN nvDisk' /\ Rebase(r, from, to) \in NvPaths
             /\ nvDisk'[Rebase(r, from, to)] = nvDisk[r]
             /\ r = from => Rebase(r, from, to) = to
             /\ r # from => FolderOf(Rebase(r, from, to)) = to
  <2>1. PICK q : q = Rebase(r, from, to)
    OBVIOUS
  <2>2. /\ q \in NvPaths /\ Rebase(q, to, from) = r /\ InTree(q, to)
        /\ r = from => q = to
        /\ r # from => FolderOf(q) = to
    BY <1>2, <1>5, <2>1, NvMoves
  <2>3. q \in D /\ old(q) = r
    BY <1>5, <2>1, <2>2
  <2> HIDE DEF D, old
  <2> QED BY <1>1, <2>1, <2>2, <2>3
<1>6. ASSUME NEW q \in DOMAIN nvDisk'
      PROVE  (q \in DOMAIN nvDisk /\ ~InTree(q, from)) \/ \E r \in DOMAIN nvDisk : InTree(r, from) /\ q = Rebase(r, from, to)
  BY <1>1
<1> HIDE DEF D, old, moved
<1>7. from \in DOMAIN nvDisk /\ InTree(from, from) /\ to \in DOMAIN nvDisk'
  <2>1. InTree(from, from)
    BY NvUnder
  <2> QED BY <1>5, <2>1
<1>8. ASSUME NEW q \in DOMAIN nvDisk'
      PROVE  /\ q \in NvPaths /\ nvDisk'[q] \in NvDoc(n)
             /\ FolderOf(q) = Nowhere \/ FolderOf(q) \in DOMAIN nvDisk'
  <2>1. CASE q \in DOMAIN nvDisk /\ ~InTree(q, from)
    <3>1. q \in NvPaths /\ nvDisk'[q] \in NvDoc(n)
      BY <1>2, <1>4, <2>1
    <3>2. ASSUME FolderOf(q) # Nowhere PROVE FolderOf(q) \in DOMAIN nvDisk'
      <4>1. FolderOf(q) \in DOMAIN nvDisk /\ ~InTree(FolderOf(q), from)
        BY <1>2, <2>1, <3>1, <3>2, NvOutsideOf
      <4> QED BY <1>4, <4>1
    <3> QED BY <3>1, <3>2
  <2>2. CASE \E r \in DOMAIN nvDisk : InTree(r, from) /\ q = Rebase(r, from, to)
    <3>1. PICK r \in DOMAIN nvDisk : InTree(r, from) /\ q = Rebase(r, from, to)
      BY <2>2
    <3>2. q \in NvPaths /\ nvDisk'[q] \in NvDoc(n)
      BY <1>2, <1>5, <3>1
    <3>3. CASE r # from
      <4>1. FolderOf(q) = to
        BY <1>5, <3>1, <3>3
      <4> QED BY <1>7, <3>2, <4>1
    <3>4. CASE r = from
      <4>1. q = to
        BY <1>5, <3>1, <3>4
      <4>2. ASSUME FolderOf(to) # Nowhere PROVE FolderOf(to) \in DOMAIN nvDisk'
        <5>1. FolderOf(to) \in DOMAIN nvDisk
          BY <4>2 DEF HasParent
        <5>2. to \in NotePaths /\ FolderOf(to) \in FolderPaths
          BY <4>2, NvFolder DEF NvPaths
        <5>3. FolderOf(to) # from
          BY <5>2, NvFolder DEF NvPaths
        <5>4. FolderOf(FolderOf(to)) = Nowhere /\ from # Nowhere
          BY <1>2, <5>1, <5>2, NvFolder
        <5>5. ~InTree(FolderOf(to), from)
          BY <1>2, <5>1, <5>3, <5>4, NvUnder
        <5> QED BY <1>4, <5>1, <5>5
      <4> QED BY <3>2, <4>1, <4>2
    <3> QED BY <3>3, <3>4
  <2> QED BY <1>6, <2>1, <2>2
<1>9. NvFiles(nvDisk', n)
  BY <1>8 DEF NvFiles
<1>10. ASSUME NEW q \in DOMAIN nvDisk PROVE \E r \in DOMAIN nvDisk' : nvDisk'[r] = nvDisk[q]
  <2>1. CASE InTree(q, from)
    BY <1>5, <2>1
  <2>2. CASE ~InTree(q, from)
    BY <1>4, <2>2
  <2> QED BY <2>1, <2>2
<1> QED BY <1>9, <1>10

\* update() and move(): the tree is renamed before the rows.
LEMMA NvRelocates ==
  ASSUME NvInv, NEW id \in NvIds, NEW to \in NvPaths, Relocate(id, to)
  PROVE  NvInv'
<1>0. /\ nvBodies \in Nat /\ nvOps \in Nat /\ nvRows \subseteq NvRow /\ nvScan.rows \subseteq NvRow
      /\ NvFiles(nvDisk, nvBodies) /\ nvRevs \subseteq NvRev(nvBodies) /\ NvTrees(nvTrash, nvOps, nvBodies)
      /\ nvKeep \subseteq 0 .. nvBodies
      /\ \A b \in nvKeep : NvHolds(nvDisk, nvRevs, nvTrash, b)
  BY DEF NvInv
<1>1. PICK from : from = PathOf(id)
  OBVIOUS
<1>2. from \in NvPaths
  BY <1>0, <1>1, NvNamed DEF Relocate
<1>3. /\ nvRevs' = nvRevs /\ nvTrash' = nvTrash /\ nvKeep' = nvKeep /\ nvOps' = nvOps + 1
      /\ nvBodies' = nvBodies /\ nvScan' = nvScan /\ nvRows' = nvRows
      /\ from \in DOMAIN nvDisk /\ HasParent(to) /\ nvDisk' = Relocated(from, to)
      /\ nvOp' = [NoOp EXCEPT !.kind = "move", !.step = "rows", !.id = id, !.from = from, !.path = to,
                              !.body = nvDisk[from].body]
      /\ to \in (IF from \in NotePaths THEN NotePaths ELSE FolderPaths) /\ to \notin DOMAIN nvDisk
  BY <1>1 DEF Relocate, Started, UniquePath
<1>4. from \in NotePaths <=> to \in NotePaths
  BY <1>2, <1>3, NvFolder
<1>5. /\ NvFiles(nvDisk', nvBodies)
      /\ \A q \in DOMAIN nvDisk : \E r \in DOMAIN nvDisk' : nvDisk'[r] = nvDisk[q]
  BY <1>0, <1>2, <1>3, <1>4, NvMovesTree
<1>6. \A b \in nvKeep' : NvHolds(nvDisk', nvRevs', nvTrash', b)
  BY <1>0, <1>3, <1>5 DEF NvHolds
<1>7. NvTrees(nvTrash', nvOps', nvBodies')
  <2>1. nvOps <= nvOps + 1 /\ nvOps + 1 \in Nat /\ nvBodies <= nvBodies
    BY <1>0
  <2>2. NvTrees(nvTrash, nvOps + 1, nvBodies)
    BY <1>0, <2>1, NvTreesGrow
  <2> QED BY <1>3, <2>2
<1>8. NvHand(nvOp', nvDisk', nvRevs', nvTrash', nvKeep', nvBodies')
  <2>1. PICK b : b = nvDisk[from].body
    OBVIOUS
  <2>2. b \in 0 .. nvBodies
    BY <1>0, <1>3, <2>1 DEF NvFiles, NvDoc
  <2>3. nvOp' = [kind |-> "move", step |-> "rows", id |-> id, path |-> to, from |-> from, tid |-> 0, body |-> b]
    BY <1>3, <2>1 DEF NoOp
  <2>4. "move" \in NvKinds /\ "rows" \in NvSteps /\ b \in Nat /\ b <= nvBodies
    BY <1>0, <2>2 DEF NvKinds, NvSteps
  <2>5. nvOp' \in NvOpRow
    BY <1>2, <2>3, <2>4 DEF NvOpRow
  <2>6. nvOp'.step = "rows" /\ nvOp'.body <= nvBodies' /\ nvOp'.path = to /\ nvOp'.from = from
    <3>1. nvOp'.step = "rows" /\ nvOp'.body = b /\ nvOp'.path = to /\ nvOp'.from = from
      BY <2>3
    <3> QED BY <1>3, <2>4, <3>1
  <2>7. NvMoving(nvOp')
    BY <1>2, <1>4, <2>6 DEF NvMoving
  <2> QED BY <2>5, <2>6, <2>7 DEF NvHand
<1>9. nvOps' \in Nat
  BY <1>0, <1>3
<1> QED BY <1>0, <1>3, <1>5, <1>6, <1>7, <1>8, <1>9 DEF NvInv

\* What comes back from the trash: everything in its tree, over nothing that is to be kept.
LEMMA NvBack ==
  ASSUME NEW n \in Nat, NvFiles(nvDisk, n), NEW to \in NvPaths,
         NEW back, DOMAIN back \subseteq NvPaths, to \in DOMAIN back,
         \A q \in DOMAIN back : InTree(q, to) /\ back[q] \in NvDoc(n),
         DOMAIN nvDisk' = WithParent(to) \cup DOMAIN back,
         \A q \in DOMAIN nvDisk' : nvDisk'[q] = IF q \in DOMAIN back THEN back[q] ELSE NodeAt(q)
  PROVE  NvFiles(nvDisk', n)
<1>1. /\ DOMAIN nvDisk \subseteq NvPaths /\ \A q \in DOMAIN nvDisk : nvDisk[q] \in NvDoc(n)
      /\ \A q \in DOMAIN nvDisk : FolderOf(q) = Nowhere \/ FolderOf(q) \in DOMAIN nvDisk
  BY DEF NvFiles
<1>2. FolderOf(to) # Nowhere => FolderOf(to) \in NvPaths /\ FolderOf(FolderOf(to)) = Nowhere
  <2>1. ASSUME FolderOf(to) # Nowhere PROVE FolderOf(to) \in NvPaths /\ FolderOf(FolderOf(to)) = Nowhere
    <3>1. FolderOf(to) \in FolderPaths
      BY <2>1, NvFolder DEF NvPaths
    <3>2. FolderOf(to) \in NvPaths
      BY <3>1 DEF NvPaths
    <3> QED BY <3>1, <3>2, NvFolder
  <2> QED BY <2>1
<1>3. \A q : q \in WithParent(to) <=> q \in DOMAIN nvDisk \/ (FolderOf(to) # Nowhere /\ q = FolderOf(to))
  BY DEF WithParent
<1>4. \A q : NodeAt(q) \in NvDoc(n) \/ (q \in DOMAIN nvDisk /\ NodeAt(q) = nvDisk[q])
  <2>1. Document(NoNoteId, 0) \in NvDoc(n)
    BY NvIdsOf DEF Document, NvDoc
  <2> QED BY <2>1 DEF NodeAt
<1>5. ASSUME NEW q \in DOMAIN nvDisk'
      PROVE  /\ q \in NvPaths /\ nvDisk'[q] \in NvDoc(n)
             /\ FolderOf(q) = Nowhere \/ FolderOf(q) \in DOMAIN nvDisk'
  <2>1. CASE q \in DOMAIN back
    <3>1. q \in NvPaths /\ nvDisk'[q] \in NvDoc(n) /\ InTree(q, to)
      BY <2>1
    <3>2. q = to \/ FolderOf(q) = to
      BY <3>1, NvUnder
    <3>3. FolderOf(q) = Nowhere \/ FolderOf(q) \in DOMAIN nvDisk'
      BY <1>3, <3>2
    <3> QED BY <3>1, <3>3
  <2>2. CASE q \notin DOMAIN back
    <3>1. q \in WithParent(to) /\ nvDisk'[q] = NodeAt(q)
      BY <2>2
    <3>2. q \in NvPaths /\ (FolderOf(q) = Nowhere \/ FolderOf(q) \in DOMAIN nvDisk)
      BY <1>1, <1>2, <1>3, <3>1
    <3>3. FolderOf(q) = Nowhere \/ FolderOf(q) \in DOMAIN nvDisk'
      BY <1>3, <3>2
    <3>4. nvDisk'[q] \in NvDoc(n)
      BY <1>1, <1>4, <3>1
    <3> QED BY <3>2, <3>3, <3>4
  <2> QED BY <2>1, <2>2
<1> QED BY <1>5 DEF NvFiles

\* A directory of the trash goes, the others stay.
LEMMA NvDrops ==
  ASSUME NEW n, NEW ops, NvTrees(nvTrash, ops, n), NEW tid, DropTrash(tid)
  PROVE  /\ NvTrees(nvTrash', ops, n)
         /\ \A t \in DOMAIN nvTrash : t # tid => t \in DOMAIN nvTrash' /\ nvTrash'[t] = nvTrash[t]
<1>1. DOMAIN nvTrash' = DOMAIN nvTrash \ {tid} /\ \A t \in DOMAIN nvTrash' : nvTrash'[t] = nvTrash[t]
  BY DEF DropTrash
<1> QED BY <1>1 DEF NvTrees

\* delete(), the branch of an error: the tree is back before its directory goes.
LEMMA NvFails ==
  ASSUME NvInv, DeleteFails
  PROVE  NvInv'
<1>0. /\ nvBodies \in Nat /\ nvOps \in Nat /\ nvRows \subseteq NvRow /\ nvScan.rows \subseteq NvRow
      /\ NvFiles(nvDisk, nvBodies) /\ nvRevs \subseteq NvRev(nvBodies) /\ NvTrees(nvTrash, nvOps, nvBodies)
      /\ nvKeep \subseteq 0 .. nvBodies
      /\ NvHand(nvOp, nvDisk, nvRevs, nvTrash, nvKeep, nvBodies)
      /\ \A b \in nvKeep : NvHolds(nvDisk, nvRevs, nvTrash, b)
  BY DEF NvInv
<1>1. PICK tid, to, back : tid = nvOp.tid /\ to = nvOp.path /\ back = nvTrash[nvOp.tid].nodes
  OBVIOUS
<1>2. /\ nvRevs' = nvRevs /\ nvKeep' = nvKeep /\ nvOps' = nvOps /\ nvOp.step = "trash" /\ nvOp' = NoOp
      /\ nvBodies' = nvBodies /\ nvScan' = nvScan /\ nvRows' = nvRows /\ DropTrash(tid)
      /\ nvDisk' = [q \in WithParent(to) \cup DOMAIN back |-> IF q \in DOMAIN back THEN back[q] ELSE NodeAt(q)]
  BY <1>1 DEF DeleteFails, nvCounts
<1>3. NvTookAway(nvOp, nvDisk, nvTrash, nvKeep)
  BY <1>0, <1>2 DEF NvHand
<1>4. /\ to \in NvPaths /\ tid \in DOMAIN nvTrash /\ nvTrash[tid].path = to /\ nvTrash[tid].nodes = back
      /\ \A q \in DOMAIN nvDisk : InTree(q, to) => nvDisk[q].body \notin nvKeep
  BY <1>1, <1>3 DEF NvTookAway
<1>5. /\ to \in DOMAIN back /\ DOMAIN back \subseteq NvPaths
      /\ \A q \in DOMAIN back : InTree(q, to) /\ back[q] \in NvDoc(nvBodies)
  <2>1. NvTree(nvTrash[tid], nvBodies)
    BY <1>0, <1>4 DEF NvTrees
  <2> QED BY <1>4, <2>1 DEF NvTree
<1>6. /\ DOMAIN nvDisk' = WithParent(to) \cup DOMAIN back
      /\ \A q \in DOMAIN nvDisk' : nvDisk'[q] = IF q \in DOMAIN back THEN back[q] ELSE NodeAt(q)
  BY <1>2
<1>7. NvFiles(nvDisk', nvBodies)
  BY <1>0, <1>4, <1>5, <1>6, NvBack
<1>8. /\ NvTrees(nvTrash', nvOps, nvBodies)
      /\ \A t \in DOMAIN nvTrash : t # tid => t \in DOMAIN nvTrash' /\ nvTrash'[t] = nvTrash[t]
  BY <1>0, <1>2, NvDrops
<1>9. ASSUME NEW b \in nvKeep' PROVE NvHolds(nvDisk', nvRevs', nvTrash', b)
  <2>1. b \in nvKeep /\ NvHolds(nvDisk, nvRevs, nvTrash, b)
    BY <1>0, <1>2
  <2>2. CASE \E q \in DOMAIN nvDisk : nvDisk[q].body = b
    <3>1. PICK q \in DOMAIN nvDisk : nvDisk[q].body = b
      BY <2>2
    <3>2. q \notin DOMAIN back
      BY <1>4, <1>5, <2>1, <3>1
    <3>3. q \in DOMAIN nvDisk' /\ nvDisk'[q] = nvDisk[q]
      BY <1>6, <3>2 DEF WithParent, NodeAt
    <3> QED BY <3>1, <3>3 DEF NvHolds
  <2>3. CASE NvRevised(nvRevs, b)
    BY <1>2, <2>3 DEF NvHolds
  <2>4. CASE \E t \in DOMAIN nvTrash : \E q \in DOMAIN nvTrash[t].nodes : nvTrash[t].nodes[q].body = b
    <3>1. PICK t \in DOMAIN nvTrash : \E q \in DOMAIN nvTrash[t].nodes : nvTrash[t].nodes[q].body = b
      BY <2>4
    <3>2. CASE t = tid
      <4>1. PICK q \in DOMAIN back : back[q].body = b
        BY <1>4, <3>1, <3>2
      <4>2. q \in DOMAIN nvDisk' /\ nvDisk'[q] = back[q]
        BY <1>6, <4>1
      <4> QED BY <4>1, <4>2 DEF NvHolds
    <3>3. CASE t # tid
      BY <1>8, <3>1, <3>3 DEF NvHolds
    <3> QED BY <3>2, <3>3
  <2> QED BY <2>1, <2>2, <2>3, <2>4 DEF NvHolds
<1>10. NvHand(nvOp', nvDisk', nvRevs', nvTrash', nvKeep', nvBodies')
  <2>1. NvHand(NoOp, nvDisk', nvRevs', nvTrash', nvKeep', nvBodies')
    BY NvNothing
  <2> QED BY <1>2, <2>1
<1> QED BY <1>0, <1>2, <1>7, <1>8, <1>9, <1>10 DEF NvInv

\* restore_trash(): the tree takes a place where nothing lies.
LEMMA NvRestores ==
  ASSUME NvInv, NEW tid, NEW to \in NvPaths, RestoreTrash(tid, to)
  PROVE  NvInv'
<1>0. /\ nvBodies \in Nat /\ nvOps \in Nat /\ nvRows \subseteq NvRow /\ nvScan.rows \subseteq NvRow
      /\ NvFiles(nvDisk, nvBodies) /\ nvRevs \subseteq NvRev(nvBodies) /\ NvTrees(nvTrash, nvOps, nvBodies)
      /\ nvKeep \subseteq 0 .. nvBodies
      /\ \A b \in nvKeep : NvHolds(nvDisk, nvRevs, nvTrash, b)
  BY DEF NvInv
<1>1. PICK from, nodes : from = nvTrash[tid].path /\ nodes = nvTrash[tid].nodes
  OBVIOUS
<1>2. /\ nvRevs' = nvRevs /\ nvKeep' = nvKeep /\ nvOps' = nvOps + 1
      /\ nvBodies' = nvBodies /\ nvScan' = nvScan /\ nvRows' = nvRows /\ DropTrash(tid)
      /\ tid \in DOMAIN nvTrash /\ to \notin DOMAIN nvDisk
      /\ to = from \/ to \in (IF from \in NotePaths THEN NotePaths ELSE FolderPaths)
      /\ nvDisk' = [q \in WithParent(to) \cup {Rebase(r, from, to) : r \in DOMAIN nodes} |->
                      IF InTree(q, to) THEN nodes[Rebase(q, to, from)] ELSE NodeAt(q)]
      /\ nvOp' = [NoOp EXCEPT !.kind = "restore", !.step = "untrash", !.tid = tid]
  BY <1>1 DEF RestoreTrash, Started, UniquePath
<1>3. /\ from \in NvPaths /\ from \in DOMAIN nodes /\ DOMAIN nodes \subseteq NvPaths
      /\ \A q \in DOMAIN nodes : InTree(q, from) /\ nodes[q] \in NvDoc(nvBodies)
  <2>1. NvTree(nvTrash[tid], nvBodies)
    BY <1>0, <1>2 DEF NvTrees
  <2> QED BY <1>1, <2>1 DEF NvTree
<1>4. from \in NotePaths <=> to \in NotePaths
  BY <1>2, <1>3, NvFolder
<1> DEFINE back == [q \in {Rebase(r, from, to) : r \in DOMAIN nodes} |-> nodes[Rebase(q, to, from)]]
<1>5. ASSUME NEW r \in DOMAIN nodes
      PROVE  /\ Rebase(r, from, to) \in DOMAIN back /\ back[Rebase(r, from, to)] = nodes[r]
             /\ Rebase(r, from, to) \in NvPaths /\ InTree(Rebase(r, from, to), to)
             /\ r = from => Rebase(r, from, to) = to
  <2>1. PICK q : q = Rebase(r, from, to)
    OBVIOUS
  <2>2. q \in NvPaths /\ Rebase(q, to, from) = r /\ InTree(q, to) /\ (r = from => q = to)
    BY <1>3, <1>4, <2>1, NvMoves
  <2>3. q \in DOMAIN back /\ back[q] = nodes[r]
    BY <2>1, <2>2
  <2> HIDE DEF back
  <2> QED BY <2>1, <2>2, <2>3
<1>6. ASSUME NEW q \in DOMAIN back
      PROVE  \E r \in DOMAIN nodes : q = Rebase(r, from, to)
  OBVIOUS
<1>7. DOMAIN nvDisk' = WithParent(to) \cup DOMAIN back
  BY <1>2
<1>8. ASSUME NEW q \in DOMAIN back
      PROVE  q \in NvPaths /\ InTree(q, to) /\ back[q] \in NvDoc(nvBodies) /\ nvDisk'[q] = back[q]
  <2>1. PICK r \in DOMAIN nodes : q = Rebase(r, from, to)
    BY <1>6
  <2>2. q \in NvPaths /\ InTree(q, to) /\ back[q] = nodes[r] /\ nodes[r] \in NvDoc(nvBodies)
    BY <1>3, <1>5, <2>1
  <2>3. nvDisk'[q] = back[q]
    <3>1. back[q] = nodes[Rebase(q, to, from)]
      OBVIOUS
    <3>2. q \in WithParent(to) \cup {Rebase(z, from, to) : z \in DOMAIN nodes}
      BY <2>1
    <3> HIDE DEF back
    <3> QED BY <1>2, <2>2, <3>1, <3>2
  <2> HIDE DEF back
  <2> QED BY <2>2, <2>3
<1>9. \A q \in DOMAIN nvDisk : ~InTree(q, to)
  BY <1>0, <1>2, NvNew
<1>10. ASSUME NEW q \in WithParent(to) PROVE ~InTree(q, to)
  <2>1. CASE q \in DOMAIN nvDisk
    BY <1>9, <2>1
  <2>2. CASE q \notin DOMAIN nvDisk
    <3>1. FolderOf(to) # Nowhere /\ q = FolderOf(to)
      BY <1>10, <2>2 DEF WithParent
    <3>2. to \in NotePaths /\ FolderOf(to) \in FolderPaths
      BY <3>1, NvFolder DEF NvPaths
    <3>3. q \in NvPaths /\ q # to /\ FolderOf(q) = Nowhere /\ to # Nowhere
      <4>1. q \in NvPaths /\ to # Nowhere
        BY <3>1, <3>2, NvFolder DEF NvPaths
      <4> QED BY <3>1, <3>2, <4>1, NvFolder
    <3> QED BY <3>3, NvUnder
  <2> QED BY <2>1, <2>2
<1>11. \A q \in WithParent(to) : q \notin DOMAIN back /\ nvDisk'[q] = NodeAt(q)
  <2>1. \A q \in WithParent(to) : nvDisk'[q] = NodeAt(q)
    BY <1>2, <1>10
  <2> HIDE DEF back
  <2> QED BY <1>8, <1>10, <2>1
<1> HIDE DEF back
<1>12. \A q \in DOMAIN nvDisk' : nvDisk'[q] = IF q \in DOMAIN back THEN back[q] ELSE NodeAt(q)
  BY <1>7, <1>8, <1>11
<1>13. to \in DOMAIN back /\ DOMAIN back \subseteq NvPaths
       /\ \A q \in DOMAIN back : InTree(q, to) /\ back[q] \in NvDoc(nvBodies)
  BY <1>3, <1>5, <1>8
<1>14. NvFiles(nvDisk', nvBodies)
  BY <1>0, <1>7, <1>12, <1>13, NvBack
<1>15. /\ NvTrees(nvTrash', nvOps, nvBodies)
       /\ \A t \in DOMAIN nvTrash : t # tid => t \in DOMAIN nvTrash' /\ nvTrash'[t] = nvTrash[t]
  BY <1>0, <1>2, NvDrops
<1>16. NvTrees(nvTrash', nvOps', nvBodies')
  <2>1. nvOps <= nvOps + 1 /\ nvOps + 1 \in Nat /\ nvBodies <= nvBodies
    BY <1>0
  <2>2. NvTrees(nvTrash', nvOps + 1, nvBodies)
    BY <1>0, <1>15, <2>1, NvTreesGrow
  <2> QED BY <1>2, <2>2
<1>17. ASSUME NEW b \in nvKeep' PROVE NvHolds(nvDisk', nvRevs', nvTrash', b)
  <2>1. NvHolds(nvDisk, nvRevs, nvTrash, b)
    BY <1>0, <1>2
  <2>2. CASE \E q \in DOMAIN nvDisk : nvDisk[q].body = b
    <3>1. PICK q \in DOMAIN nvDisk : nvDisk[q].body = b
      BY <2>2
    <3>2. q \in WithParent(to) /\ NodeAt(q) = nvDisk[q]
      BY <3>1 DEF WithParent, NodeAt
    <3>3. q \in DOMAIN nvDisk' /\ nvDisk'[q] = nvDisk[q]
      BY <1>7, <1>11, <3>2
    <3> QED BY <3>1, <3>3 DEF NvHolds
  <2>3. CASE NvRevised(nvRevs, b)
    BY <1>2, <2>3 DEF NvHolds
  <2>4. CASE \E t \in DOMAIN nvTrash : \E q \in DOMAIN nvTrash[t].nodes : nvTrash[t].nodes[q].body = b
    <3>1. PICK t \in DOMAIN nvTrash : \E q \in DOMAIN nvTrash[t].nodes : nvTrash[t].nodes[q].body = b
      BY <2>4
    <3>2. CASE t = tid
      <4>1. PICK r \in DOMAIN nodes : nodes[r].body = b
        BY <1>1, <3>1, <3>2
      <4>2. PICK q : q = Rebase(r, from, to)
        OBVIOUS
      <4>3. q \in DOMAIN back /\ back[q] = nodes[r]
        BY <1>5, <4>1, <4>2
      <4>4. q \in DOMAIN nvDisk' /\ nvDisk'[q] = nodes[r]
        BY <1>7, <1>8, <4>3
      <4> QED BY <4>1, <4>4 DEF NvHolds
    <3>3. CASE t # tid
      BY <1>15, <3>1, <3>3 DEF NvHolds
    <3> QED BY <3>2, <3>3
  <2> QED BY <2>1, <2>2, <2>3, <2>4 DEF NvHolds
<1>18. NvHand(nvOp', nvDisk', nvRevs', nvTrash', nvKeep', nvBodies')
  <2>1. nvOp' = [kind |-> "restore", step |-> "untrash", id |-> NoNoteId, path |-> Nowhere, from |-> Nowhere, tid |-> tid, body |-> 0]
    BY <1>2 DEF NoOp
  <2>2. "restore" \in NvKinds /\ "untrash" \in NvSteps /\ tid \in Nat
    BY <1>0, <1>2 DEF NvKinds, NvSteps, NvTrees
  <2>3. nvOp' \in NvOpRow
    BY <2>1, <2>2, NvIdsOf DEF NvOpRow
  <2>4. nvOp'.step = "untrash"
    BY <2>1
  <2> QED BY <2>3, <2>4 DEF NvHand
<1>19. nvOps' \in Nat
  BY <1>0, <1>2
<1> QED BY <1>0, <1>2, <1>14, <1>16, <1>17, <1>18, <1>19 DEF NvInv

\* The first state.
LEMMA NvInitial == NvInit => NvInv
<1> SUFFICES ASSUME NvInit PROVE NvInv
  OBVIOUS
<1>1. DOMAIN nvDisk = {} /\ DOMAIN nvTrash = {}
  BY DEF NvInit
<1>2. nvRows = {} /\ nvScan = NoScan /\ nvRevs = {} /\ nvOp = NoOp /\ nvBodies = 0 /\ nvOps = 0 /\ nvKeep = {}
  BY DEF NvInit
<1>3. NvFiles(nvDisk, nvBodies)
  BY <1>1 DEF NvFiles
<1>4. NvTrees(nvTrash, nvOps, nvBodies)
  BY <1>1 DEF NvTrees
<1>5. NvHand(nvOp, nvDisk, nvRevs, nvTrash, nvKeep, nvBodies)
  BY <1>2, NvNothing
<1>6. nvScan.rows = {}
  BY <1>2 DEF NoScan
<1> QED BY <1>2, <1>3, <1>4, <1>5, <1>6 DEF NvInv

\* Every step.
LEMMA NvStep == NvInv /\ [NvNext]_nvVars => NvInv'
<1> SUFFICES ASSUME NvInv, [NvNext]_nvVars PROVE NvInv'
  OBVIOUS
<1>0. \A r \in nvRows : r.id \in NvIds
  BY DEF NvInv, NvRow
<1>1. CASE NvIndex
  BY <1>1, NvIndexStep
<1>2. CASE NvWrites
  <2>1. ASSUME NEW p \in NotePaths, CreateRow("note", p) PROVE NvInv'
    <3>1. p \in NvPaths
      BY DEF NvPaths
    <3> QED BY <2>1, <3>1, NvCreates
  <2>2. ASSUME NEW p \in FolderPaths, InitializeStructure(p) PROVE NvInv'
    <3>1. p \in NvPaths
      BY DEF NvPaths
    <3>2. CreateRow("folder", p)
      BY <2>2 DEF InitializeStructure
    <3> QED BY <3>1, <3>2, NvCreates
  <2>3. CASE MakeFolder
    BY <2>3, NvMakes
  <2>4. ASSUME NEW r \in nvRows, UpdateBody(r.id) \/ \E b \in 1 .. MaxBodies : RestoreRevision(r.id, b) PROVE NvInv'
    BY <2>4, NvUpdates
  <2>5. ASSUME NEW r \in nvRows, NEW p \in NotePaths \cup FolderPaths, Relocate(r.id, p) PROVE NvInv'
    <3>1. p \in NvPaths /\ r.id \in NvIds
      BY <1>0 DEF NvPaths
    <3> QED BY <2>5, <3>1, NvRelocates
  <2>6. CASE ReplacePrefix
    BY <2>6, NvReplaces
  <2>7. CASE SnapshotRevision
    BY <2>7, NvSnapshots
  <2>8. CASE WriteBody
    BY <2>8, NvWritesBody
  <2> QED BY <1>2, <2>1, <2>2, <2>3, <2>4, <2>5, <2>6, <2>7, <2>8 DEF NvWrites
<1>3. CASE NvTrashing
  <2>1. ASSUME NEW r \in nvRows, DeleteNode(r.id) PROVE NvInv'
    BY <1>0, <2>1, NvDeletes
  <2>2. CASE TrashRow \/ Untrash
    BY <2>2, NvUntrashed
  <2>3. CASE DeleteFails
    BY <2>3, NvFails
  <2>4. ASSUME NEW t \in nvTrashed, NEW p \in NotePaths \cup FolderPaths, RestoreTrash(t, p) PROVE NvInv'
    <3>1. p \in NvPaths
      BY DEF NvPaths
    <3> QED BY <2>4, <3>1, NvRestores
  <2> QED BY <1>3, <2>1, <2>2, <2>3, <2>4 DEF NvTrashing
<1>4. CASE NvOutside
  <2>1. ASSUME NEW p \in NotePaths, EditorSaves(p) PROVE NvInv'
    BY <2>1, NvEdits
  <2>2. ASSUME NEW p \in NotePaths \cup FolderPaths, EditorRemoves(p) PROVE NvInv'
    <3>1. p \in NvPaths
      BY DEF NvPaths
    <3> QED BY <2>2, <3>1, NvEditorTakes
  <2>3. CASE NvDies
    BY <2>3, NvDead
  <2> QED BY <1>4, <2>1, <2>2, <2>3 DEF NvOutside
<1>5. CASE UNCHANGED nvVars
  <2>1. /\ nvBodies \in Nat /\ nvOps \in Nat /\ nvRows \subseteq NvRow /\ nvScan.rows \subseteq NvRow
        /\ NvHand(nvOp, nvDisk, nvRevs, nvTrash, nvKeep, nvBodies)
    BY DEF NvInv
  <2>2. /\ nvDisk' = nvDisk /\ nvRevs' = nvRevs /\ nvTrash' = nvTrash /\ nvKeep' = nvKeep /\ nvBodies' = nvBodies
        /\ nvOps' = nvOps /\ nvRows' = nvRows /\ nvScan' = nvScan /\ nvOp' = nvOp
    BY <1>5 DEF nvVars
  <2>3. NvHand(nvOp', nvDisk', nvRevs', nvTrash', nvKeep', nvBodies')
    BY <2>2, NvSameHand
  <2>4. nvBodies' \in Nat /\ nvBodies <= nvBodies' /\ nvOps' \in Nat /\ nvOps <= nvOps'
    BY <2>1, <2>2
  <2>5. nvRows' \subseteq NvRow /\ nvScan'.rows \subseteq NvRow
    BY <2>1, <2>2
  <2> QED BY <2>2, <2>3, <2>4, <2>5, NvQuiet
<1> QED BY <1>1, <1>2, <1>3, <1>4, <1>5 DEF NvNext

\* A body that a note file had, and that no editor replaced or removed, is under the
\* Workspace in every reachable state, whatever rows the index has and wherever a
\* handler or the process stopped (note_store.py: the write, move, delete and restore
\* handlers, each in the order of its writes).
THEOREM BodiesAlwaysKept == NvSpec => []BodyKept
<1> USE DEF NvSpec
<1>1. NvInv => BodyKept
  BY NvKeeps DEF NvInv
<1> HIDE DEF NvInv
<1> QED BY NvInitial, NvStep, <1>1, PTL

-----------------------------------------------------------------------------
(***************************************************************************)
(* The inductive invariant.  An index by itself is sound whatever the refs *)
(* of the repository are; what the refs are to it holds until the Dream    *)
(* rewrites the index under an open Trace.                                 *)
(***************************************************************************)
CkObjects == [tree : CkTrees, parents : SUBSET Commits]
CkGits ==
    [objs : Seq(CkObjects), points : [Commits -> 0 .. MaxCommits],
     branches : [BranchIds -> 0 .. MaxCommits], pruned : SUBSET Commits]
CkBranchRecords ==
    [status : {"active", "archived", "merged"}, head : 0 .. MaxCommits,
     fork : 0 .. MaxCommits, eligible : BOOLEAN,
     merge : {"none", "ready", "deferred", "blocked", "unknown"}, gone : BOOLEAN]
CkRecords == [seq : Commits, commit : Commits, parent : 0 .. MaxCommits]
CkIntents ==
    [kind : {"create", "rollback", "merge"}, branch : BranchIds, old : 0 .. MaxCommits,
     target : Commits, seq : 0 .. MaxCommits, new : 0 .. MaxBranches,
     archived : 0 .. MaxBranches, eligible : BOOLEAN]
CkOptional(S) == {<<>>} \cup {<<x>> : x \in S}
CkIndices ==
    [recs : SUBSET CkRecords, points : SUBSET Commits, branches : Seq(CkBranchRecords),
     active : BranchIds, next : 1 .. MaxCommits + 1, pending : CkOptional(CkIntents)]
CkStages == {"validate", "create", "point", "branch", "switch", "restore", "settle",
             "evict", "collect", "prune", "assess"}
CkWorks ==
    [who : {"trace", "dream"}, tool : {"start", "change", "rollback", "dream"},
     ix : CkIndices, stage : CkStages, redo : BOOLEAN, todo : SUBSET BranchIds]

\* The parents of every commit object, and what is reached from a commit.
CkHistory(objs) == [c \in DOMAIN objs |-> objs[c].parents]
CkReached(c, objs) == Reach({c}, CkHistory(objs))

\* The records and branches of an index in a repository with the objects objs.
CkCommitsOk(ix, n) ==
    /\ \A r \in ix.recs : r.commit <= n /\ r.seq < ix.next
    /\ ix.next <= n + 1
CkBranchesOk(ix) ==
    /\ Len(ix.branches) <= MaxBranches
    /\ ix.active \in DOMAIN ix.branches
    /\ ix.branches[ix.active].status = "active" /\ ~ix.branches[ix.active].gone
    /\ \A b \in DOMAIN ix.branches :
        /\ ix.branches[b].status = "active" => b = ix.active
        /\ ix.branches[b].head \in RecordedCommits(ix) \cup {0}
    /\ ix.recs # {} => ActiveHead(ix) # 0
\* No commit is lost: a branch that is not merged, so its ref is kept, leads to it.
CkHolds(br) == ~br.gone /\ br.status # "merged"
CkKept(ix, objs) ==
    \A c \in RecordedCommits(ix) : \E b \in DOMAIN ix.branches :
        CkHolds(ix.branches[b]) /\ c \in CkReached(ix.branches[b].head, objs)
CkCore(ix, objs) ==
    ix \in CkIndices /\ CkCommitsOk(ix, Len(objs)) /\ CkBranchesOk(ix) /\ CkKept(ix, objs)

\* The intent p of the index ix: what is left to do, or already in the index.
CkToRecord(ix, p) ==
    p.target \notin RecordedCommits(ix) /\ p.old = ActiveHead(ix) /\ p.seq = ix.next
CkIntentOk(ix, p, objs) ==
    /\ p.kind \in {"create", "merge"} =>
        /\ p.branch = ix.active /\ p.target \in DOMAIN objs /\ p.seq \in 1 .. Len(objs)
        /\ p.old # 0 => p.old \in objs[p.target].parents
    /\ p.kind = "create" => CkToRecord(ix, p)
    /\ p.kind = "merge" =>
        /\ p.archived \in DOMAIN ix.branches
        /\ ix.branches[p.archived].status = "archived"
        /\ p.old \in RecordedCommits(ix)
        /\ ix.branches[p.archived].head # 0 =>
                ix.branches[p.archived].head \in objs[p.target].parents
        /\ \/ CkToRecord(ix, p)
           \/ /\ p.target \in RecordedCommits(ix) /\ ActiveHead(ix) = p.target
              /\ p.seq < ix.next
    /\ p.kind = "rollback" =>
        /\ p.target \in RecordedCommits(ix) /\ p.old \in RecordedCommits(ix)
        /\ p.new \in BranchIds
        /\ \/ p.archived = ix.active /\ p.new = Len(ix.branches) + 1
           \/ p.new = ix.active /\ ActiveHead(ix) = p.target
CkIndex(ix, objs) ==
    CkCore(ix, objs) /\ (ix.pending # <<>> => CkIntentOk(ix, ix.pending[1], objs))

\* The operation at work, by its stage.
CkStageOk(w, tree, objs) ==
    LET p == w.ix.pending[1] IN
    /\ w.who = "dream" <=> w.tool = "dream"
    /\ w.stage \in {"validate", "evict", "collect", "prune", "assess"} => w.ix.pending = <<>>
    /\ w.stage \in {"collect", "prune", "assess"} => w.who = "dream" /\ ~w.redo
    /\ w.stage = "create" => w.tool \in {"start", "change"} /\ ~w.redo
    /\ w.stage = "validate" => w.tool \in {"start", "dream"}
    /\ w.tool \in {"change", "rollback"} => ~w.redo
    /\ w.todo # {} => w.tool = "dream"
    /\ w.redo \/ w.stage = "validate" => w.todo = {}
    /\ \A b \in w.todo :
        /\ b \in DOMAIN w.ix.branches
        /\ w.ix.branches[b].status = IF w.stage = "collect" THEN "merged" ELSE "archived"
    /\ w.stage \in {"point", "branch", "switch", "restore", "settle"} =>
        /\ w.ix.pending # <<>>
        /\ w.todo # {} => p.kind = "merge" /\ p.archived \notin w.todo
        /\ ~w.redo /\ w.tool = "dream" => p.kind = "merge"
        /\ ~w.redo /\ w.tool \in {"start", "change"} => p.kind = "create"
        /\ ~w.redo /\ w.tool = "rollback" => p.kind = "rollback"
        /\ p.kind = "create" => w.stage \in {"point", "branch", "settle"}
        /\ p.kind = "rollback" => w.stage # "point"
        /\ w.stage \in {"restore", "settle"} /\ p.kind = "merge" =>
                p.target \in RecordedCommits(w.ix)
        /\ w.stage \in {"restore", "settle"} /\ p.kind = "rollback" => w.ix.active = p.new
        /\ p.kind = "merge" /\ ~w.redo /\ w.stage # "settle" => tree = objs[p.old].tree

\* A ref that may be missing: of a merged branch, collected, whether the index says
\* so or not.
CkLeft(ix, git, b) ==
    ix.branches[b].gone \/ (ix.branches[b].status = "merged" /\ git.branches[b] = 0)
\* What the refs are to an index: each one recorded, or a step of the intent.
CkRefs(ix, git) ==
    LET p == ix.pending[1] records == ix.pending # <<>> /\ p.kind \in {"create", "merge"} IN
    /\ RecordedCommits(ix) \cap git.pruned = {}
    /\ \A b \in DOMAIN ix.branches :
        \/ CkLeft(ix, git, b)
        \/ git.branches[b] = ix.branches[b].head
        \/ records /\ b = p.branch /\ git.branches[b] = p.target
    /\ \A r \in ix.recs : r.seq \in ix.points => git.points[r.seq] = r.commit
    /\ \A s \in Commits : s >= ix.next /\ git.points[s] # 0 =>
            records /\ s = p.seq /\ git.points[s] = p.target
    /\ records => p.target \notin git.pruned

\* The refs a stage has already set.
CkStageRefs(w, git) ==
    LET p == w.ix.pending[1] IN
    /\ p.kind \in {"create", "merge"} /\ w.stage \in {"branch", "switch", "settle"}
         /\ (w.stage = "branch" => ~w.redo \/ p.kind = "create")
         /\ p.target \notin RecordedCommits(w.ix) => git.points[p.seq] = p.target
    /\ p.kind = "create" /\ w.stage = "settle" => git.branches[p.branch] = p.target
    /\ p.kind = "merge" /\ (w.stage = "switch" \/ (w.stage = "point" /\ w.redo)) =>
            git.branches[p.branch] = p.target
    /\ p.kind = "rollback" /\ w.stage = "switch" => git.branches[p.new] = p.target

\* The index in memory is the one on disk.
CkAgreed(disk, live, work) ==
    /\ work = <<>> => live \in {<<>>, disk}
    /\ work # <<>> =>
        /\ disk = <<work[1].ix>>
        /\ work[1].who = "dream" => live \in {<<>>, disk}
        /\ work[1].tool = "start" => live = <<>>
    /\ disk = <<>> => live = <<>>

\* A state of the component, its variables as arguments.
CkTypedAt(tree, git, disk, live, work, raced) ==
    /\ tree \in CkTrees /\ git \in CkGits /\ raced \in BOOLEAN
    /\ Len(git.objs) <= MaxCommits /\ git.pruned \subseteq 1 .. Len(git.objs)
    /\ disk \in CkOptional(CkIndices) /\ live \in CkOptional(CkIndices)
    /\ work \in CkOptional(CkWorks)
CkIndexedAt(tree, objs, disk, live, work) ==
    /\ disk # <<>> => CkIndex(disk[1], objs)
    /\ live # <<>> => CkIndex(live[1], objs)
    /\ work # <<>> => CkIndex(work[1].ix, objs) /\ CkStageOk(work[1], tree, objs)
CkTiedAt(git, disk, live, work) ==
    /\ CkAgreed(disk, live, work)
    /\ CkRefs(IF disk = <<>> THEN FreshIndex ELSE disk[1], git)
    /\ work # <<>> /\ work[1].ix.pending # <<>> => CkStageRefs(work[1], git)
CkBounded == ckFaults \in 0 .. MaxCkFaults /\ ckOutside \in 0 .. MaxOutside
CkInvariant ==
    /\ CkBounded
    /\ CkTypedAt(ckTree, ckGit, ckDisk, ckLive, ckWork, ckRaced)
    /\ CkIndexedAt(ckTree, ckGit.objs, ckDisk, ckLive, ckWork)
    /\ ~ckRaced => CkTiedAt(ckGit, ckDisk, ckLive, ckWork)

-----------------------------------------------------------------------------
(* Reach: the least closed set with its roots. *)

\* Whatever a closed set with the roots holds, the roots reach no more (the use of
\* Reach for _active_lineage and merge-base --is-ancestor).
LEMMA ReachLeast ==
  ASSUME NEW up, NEW cs, NEW s,
         s \subseteq DOMAIN up, cs \cap DOMAIN up \subseteq s,
         \A x \in s : up[x] \cap DOMAIN up \subseteq s
  PROVE  Reach(cs, up) \subseteq s
  BY DEF Reach

\* The reached set has the roots and is closed.
LEMMA ReachFacts ==
  ASSUME NEW up, NEW cs
  PROVE  /\ Reach(cs, up) \subseteq DOMAIN up
         /\ cs \cap DOMAIN up \subseteq Reach(cs, up)
         /\ \A x \in Reach(cs, up) : up[x] \cap DOMAIN up \subseteq Reach(cs, up)
<1>1. Reach(cs, up) \subseteq DOMAIN up
  BY DEF Reach
<1>2. cs \cap DOMAIN up \subseteq Reach(cs, up)
  BY DEF Reach
<1>3. ASSUME NEW x \in Reach(cs, up), NEW y \in up[x] \cap DOMAIN up
      PROVE  y \in Reach(cs, up)
  <2>1. SUFFICES ASSUME NEW s \in SUBSET DOMAIN up, cs \cap DOMAIN up \subseteq s,
                        \A z \in s : up[z] \cap DOMAIN up \subseteq s
                 PROVE  y \in s
    BY <1>3 DEF Reach
  <2>2. x \in s
    BY <2>1, <1>3, ReachLeast
  <2> QED BY <2>1, <2>2, <1>3
<1> QED BY <1>1, <1>2, <1>3

\* What is reached from something reached is reached.
LEMMA ReachTransitive ==
  ASSUME NEW up, NEW cs, NEW x, NEW c, x \in Reach(cs, up), c \in Reach({x}, up)
  PROVE  c \in Reach(cs, up)
<1>1. Reach({x}, up) \subseteq Reach(cs, up)
  <2>1. Reach(cs, up) \subseteq DOMAIN up /\ {x} \cap DOMAIN up \subseteq Reach(cs, up)
    BY ReachFacts
  <2>2. \A z \in Reach(cs, up) : up[z] \cap DOMAIN up \subseteq Reach(cs, up)
    BY ReachFacts
  <2> QED BY <2>1, <2>2, ReachLeast
<1> QED BY <1>1

\* Nothing is reached from what is not there, as from the commit 0.
LEMMA ReachRoot ==
  ASSUME NEW up, NEW x, NEW c, c \in Reach({x}, up)
  PROVE  x \in DOMAIN up
<1>1. SUFFICES ASSUME x \notin DOMAIN up PROVE FALSE
  OBVIOUS
<1>2. Reach({x}, up) \subseteq {}
  <2>1. {} \subseteq DOMAIN up /\ {x} \cap DOMAIN up \subseteq {}
    BY <1>1
  <2>2. \A z \in {} : up[z] \cap DOMAIN up \subseteq {}
    OBVIOUS
  <2> QED BY <2>1, <2>2, ReachLeast
<1> QED BY <1>2

\* More objects with their own parents only add to what is reached.
LEMMA ReachGrows ==
  ASSUME NEW up, NEW dn, NEW cs, DOMAIN up \subseteq DOMAIN dn,
         \A x \in DOMAIN up : dn[x] = up[x]
  PROVE  Reach(cs, up) \subseteq Reach(cs, dn)
<1> DEFINE got == Reach(cs, dn) \cap DOMAIN up
<1>0. /\ cs \cap DOMAIN dn \subseteq Reach(cs, dn)
      /\ \A x \in Reach(cs, dn) : dn[x] \cap DOMAIN dn \subseteq Reach(cs, dn)
  BY ReachFacts
<1>1. got \subseteq DOMAIN up /\ cs \cap DOMAIN up \subseteq got
  BY <1>0
<1>2. \A x \in got : up[x] \cap DOMAIN up \subseteq got
  BY <1>0
<1> HIDE DEF got
<1>3. Reach(cs, up) \subseteq got
  BY <1>1, <1>2, ReachLeast
<1> QED BY <1>3 DEF got

\* A larger set of roots reaches as much.
LEMMA ReachMore ==
  ASSUME NEW up, NEW x, NEW cs, x \in cs
  PROVE  Reach({x}, up) \subseteq Reach(cs, up)
<1>1. ASSUME NEW c \in Reach({x}, up) PROVE c \in Reach(cs, up)
  <2>1. x \in DOMAIN up
    BY <1>1, ReachRoot
  <2>2. x \in Reach(cs, up)
    BY <2>1, ReachFacts
  <2> QED BY <2>2, <1>1, ReachTransitive
<1> QED BY <1>1

-----------------------------------------------------------------------------
(* The history of the commits. *)

\* A commit reaches itself and what its parents reach (merge-base --is-ancestor).
LEMMA CkReachedFacts ==
  ASSUME NEW objs \in Seq(CkObjects), NEW c \in DOMAIN objs
  PROVE  /\ c \in CkReached(c, objs)
         /\ \A x \in objs[c].parents : CkReached(x, objs) \subseteq CkReached(c, objs)
<1>1. DOMAIN CkHistory(objs) = DOMAIN objs /\ CkHistory(objs)[c] = objs[c].parents
  BY DEF CkHistory
<1>2. c \in CkReached(c, objs)
  BY <1>1, ReachFacts DEF CkReached
<1>3. ASSUME NEW x \in objs[c].parents, NEW y \in CkReached(x, objs)
      PROVE  y \in CkReached(c, objs)
  <2>1. x \in DOMAIN CkHistory(objs)
    BY <1>3, ReachRoot DEF CkReached
  <2>2. x \in CkReached(c, objs)
    BY <2>1, <1>1, <1>2, ReachFacts DEF CkReached
  <2> QED BY <2>2, <1>3, ReachTransitive DEF CkReached
<1> QED BY <1>2, <1>3

\* Only a commit that exists reaches anything.
LEMMA CkReachedRoot ==
  ASSUME NEW objs \in Seq(CkObjects), NEW x, NEW c \in CkReached(x, objs)
  PROVE  x \in DOMAIN objs /\ c \in DOMAIN objs
<1>1. DOMAIN CkHistory(objs) = DOMAIN objs
  BY DEF CkHistory
<1> QED BY <1>1, ReachRoot, ReachFacts DEF CkReached

\* A commit object is only added to the history (commit-tree).
LEMMA CkReachedGrows ==
  ASSUME NEW objs \in Seq(CkObjects), NEW o \in CkObjects, NEW c
  PROVE  CkReached(c, objs) \subseteq CkReached(c, Append(objs, o))
<1>1. DOMAIN CkHistory(objs) \subseteq DOMAIN CkHistory(Append(objs, o))
  BY DEF CkHistory
<1>2. \A x \in DOMAIN CkHistory(objs) : CkHistory(Append(objs, o))[x] = CkHistory(objs)[x]
  BY DEF CkHistory
<1> QED BY <1>1, <1>2, ReachGrows DEF CkReached

-----------------------------------------------------------------------------
(* The index. *)

\* The fields of an index and of its branches (CheckpointState).
LEMMA CkFields ==
  ASSUME NEW ix \in CkIndices
  PROVE  /\ ix.recs \in SUBSET CkRecords /\ ix.points \in SUBSET Commits
         /\ ix.branches \in Seq(CkBranchRecords) /\ ix.active \in BranchIds
         /\ ix.next \in 1 .. MaxCommits + 1 /\ ix.pending \in CkOptional(CkIntents)
         /\ Len(ix.branches) \in Nat /\ DOMAIN ix.branches = 1 .. Len(ix.branches)
         /\ \A b \in DOMAIN ix.branches : ix.branches[b] \in CkBranchRecords
  BY DEF CkIndices

\* The intent of an index (PendingMutation).
LEMMA CkPendingIs ==
  ASSUME NEW ix \in CkIndices
  PROVE  /\ ix.pending = <<>> \/ ix.pending = <<ix.pending[1]>>
         /\ ix.pending # <<>> => ix.pending[1] \in CkIntents
<1>1. ix.pending \in CkOptional(CkIntents)
  BY CkFields
<1> QED BY <1>1 DEF CkOptional

\* Fields of the index are replaced by others of their types.
LEMMA CkSetPending ==
  ASSUME NEW ix \in CkIndices, NEW q \in CkOptional(CkIntents)
  PROVE  /\ [ix EXCEPT !.pending = q] \in CkIndices
         /\ [ix EXCEPT !.pending = q].recs = ix.recs
         /\ [ix EXCEPT !.pending = q].points = ix.points
         /\ [ix EXCEPT !.pending = q].branches = ix.branches
         /\ [ix EXCEPT !.pending = q].active = ix.active
         /\ [ix EXCEPT !.pending = q].next = ix.next
         /\ [ix EXCEPT !.pending = q].pending = q
  BY DEF CkIndices
LEMMA CkSetBranches ==
  ASSUME NEW ix \in CkIndices, NEW bs \in Seq(CkBranchRecords)
  PROVE  /\ [ix EXCEPT !.branches = bs] \in CkIndices
         /\ [ix EXCEPT !.branches = bs].recs = ix.recs
         /\ [ix EXCEPT !.branches = bs].points = ix.points
         /\ [ix EXCEPT !.branches = bs].branches = bs
         /\ [ix EXCEPT !.branches = bs].active = ix.active
         /\ [ix EXCEPT !.branches = bs].next = ix.next
         /\ [ix EXCEPT !.branches = bs].pending = ix.pending
  BY DEF CkIndices

\* One branch of the index is replaced (_replace_branch).
LEMMA CkSetBranch ==
  ASSUME NEW ix \in CkIndices, NEW b \in DOMAIN ix.branches, NEW br \in CkBranchRecords
  PROVE  LET new == SetBranch(ix, b, br) IN
         /\ new \in CkIndices /\ new.recs = ix.recs /\ new.points = ix.points
         /\ new.active = ix.active /\ new.next = ix.next /\ new.pending = ix.pending
         /\ Len(new.branches) = Len(ix.branches)
         /\ DOMAIN new.branches = DOMAIN ix.branches
         /\ new.branches[b] = br
         /\ \A d \in DOMAIN ix.branches \ {b} : new.branches[d] = ix.branches[d]
<1>1. PICK bs : bs = [ix.branches EXCEPT ![b] = br]
  OBVIOUS
<1>2. ix.branches \in Seq(CkBranchRecords)
  BY CkFields
<1>3. /\ bs \in Seq(CkBranchRecords) /\ Len(bs) = Len(ix.branches)
      /\ DOMAIN bs = DOMAIN ix.branches /\ bs[b] = br
      /\ \A d \in DOMAIN ix.branches \ {b} : bs[d] = ix.branches[d]
  BY <1>1, <1>2
<1>4. SetBranch(ix, b, br) = [ix EXCEPT !.branches = bs]
  BY <1>1 DEF SetBranch
<1> QED BY <1>3, <1>4, CkSetBranches

\* The records a commit is in.
LEMMA CkRecorded ==
  ASSUME NEW ix \in CkIndices
  PROVE  RecordedCommits(ix) \subseteq Commits
<1>1. ix.recs \in SUBSET CkRecords
  BY CkFields
<1> QED BY <1>1 DEF RecordedCommits, CkRecords

-----------------------------------------------------------------------------
(* What the operations make of an index. *)

\* The records are what they were when the new index has the same ones.
LEMMA CkSameRecorded ==
  ASSUME NEW ix, NEW new, new.recs = ix.recs
  PROVE  RecordedCommits(new) = RecordedCommits(ix)
  BY DEF RecordedCommits

\* An index whose branches keep their heads and refs, and no other becomes the
\* active one, stays sound (_replace_branch, _trim_restore_points, the intent).
LEMMA CkRemark ==
  ASSUME NEW ix, NEW new, NEW objs \in Seq(CkObjects), CkCore(ix, objs),
         new \in CkIndices, new.recs = ix.recs, new.next = ix.next,
         new.active = ix.active, Len(new.branches) = Len(ix.branches),
         \A b \in DOMAIN ix.branches :
            /\ new.branches[b].head = ix.branches[b].head
            /\ new.branches[b].gone = ix.branches[b].gone
            /\ (b = ix.active) => new.branches[b].status = ix.branches[b].status
            /\ (b # ix.active) => new.branches[b].status # "active"
            /\ \/ new.branches[b].status = "merged" => ix.branches[b].status = "merged"
               \/ CkReached(ix.branches[b].head, objs) \subseteq CkReached(ActiveHead(ix), objs)
  PROVE  CkCore(new, objs) /\ ActiveHead(new) = ActiveHead(ix)
<1>0. ix \in CkIndices /\ CkCommitsOk(ix, Len(objs)) /\ CkBranchesOk(ix) /\ CkKept(ix, objs)
  BY DEF CkCore
<1>1. RecordedCommits(new) = RecordedCommits(ix)
  BY CkSameRecorded
<1>2. DOMAIN new.branches = DOMAIN ix.branches
  BY <1>0, CkFields
<1>3. CkCommitsOk(new, Len(objs))
  BY <1>0 DEF CkCommitsOk
<1>4. ActiveHead(new) = ActiveHead(ix)
  BY <1>0 DEF ActiveHead, CkBranchesOk
<1>5. CkBranchesOk(new)
  BY <1>0, <1>1, <1>2, <1>4 DEF CkBranchesOk
<1>6. CkKept(new, objs)
  <2>1. SUFFICES ASSUME NEW c \in RecordedCommits(ix)
                 PROVE  \E b \in DOMAIN new.branches :
                            CkHolds(new.branches[b]) /\ c \in CkReached(new.branches[b].head, objs)
    BY <1>1 DEF CkKept
  <2>2. PICK b \in DOMAIN ix.branches :
                CkHolds(ix.branches[b]) /\ c \in CkReached(ix.branches[b].head, objs)
    BY <1>0 DEF CkKept
  <2>3. CASE CkHolds(new.branches[b])
    BY <2>2, <2>3, <1>2
  <2>4. CASE ~CkHolds(new.branches[b])
    <3>1. c \in CkReached(ActiveHead(ix), objs)
      BY <2>2, <2>4 DEF CkHolds
    <3>2. ix.active \in DOMAIN new.branches /\ CkHolds(new.branches[ix.active])
      BY <1>0, <1>2 DEF CkBranchesOk, CkHolds
    <3> QED BY <3>1, <3>2, <1>4 DEF ActiveHead
  <2> QED BY <2>3, <2>4
<1> QED BY <1>3, <1>4, <1>5, <1>6 DEF CkCore

\* The intent of an index is replaced.
LEMMA CkIntends ==
  ASSUME NEW ix, NEW objs \in Seq(CkObjects), CkCore(ix, objs),
         NEW q \in CkOptional(CkIntents)
  PROVE  CkCore([ix EXCEPT !.pending = q], objs)
<1>1. ix \in CkIndices
  BY DEF CkCore
<1> DEFINE new == [ix EXCEPT !.pending = q]
<1>2. /\ new \in CkIndices /\ new.recs = ix.recs /\ new.next = ix.next
      /\ new.active = ix.active /\ new.branches = ix.branches
  BY <1>1, CkSetPending
<1>3. \A b \in DOMAIN ix.branches : b # ix.active => ix.branches[b].status # "active"
  BY DEF CkCore, CkBranchesOk
<1> HIDE DEF new
<1>4. CkCore(new, objs)
  BY <1>2, <1>3, CkRemark
<1> QED BY <1>4 DEF new

\* A branch that is not the active one gets another mark, never that of the active one.
LEMMA CkMarks ==
  ASSUME NEW ix, NEW objs \in Seq(CkObjects), CkCore(ix, objs),
         NEW b \in DOMAIN ix.branches, b # ix.active, NEW br \in CkBranchRecords,
         br.head = ix.branches[b].head, br.gone = ix.branches[b].gone, br.status # "active",
         \/ br.status = "merged" => ix.branches[b].status = "merged"
         \/ CkReached(ix.branches[b].head, objs) \subseteq CkReached(ActiveHead(ix), objs)
  PROVE  CkCore(SetBranch(ix, b, br), objs)
<1>1. ix \in CkIndices
  BY DEF CkCore
<1>2. PICK new : new = SetBranch(ix, b, br)
  OBVIOUS
<1>3. /\ new \in CkIndices /\ new.recs = ix.recs /\ new.next = ix.next
      /\ new.active = ix.active /\ Len(new.branches) = Len(ix.branches)
      /\ new.branches[b] = br
      /\ \A d \in DOMAIN ix.branches \ {b} : new.branches[d] = ix.branches[d]
  BY <1>1, <1>2, CkSetBranch
<1>4. \A d \in DOMAIN ix.branches : d # ix.active => ix.branches[d].status # "active"
  BY DEF CkCore, CkBranchesOk
<1>5. \A d \in DOMAIN ix.branches :
            /\ new.branches[d].head = ix.branches[d].head
            /\ new.branches[d].gone = ix.branches[d].gone
            /\ (d = ix.active) => new.branches[d].status = ix.branches[d].status
            /\ (d # ix.active) => new.branches[d].status # "active"
            /\ \/ new.branches[d].status = "merged" => ix.branches[d].status = "merged"
               \/ CkReached(ix.branches[d].head, objs) \subseteq CkReached(ActiveHead(ix), objs)
  BY <1>3, <1>4
<1>6. CkCore(new, objs)
  BY <1>3, <1>5, CkRemark
<1> QED BY <1>2, <1>6

\* Trimming only takes restore points away.
LEMMA CkTrims ==
  ASSUME NEW ix, NEW objs \in Seq(CkObjects), CkCore(ix, objs)
  PROVE  LET new == TrimRestorePoints(ix) IN
         /\ CkCore(new, objs) /\ new.recs = ix.recs /\ new.next = ix.next
         /\ new.active = ix.active /\ new.branches = ix.branches
         /\ new.pending = ix.pending /\ new.points \subseteq ix.points
<1>1. ix \in CkIndices
  BY DEF CkCore
<1>2. PICK new : new = TrimRestorePoints(ix)
  OBVIOUS
<1>3. PICK pts : pts \subseteq ix.points /\ new = [ix EXCEPT !.points = pts]
  <2>1. \E d : new = [ix EXCEPT !.points = @ \ d]
    BY <1>2 DEF TrimRestorePoints
  <2> QED BY <2>1
<1>4. /\ new \in CkIndices /\ new.recs = ix.recs /\ new.next = ix.next
      /\ new.active = ix.active /\ new.branches = ix.branches
      /\ new.pending = ix.pending /\ new.points = pts
  BY <1>1, <1>3 DEF CkIndices
<1>5. \A b \in DOMAIN ix.branches : b # ix.active => ix.branches[b].status # "active"
  BY DEF CkCore, CkBranchesOk
<1>6. CkCore(new, objs)
  BY <1>4, <1>5, CkRemark
<1> QED BY <1>2, <1>3, <1>4, <1>6

\* More commit objects take nothing from an index.
LEMMA CkCoreGrows ==
  ASSUME NEW ix, NEW objs \in Seq(CkObjects), NEW o \in CkObjects, CkCore(ix, objs)
  PROVE  CkCore(ix, Append(objs, o))
<1>0. ix \in CkIndices /\ CkCommitsOk(ix, Len(objs)) /\ CkBranchesOk(ix) /\ CkKept(ix, objs)
  BY DEF CkCore
<1>1. Len(objs) \in Nat /\ Len(Append(objs, o)) = Len(objs) + 1
  OBVIOUS
<1>2. ix.recs \in SUBSET CkRecords /\ ix.next \in 1 .. MaxCommits + 1
  BY <1>0, CkFields
<1>3. \A r \in ix.recs : r.commit \in Int
  BY <1>2 DEF CkRecords, Commits
<1>4. CkCommitsOk(ix, Len(Append(objs, o)))
  BY <1>0, <1>1, <1>2, <1>3 DEF CkCommitsOk
<1>5. CkKept(ix, Append(objs, o))
  BY <1>0, CkReachedGrows DEF CkKept
<1> QED BY <1>0, <1>4, <1>5 DEF CkCore
LEMMA CkIndexGrows ==
  ASSUME NEW ix, NEW objs \in Seq(CkObjects), NEW o \in CkObjects, CkIndex(ix, objs)
  PROVE  CkIndex(ix, Append(objs, o))
<1>1. CkCore(ix, Append(objs, o))
  BY CkCoreGrows DEF CkIndex
<1>2. ASSUME ix.pending # <<>> PROVE CkIntentOk(ix, ix.pending[1], Append(objs, o))
  <2>1. CkIntentOk(ix, ix.pending[1], objs)
    BY <1>2 DEF CkIndex
  <2>2. /\ DOMAIN objs \subseteq DOMAIN Append(objs, o)
        /\ \A c \in DOMAIN objs : Append(objs, o)[c] = objs[c]
        /\ 1 .. Len(objs) \subseteq 1 .. Len(Append(objs, o))
    OBVIOUS
  <2> QED BY <2>1, <2>2 DEF CkIntentOk
<1> QED BY <1>1, <1>2 DEF CkIndex


\* A function on an initial segment is a sequence.
LEMMA CkIsSequence ==
  ASSUME NEW n \in Nat, NEW S, NEW q \in [1 .. n -> S]
  PROVE  q \in Seq(S) /\ Len(q) = n
<1>1. q = [i \in 1 .. n |-> q[i]]
  OBVIOUS
<1>2. [i \in 1 .. n |-> q[i]] \in Seq(S) /\ Len([i \in 1 .. n |-> q[i]]) = n
  OBVIOUS
<1> QED BY <1>1, <1>2

\* A commit is recorded once, with its restore point and the next number.
LEMMA CkAdds ==
  ASSUME NEW ix \in CkIndices, NEW p \in CkIntents, CkToRecord(ix, p), p.seq \in Commits
  PROVE  LET new == AddRecord(ix, p) IN
         /\ new \in CkIndices
         /\ new.recs = ix.recs \cup {[seq |-> p.seq, commit |-> p.target, parent |-> p.old]}
         /\ new.points = ix.points \cup {p.seq} /\ new.next = p.seq + 1
         /\ new.active = ix.active /\ new.branches = ix.branches /\ new.pending = ix.pending
<1>0. /\ ix.recs \in SUBSET CkRecords /\ ix.points \in SUBSET Commits
      /\ ix.branches \in Seq(CkBranchRecords) /\ ix.active \in BranchIds
      /\ ix.next \in 1 .. MaxCommits + 1 /\ ix.pending \in CkOptional(CkIntents)
  BY CkFields
<1>1. p.seq \in Commits /\ p.target \in Commits /\ p.old \in 0 .. MaxCommits
  BY DEF CkIntents
<1>2. p.target \notin RecordedCommits(ix) /\ p.seq = ix.next /\ ~(ix.next > p.seq)
  BY <1>0, <1>1 DEF CkToRecord, Commits
<1>3. PICK rs : rs = ix.recs \cup {[seq |-> p.seq, commit |-> p.target, parent |-> p.old]}
  OBVIOUS
<1>4. rs \in SUBSET CkRecords
  BY <1>0, <1>1, <1>3 DEF CkRecords
<1>5. PICK nx : nx = p.seq + 1
  OBVIOUS
<1>6. nx \in 1 .. MaxCommits + 1
  BY <1>1, <1>5, CkAssumption DEF Commits
<1>7. AddRecord(ix, p) = [ix EXCEPT !.recs = rs, !.points = ix.points \cup {p.seq}, !.next = nx]
  BY <1>2, <1>3, <1>5 DEF AddRecord
<1>8. ix.points \cup {p.seq} \in SUBSET Commits
  BY <1>0, <1>1
<1> QED BY <1>0, <1>3, <1>4, <1>5, <1>6, <1>7, <1>8 DEF CkIndices

\* The index with the commit of its intent as the head of the branch.
CkTaking(ix, p, objs) ==
    /\ CkToRecord(ix, p) /\ p.branch = ix.active
    /\ p.target \in DOMAIN objs /\ p.seq \in 1 .. Len(objs)
    /\ p.old # 0 => p.old \in objs[p.target].parents
CkTaken(ix, p) == [AddRecord(ix, p) EXCEPT !.branches[p.branch].head = p.target]

CkTook(ix, p, new) ==
    /\ new.recs = ix.recs \cup {[seq |-> p.seq, commit |-> p.target, parent |-> p.old]}
    /\ RecordedCommits(new) = RecordedCommits(ix) \cup {p.target}
    /\ new.points = ix.points \cup {p.seq} /\ new.next = p.seq + 1
    /\ new.active = ix.active /\ new.pending = ix.pending
    /\ ActiveHead(new) = p.target
    /\ DOMAIN new.branches = DOMAIN ix.branches
    /\ Len(new.branches) = Len(ix.branches)
    /\ new.branches[ix.active] = [ix.branches[ix.active] EXCEPT !.head = p.target]
    /\ \A b \in DOMAIN ix.branches \ {ix.active} : new.branches[b] = ix.branches[b]

\* A commit whose parent is the active head is recorded and becomes that head
\* (_finish_create, _finish_merge): nothing recorded is lost.
LEMMA CkTakes ==
  ASSUME NEW ix, NEW objs \in Seq(CkObjects), CkCore(ix, objs), Len(objs) <= MaxCommits,
         NEW p \in CkIntents, CkTaking(ix, p, objs),
         NEW new, new = CkTaken(ix, p)
  PROVE  CkCore(new, objs) /\ CkTook(ix, p, new)
<1>00. /\ CkToRecord(ix, p) /\ p.branch = ix.active
       /\ p.target \in DOMAIN objs /\ p.seq \in 1 .. Len(objs)
       /\ p.old # 0 => p.old \in objs[p.target].parents
  BY DEF CkTaking
<1>0. ix \in CkIndices /\ CkCommitsOk(ix, Len(objs)) /\ CkBranchesOk(ix) /\ CkKept(ix, objs)
  BY DEF CkCore
<1>1. /\ ix.recs \in SUBSET CkRecords /\ ix.next \in 1 .. MaxCommits + 1
      /\ ix.active \in DOMAIN ix.branches
      /\ ix.branches[ix.active] \in CkBranchRecords
  BY <1>0, CkFields DEF CkBranchesOk
<1>2. /\ Len(objs) \in Nat /\ p.seq \in Commits /\ p.target \in Commits
      /\ p.target \in 1 .. Len(objs) /\ p.seq = ix.next
  BY <1>00, CkAssumption DEF Commits, CkIntents, CkToRecord
<1>3. PICK add : add = AddRecord(ix, p)
  OBVIOUS
<1>4. /\ add \in CkIndices
      /\ add.recs = ix.recs \cup {[seq |-> p.seq, commit |-> p.target, parent |-> p.old]}
      /\ add.points = ix.points \cup {p.seq} /\ add.next = p.seq + 1
      /\ add.active = ix.active /\ add.branches = ix.branches /\ add.pending = ix.pending
  BY <1>0, <1>00, <1>2, <1>3, CkAdds
<1>5. PICK br : br = [ix.branches[ix.active] EXCEPT !.head = p.target]
  OBVIOUS
<1>6. /\ br \in CkBranchRecords /\ br.head = p.target
      /\ br.gone = ix.branches[ix.active].gone /\ br.status = ix.branches[ix.active].status
  <2>1. p.target \in 0 .. MaxCommits
    BY <1>2 DEF Commits
  <2> QED BY <2>1, <1>1, <1>5 DEF CkBranchRecords
<1>7. new = SetBranch(add, ix.active, br)
  BY <1>00, <1>3, <1>4, <1>5 DEF SetBranch, CkTaken
<1>71. ix.active \in DOMAIN add.branches
  BY <1>1, <1>4
<1>8. /\ new \in CkIndices /\ new.recs = add.recs /\ new.points = add.points
      /\ new.active = add.active /\ new.next = add.next /\ new.pending = add.pending
      /\ Len(new.branches) = Len(ix.branches)
      /\ DOMAIN new.branches = DOMAIN ix.branches
      /\ new.branches[ix.active] = br
      /\ \A d \in DOMAIN ix.branches \ {ix.active} : new.branches[d] = ix.branches[d]
  <2>1. /\ new \in CkIndices /\ new.recs = add.recs /\ new.points = add.points
        /\ new.active = add.active /\ new.next = add.next /\ new.pending = add.pending
        /\ Len(new.branches) = Len(add.branches)
        /\ DOMAIN new.branches = DOMAIN add.branches
        /\ new.branches[ix.active] = br
        /\ \A d \in DOMAIN add.branches \ {ix.active} : new.branches[d] = add.branches[d]
    <3>1. PICK n2 : n2 = SetBranch(add, ix.active, br)
      OBVIOUS
    <3>2. /\ n2 \in CkIndices /\ n2.recs = add.recs /\ n2.points = add.points
          /\ n2.active = add.active /\ n2.next = add.next /\ n2.pending = add.pending
          /\ Len(n2.branches) = Len(add.branches)
          /\ DOMAIN n2.branches = DOMAIN add.branches
          /\ n2.branches[ix.active] = br
          /\ \A d \in DOMAIN add.branches \ {ix.active} : n2.branches[d] = add.branches[d]
      BY <1>4, <1>71, <1>6, <3>1, CkSetBranch
    <3> QED BY <3>1, <3>2, <1>7
  <2> QED BY <2>1, <1>4
<1>9. RecordedCommits(new) = RecordedCommits(ix) \cup {p.target}
  <2>1. PICK r : r = [seq |-> p.seq, commit |-> p.target, parent |-> p.old]
    OBVIOUS
  <2>2. r.commit = p.target /\ new.recs = ix.recs \cup {r}
    BY <2>1, <1>4, <1>8
  <2> QED BY <2>2 DEF RecordedCommits
<1>10. ActiveHead(new) = p.target
  BY <1>4, <1>6, <1>8 DEF ActiveHead
<1>11. CkCommitsOk(new, Len(objs))
  <2>1. new.next = ix.next + 1 /\ new.next <= Len(objs) + 1
    BY <1>00, <1>1, <1>2, <1>4, <1>8
  <2>2. ASSUME NEW r \in new.recs PROVE r.commit <= Len(objs) /\ r.seq < new.next
    <3>1. CASE r \in ix.recs
      <4>1. r.commit <= Len(objs) /\ r.seq < ix.next /\ r.seq \in Int
        BY <1>0, <1>1, <3>1 DEF CkCommitsOk, CkRecords, Commits
      <4> QED BY <4>1, <1>1, <2>1
    <3>2. CASE r = [seq |-> p.seq, commit |-> p.target, parent |-> p.old]
      <4>1. r.seq = p.seq /\ r.commit = p.target
        BY <3>2
      <4> QED BY <4>1, <1>1, <1>2, <2>1
    <3> QED BY <2>2, <3>1, <3>2, <1>4, <1>8
  <2> QED BY <2>1, <2>2 DEF CkCommitsOk
<1>12. CkBranchesOk(new)
  <2>1. p.target # 0
    BY <1>2 DEF Commits
  <2>2. /\ Len(new.branches) <= MaxBranches /\ new.active \in DOMAIN new.branches
        /\ new.branches[new.active].status = "active" /\ ~new.branches[new.active].gone
    BY <1>0, <1>4, <1>6, <1>8 DEF CkBranchesOk
  <2>3. ASSUME NEW b \in DOMAIN new.branches
        PROVE  /\ new.branches[b].status = "active" => b = new.active
               /\ new.branches[b].head \in RecordedCommits(new) \cup {0}
    <3>1. CASE b = ix.active
      BY <3>1, <1>4, <1>6, <1>8, <1>9
    <3>2. CASE b # ix.active
      <4>1. new.branches[b] = ix.branches[b] /\ b \in DOMAIN ix.branches
        BY <2>3, <3>2, <1>8
      <4> QED BY <4>1, <1>0, <1>4, <1>8, <1>9 DEF CkBranchesOk
    <3> QED BY <3>1, <3>2
  <2> QED BY <2>1, <2>2, <2>3, <1>10 DEF CkBranchesOk
<1>13. CkKept(new, objs)
  <2>1. SUFFICES ASSUME NEW c \in RecordedCommits(new)
                 PROVE  \E b \in DOMAIN new.branches :
                            CkHolds(new.branches[b]) /\ c \in CkReached(new.branches[b].head, objs)
    BY DEF CkKept
  <2>2. new.branches[ix.active].head = p.target /\ CkHolds(new.branches[ix.active])
        /\ ix.active \in DOMAIN new.branches
    BY <1>0, <1>1, <1>6, <1>8 DEF CkBranchesOk, CkHolds
  <2>3. CASE c = p.target
    <3>1. c \in CkReached(p.target, objs)
      BY <1>00, <2>3, CkReachedFacts
    <3> QED BY <3>1, <2>2
  <2>4. CASE c \in RecordedCommits(ix)
    <3>1. PICK b \in DOMAIN ix.branches :
                CkHolds(ix.branches[b]) /\ c \in CkReached(ix.branches[b].head, objs)
      BY <2>4, <1>0 DEF CkKept
    <3>2. CASE b # ix.active
      BY <3>1, <3>2, <1>8
    <3>3. CASE b = ix.active
      <4>1. ix.branches[b].head = p.old
        BY <1>00, <3>3 DEF CkToRecord, ActiveHead
      <4>2. p.old \in DOMAIN objs
        BY <3>1, <4>1, CkReachedRoot
      <4>3. p.old \in objs[p.target].parents
        BY <1>00, <1>2, <4>2
      <4>4. c \in CkReached(p.target, objs)
        BY <1>00, <3>1, <4>1, <4>3, CkReachedFacts
      <4> QED BY <4>4, <2>2
    <3> QED BY <3>2, <3>3
  <2> QED BY <2>1, <2>3, <2>4, <1>9
<1>14. CkCore(new, objs)
  BY <1>4, <1>8, <1>11, <1>12, <1>13 DEF CkCore
<1>15. CkTook(ix, p, new)
  BY <1>4, <1>5, <1>8, <1>9, <1>10 DEF CkTook
<1> QED BY <1>14, <1>15

\* A rollback archives the branch and opens a new one at its target (_switch_branch):
\* what the archived branch holds stays kept by its ref.
LEMMA CkRollsBack ==
  ASSUME NEW ix, NEW objs \in Seq(CkObjects), CkCore(ix, objs), NEW p \in CkIntents,
         p.target \in RecordedCommits(ix), p.archived = ix.active,
         p.new = Len(ix.branches) + 1, p.new \in BranchIds, NEW e \in BOOLEAN,
         NEW new, new = RolledBack(ix, p, e)
  PROVE  /\ CkCore(new, objs) /\ new.recs = ix.recs /\ new.points = ix.points
         /\ new.next = ix.next /\ new.pending = ix.pending /\ new.active = p.new
         /\ ActiveHead(new) = p.target
         /\ DOMAIN new.branches = DOMAIN ix.branches \cup {p.new}
         /\ \A b \in DOMAIN ix.branches :
                /\ new.branches[b].head = ix.branches[b].head
                /\ new.branches[b].gone = ix.branches[b].gone
                /\ ix.branches[b].status = "archived" => new.branches[b].status = "archived"
                /\ ix.branches[b].status = "merged" => new.branches[b].status = "merged"
<1>0. ix \in CkIndices /\ CkCommitsOk(ix, Len(objs)) /\ CkBranchesOk(ix) /\ CkKept(ix, objs)
  BY DEF CkCore
<1>1. /\ ix.branches \in Seq(CkBranchRecords) /\ ix.active \in DOMAIN ix.branches
      /\ ix.branches[ix.active] \in CkBranchRecords
      /\ Len(ix.branches) \in Nat /\ DOMAIN ix.branches = 1 .. Len(ix.branches)
  BY <1>0, CkFields DEF CkBranchesOk
<1>2. p.target \in Commits /\ p.target # 0
  BY DEF CkIntents, Commits
<1>3. PICK br : br = Archived(ix, p, e)
  OBVIOUS
<1>4. /\ br \in CkBranchRecords /\ br.head = ix.branches[ix.active].head
      /\ br.gone = ix.branches[ix.active].gone /\ br.status = "archived"
  <2>1. p.target \in 0 .. MaxCommits
    BY <1>2 DEF Commits
  <2>2. PICK m : m = IF e THEN "ready" ELSE "none"
    OBVIOUS
  <2>3. m \in {"none", "ready", "deferred", "blocked", "unknown"}
    BY <2>2
  <2>4. br = [ix.branches[ix.active] EXCEPT !.status = "archived", !.fork = p.target,
                    !.eligible = e, !.merge = m]
    BY <1>3, <2>2 DEF Archived
  <2> QED BY <2>1, <2>3, <2>4, <1>1 DEF CkBranchRecords
<1>5. PICK mid : mid = SetBranch(ix, ix.active, br)
  OBVIOUS
<1>6. /\ mid \in CkIndices /\ mid.recs = ix.recs /\ mid.points = ix.points
      /\ mid.active = ix.active /\ mid.next = ix.next /\ mid.pending = ix.pending
      /\ Len(mid.branches) = Len(ix.branches)
      /\ DOMAIN mid.branches = DOMAIN ix.branches
      /\ mid.branches[ix.active] = br
      /\ \A d \in DOMAIN ix.branches \ {ix.active} : mid.branches[d] = ix.branches[d]
  BY <1>0, <1>1, <1>4, <1>5, CkSetBranch
<1>7. PICK nb : nb = NewBranch(p.target, p.target)
  OBVIOUS
<1>8. nb \in CkBranchRecords /\ nb.head = p.target /\ ~nb.gone /\ nb.status = "active"
  BY <1>2, <1>7 DEF NewBranch, CkBranchRecords, Commits
<1>9. PICK bs : bs = Append(mid.branches, nb)
  OBVIOUS
<1>10. /\ bs \in Seq(CkBranchRecords) /\ Len(bs) = Len(ix.branches) + 1
       /\ DOMAIN bs = DOMAIN ix.branches \cup {p.new} /\ bs[p.new] = nb
       /\ \A d \in DOMAIN ix.branches : bs[d] = mid.branches[d]
  <2>1. mid.branches \in Seq(CkBranchRecords)
    BY <1>6, CkFields
  <2>2. bs \in Seq(CkBranchRecords) /\ Len(bs) = Len(ix.branches) + 1
        /\ bs[Len(ix.branches) + 1] = nb
        /\ \A d \in 1 .. Len(ix.branches) : bs[d] = mid.branches[d]
    BY <2>1, <1>6, <1>8, <1>9
  <2>3. DOMAIN bs = 1 .. Len(ix.branches) + 1
    BY <2>2
  <2>4. DOMAIN bs = DOMAIN ix.branches \cup {p.new}
    BY <2>3, <1>1
  <2> QED BY <2>2, <2>4, <1>1
<1>11. new = [mid EXCEPT !.branches = bs, !.active = p.new]
  BY <1>3, <1>5, <1>7, <1>9 DEF RolledBack
<1>12. /\ new \in CkIndices /\ new.recs = ix.recs /\ new.points = ix.points
       /\ new.active = p.new /\ new.next = ix.next /\ new.pending = ix.pending
       /\ new.branches = bs
  BY <1>6, <1>10, <1>11 DEF CkIndices
<1>13. RecordedCommits(new) = RecordedCommits(ix)
  BY <1>12, CkSameRecorded
<1>14. ActiveHead(new) = p.target
  BY <1>8, <1>10, <1>12 DEF ActiveHead
<1>15. \A b \in DOMAIN ix.branches :
                /\ new.branches[b].head = ix.branches[b].head
                /\ new.branches[b].gone = ix.branches[b].gone
                /\ ix.branches[b].status = "archived" => new.branches[b].status = "archived"
                /\ new.branches[b].status # "active"
                /\ (new.branches[b].status = "merged") = (ix.branches[b].status = "merged")
  <2>1. \A d \in DOMAIN ix.branches : d # ix.active => ix.branches[d].status # "active"
    BY <1>0 DEF CkBranchesOk
  <2>2. ASSUME NEW b \in DOMAIN ix.branches, b # ix.active
        PROVE  new.branches[b] = ix.branches[b]
    BY <2>2, <1>6, <1>10, <1>12
  <2>3. new.branches[ix.active] = br
    BY <1>1, <1>6, <1>10, <1>12
  <2>4. ix.branches[ix.active].status = "active"
    BY <1>0 DEF CkBranchesOk
  <2> QED BY <2>1, <2>2, <2>3, <2>4, <1>4
<1>151. \A b \in DOMAIN ix.branches : CkHolds(ix.branches[b]) => CkHolds(new.branches[b])
  BY <1>15 DEF CkHolds
<1>16. CkCommitsOk(new, Len(objs))
  BY <1>0, <1>12 DEF CkCommitsOk
<1>17. CkBranchesOk(new)
  <2>1. Len(new.branches) <= MaxBranches
    <3>1. Len(ix.branches) + 1 \in BranchIds /\ Len(new.branches) = Len(ix.branches) + 1
      BY <1>10, <1>12
    <3> QED BY <3>1 DEF BranchIds
  <2>2. new.active \in DOMAIN new.branches /\ new.branches[new.active].status = "active"
        /\ ~new.branches[new.active].gone
    BY <1>8, <1>10, <1>12
  <2>3. ASSUME NEW b \in DOMAIN new.branches
        PROVE  /\ new.branches[b].status = "active" => b = new.active
               /\ new.branches[b].head \in RecordedCommits(new) \cup {0}
    <3>1. CASE b = p.new
      BY <3>1, <1>8, <1>10, <1>12, <1>13
    <3>2. CASE b \in DOMAIN ix.branches
      BY <3>2, <1>0, <1>13, <1>15 DEF CkBranchesOk
    <3> QED BY <2>3, <3>1, <3>2, <1>10, <1>12
  <2> QED BY <2>1, <2>2, <2>3, <1>2, <1>14 DEF CkBranchesOk
<1>18. CkKept(new, objs)
  BY <1>0, <1>10, <1>12, <1>13, <1>15, <1>151 DEF CkKept
<1> QED BY <1>10, <1>12, <1>14, <1>15, <1>16, <1>17, <1>18 DEF CkCore

\* The refs of merged branches whose commits the active head contains may go
\* (collect_merged_branch_refs): no commit is kept by them alone.
LEMMA CkCollects ==
  ASSUME NEW ix, NEW objs \in Seq(CkObjects), CkCore(ix, objs), NEW due,
         \A b \in due : b \in DOMAIN ix.branches /\ ix.branches[b].status = "merged",
         NEW new, new = MarkGone(ix, due)
  PROVE  /\ CkCore(new, objs) /\ new.recs = ix.recs /\ new.points = ix.points
         /\ new.next = ix.next /\ new.pending = ix.pending /\ new.active = ix.active
         /\ DOMAIN new.branches = DOMAIN ix.branches
         /\ \A b \in DOMAIN ix.branches :
                /\ new.branches[b].head = ix.branches[b].head
                /\ new.branches[b].status = ix.branches[b].status
                /\ b \in due => new.branches[b].gone
                /\ b \notin due => new.branches[b].gone = ix.branches[b].gone
<1>0. ix \in CkIndices /\ CkCommitsOk(ix, Len(objs)) /\ CkBranchesOk(ix) /\ CkKept(ix, objs)
  BY DEF CkCore
<1>00. \A b \in due : b \in DOMAIN ix.branches /\ ix.branches[b].status = "merged"
  OBVIOUS
<1>1. /\ ix.branches \in Seq(CkBranchRecords) /\ ix.active \in DOMAIN ix.branches
      /\ Len(ix.branches) \in Nat /\ DOMAIN ix.branches = 1 .. Len(ix.branches)
      /\ \A b \in DOMAIN ix.branches : ix.branches[b] \in CkBranchRecords
  BY <1>0, CkFields DEF CkBranchesOk
<1>2. PICK bs : bs = [b \in DOMAIN ix.branches |->
                    IF b \in due THEN [ix.branches[b] EXCEPT !.gone = TRUE] ELSE ix.branches[b]]
  OBVIOUS
<1>3. \A b \in DOMAIN ix.branches :
        /\ bs[b] \in CkBranchRecords
        /\ bs[b].head = ix.branches[b].head /\ bs[b].status = ix.branches[b].status
        /\ b \in due => bs[b].gone
        /\ b \notin due => bs[b].gone = ix.branches[b].gone
  <2>1. ASSUME NEW b \in DOMAIN ix.branches, b \in due
        PROVE  /\ bs[b] \in CkBranchRecords
               /\ bs[b].head = ix.branches[b].head /\ bs[b].status = ix.branches[b].status
               /\ bs[b].gone
    <3>1. bs[b] = [ix.branches[b] EXCEPT !.gone = TRUE]
      BY <1>2, <2>1
    <3>2. ix.branches[b] \in CkBranchRecords
      BY <1>1
    <3> QED BY <3>1, <3>2 DEF CkBranchRecords
  <2>2. ASSUME NEW b \in DOMAIN ix.branches, b \notin due PROVE bs[b] = ix.branches[b]
    BY <1>2, <2>2
  <2> QED BY <2>1, <2>2, <1>1
<1>4. DOMAIN bs = DOMAIN ix.branches
  BY <1>2
<1>5. bs \in Seq(CkBranchRecords) /\ Len(bs) = Len(ix.branches)
  <2>1. bs \in [1 .. Len(ix.branches) -> CkBranchRecords]
    BY <1>1, <1>2, <1>3
  <2> QED BY <2>1, <1>1, CkIsSequence
<1>6. new = [ix EXCEPT !.branches = bs]
  BY <1>2 DEF MarkGone
<1>61. PICK n2 : n2 = [ix EXCEPT !.branches = bs]
  OBVIOUS
<1>62. /\ n2 \in CkIndices /\ n2.recs = ix.recs /\ n2.points = ix.points
       /\ n2.branches = bs /\ n2.active = ix.active /\ n2.next = ix.next
       /\ n2.pending = ix.pending
  BY <1>0, <1>5, <1>61, CkSetBranches
<1>7. /\ new \in CkIndices /\ new.recs = ix.recs /\ new.points = ix.points
      /\ new.branches = bs /\ new.active = ix.active /\ new.next = ix.next
      /\ new.pending = ix.pending
  BY <1>6, <1>61, <1>62
<1>8. RecordedCommits(new) = RecordedCommits(ix)
  BY <1>7, CkSameRecorded
<1>9. ix.active \notin due
  BY <1>0, <1>00 DEF CkBranchesOk
<1>10. ActiveHead(new) = ActiveHead(ix) /\ ~new.branches[ix.active].gone
  BY <1>0, <1>1, <1>3, <1>7, <1>9 DEF ActiveHead, CkBranchesOk
<1>11. CkCommitsOk(new, Len(objs))
  BY <1>0, <1>7 DEF CkCommitsOk
<1>12. CkBranchesOk(new)
  <2>1. /\ Len(new.branches) <= MaxBranches /\ new.active \in DOMAIN new.branches
        /\ new.branches[new.active].status = "active" /\ ~new.branches[new.active].gone
    BY <1>0, <1>1, <1>3, <1>4, <1>5, <1>7, <1>10 DEF CkBranchesOk
  <2>2. \A b \in DOMAIN new.branches :
          /\ new.branches[b].status = "active" => b = new.active
          /\ new.branches[b].head \in RecordedCommits(new) \cup {0}
    <3>1. SUFFICES ASSUME NEW b \in DOMAIN ix.branches
                   PROVE  /\ new.branches[b].status = "active" => b = new.active
                          /\ new.branches[b].head \in RecordedCommits(new) \cup {0}
      BY <1>4, <1>7
    <3>2. new.branches[b].status = ix.branches[b].status
          /\ new.branches[b].head = ix.branches[b].head
      BY <1>3, <1>7
    <3>3. (ix.branches[b].status = "active" => b = ix.active)
          /\ ix.branches[b].head \in RecordedCommits(ix) \cup {0}
      BY <1>0 DEF CkBranchesOk
    <3> QED BY <3>2, <3>3, <1>7, <1>8
  <2> QED BY <2>1, <2>2, <1>0, <1>7, <1>10 DEF CkBranchesOk
<1>13. CkKept(new, objs)
  <2>1. SUFFICES ASSUME NEW c \in RecordedCommits(ix)
                 PROVE  \E b \in DOMAIN new.branches :
                            CkHolds(new.branches[b]) /\ c \in CkReached(new.branches[b].head, objs)
    BY <1>8 DEF CkKept
  <2>2. PICK b \in DOMAIN ix.branches :
                CkHolds(ix.branches[b]) /\ c \in CkReached(ix.branches[b].head, objs)
    BY <1>0 DEF CkKept
  <2>3. b \notin due
    BY <2>2, <1>00 DEF CkHolds
  <2> QED BY <2>2, <2>3, <1>3, <1>4, <1>7 DEF CkHolds
<1> QED BY <1>3, <1>4, <1>7, <1>11, <1>12, <1>13 DEF CkCore

-----------------------------------------------------------------------------
(* The index and the refs along a mutation. *)

\* A ref that explained a branch or a restore point still does when the records,
\* the heads and the intent are the same.
LEMMA CkRefsSame ==
  ASSUME NEW ix, NEW new, NEW git, CkRefs(ix, git),
         new.recs = ix.recs, new.next = ix.next, new.pending = ix.pending,
         new.points \subseteq ix.points, DOMAIN new.branches = DOMAIN ix.branches,
         \A b \in DOMAIN ix.branches :
            /\ new.branches[b].head = ix.branches[b].head
            /\ new.branches[b].gone = ix.branches[b].gone
            /\ ix.branches[b].status = "merged" => new.branches[b].status = "merged"
  PROVE  CkRefs(new, git)
<1>1. RecordedCommits(new) = RecordedCommits(ix)
  BY CkSameRecorded
<1> QED BY <1>1 DEF CkRefs, CkLeft

\* A new intent: its commit is not pruned, and no ref is set yet.
LEMMA CkRefsIntend ==
  ASSUME NEW ix \in CkIndices, NEW git, CkRefs(ix, git), ix.pending = <<>>,
         NEW p \in CkIntents, p.kind # "rollback" => p.target \notin git.pruned
  PROVE  CkRefs([ix EXCEPT !.pending = <<p>>], git)
<1>1. PICK new : new = [ix EXCEPT !.pending = <<p>>]
  OBVIOUS
<1>2. <<p>> \in CkOptional(CkIntents)
  BY DEF CkOptional
<1>3. /\ new.recs = ix.recs /\ new.points = ix.points /\ new.branches = ix.branches
      /\ new.next = ix.next /\ new.pending = <<p>>
  BY <1>1, <1>2, CkSetPending
<1>4. new.pending[1] = p /\ new.pending # <<>>
  BY <1>3
<1>5. RecordedCommits(new) = RecordedCommits(ix)
  BY <1>3, CkSameRecorded
<1>6. p.kind \in {"create", "rollback", "merge"}
  BY DEF CkIntents
<1>7. CkRefs(new, git)
  BY <1>3, <1>4, <1>5, <1>6 DEF CkRefs, CkLeft
<1> QED BY <1>1, <1>7

\* Without an intent every ref is recorded.
CkRefsExact(ix, git) ==
    /\ RecordedCommits(ix) \cap git.pruned = {}
    /\ \A b \in DOMAIN ix.branches :
            CkLeft(ix, git, b) \/ git.branches[b] = ix.branches[b].head
    /\ \A r \in ix.recs : r.seq \in ix.points => git.points[r.seq] = r.commit
    /\ \A s \in Commits : s >= ix.next => git.points[s] = 0
LEMMA CkExact ==
  ASSUME NEW ix, NEW git, CkRefsExact(ix, git), ix.pending = <<>>
  PROVE  CkRefs(ix, git)
  BY DEF CkRefsExact, CkRefs
LEMMA CkExactly ==
  ASSUME NEW ix, NEW git, CkRefs(ix, git), ix.pending = <<>>
  PROVE  CkRefsExact(ix, git)
  BY DEF CkRefsExact, CkRefs
LEMMA CkExactSame ==
  ASSUME NEW ix, NEW new, NEW git, CkRefsExact(ix, git),
         new.recs = ix.recs, new.next = ix.next,
         new.points \subseteq ix.points, DOMAIN new.branches = DOMAIN ix.branches,
         \A b \in DOMAIN ix.branches :
            /\ new.branches[b].head = ix.branches[b].head
            /\ ix.branches[b].gone => new.branches[b].gone
            /\ ix.branches[b].status = "merged" => new.branches[b].status = "merged"
  PROVE  CkRefsExact(new, git)
<1>1. RecordedCommits(new) = RecordedCommits(ix)
  BY CkSameRecorded
<1> QED BY <1>1 DEF CkRefsExact, CkLeft

\* Once its refs are set, a recorded commit leaves no ref unexplained.
LEMMA CkTakesRefs ==
  ASSUME NEW ix, NEW objs \in Seq(CkObjects), CkCore(ix, objs), Len(objs) <= MaxCommits,
         NEW p \in CkIntents, CkTaking(ix, p, objs),
         NEW new, new = CkTaken(ix, p), NEW git,
         RecordedCommits(ix) \cap git.pruned = {}, p.target \notin git.pruned,
         git.points[p.seq] = p.target, git.branches[p.branch] = p.target,
         \A b \in DOMAIN ix.branches \ {ix.active} :
            CkLeft(ix, git, b) \/ git.branches[b] = ix.branches[b].head,
         \A r \in ix.recs : r.seq \in ix.points => git.points[r.seq] = r.commit,
         \A s \in Commits : s >= ix.next /\ s # p.seq => git.points[s] = 0
  PROVE  CkRefsExact(new, git)
<1>0. /\ ix \in CkIndices /\ CkCommitsOk(ix, Len(objs)) /\ p.seq = ix.next
      /\ p.branch = ix.active
  BY DEF CkCore, CkTaking, CkToRecord
<1>1. /\ new.recs = ix.recs \cup {[seq |-> p.seq, commit |-> p.target, parent |-> p.old]}
      /\ RecordedCommits(new) = RecordedCommits(ix) \cup {p.target}
      /\ new.points = ix.points \cup {p.seq} /\ new.next = p.seq + 1
      /\ new.active = ix.active /\ ActiveHead(new) = p.target
      /\ DOMAIN new.branches = DOMAIN ix.branches
      /\ \A b \in DOMAIN ix.branches \ {ix.active} : new.branches[b] = ix.branches[b]
  <2>1. /\ objs \in Seq(CkObjects) /\ CkCore(ix, objs) /\ Len(objs) <= MaxCommits
        /\ p \in CkIntents /\ CkTaking(ix, p, objs) /\ new = CkTaken(ix, p)
    OBVIOUS
  <2>2. CkTook(ix, p, new)
    BY ONLY <2>1, CkTakes
  <2> QED BY <2>2 DEF CkTook
<1>2. \A b \in DOMAIN new.branches :
            CkLeft(new, git, b) \/ git.branches[b] = new.branches[b].head
  <2>1. git.branches[ix.active] = new.branches[ix.active].head
    BY <1>0, <1>1 DEF ActiveHead
  <2> QED BY <2>1, <1>1 DEF CkLeft
<1>3. \A r \in new.recs : r.seq \in new.points => git.points[r.seq] = r.commit
  <2>1. SUFFICES ASSUME NEW r \in new.recs, r.seq \in new.points
                 PROVE  git.points[r.seq] = r.commit
    OBVIOUS
  <2>2. CASE r \in ix.recs
    <3>1. r.seq < ix.next /\ r.seq \in Int
      BY <2>2, <1>0, CkFields DEF CkCommitsOk, CkRecords, Commits
    <3>2. r.seq # p.seq
      BY <3>1, <1>0, CkFields
    <3> QED BY <2>1, <2>2, <3>2, <1>1
  <2>3. CASE r = [seq |-> p.seq, commit |-> p.target, parent |-> p.old]
    <3>1. r.seq = p.seq /\ r.commit = p.target
      BY <2>3
    <3> QED BY <3>1
  <2> QED BY <2>1, <2>2, <2>3, <1>1
<1>4. \A s \in Commits : s >= new.next => git.points[s] = 0
  <2>1. SUFFICES ASSUME NEW s \in Commits, s >= new.next PROVE git.points[s] = 0
    OBVIOUS
  <2>2. s >= ix.next /\ s # p.seq
    BY <2>1, <1>0, <1>1, CkFields DEF Commits
  <2> QED BY <2>2
<1>5. RecordedCommits(new) \cap git.pruned = {}
  BY <1>1
<1> QED BY <1>2, <1>3, <1>4, <1>5 DEF CkRefsExact

\* The merge commit is in the index once (_finish_merge), whether this switch or an
\* earlier one put it there.
LEMMA CkSwitchMerge ==
  ASSUME NEW ix, NEW objs \in Seq(CkObjects), Len(objs) <= MaxCommits,
         CkIndex(ix, objs), ix.pending # <<>>,
         NEW p, p = ix.pending[1], p.kind = "merge", NEW redo \in BOOLEAN,
         NEW new, new = Switched(ix, p, redo)
  PROVE  /\ CkIndex(new, objs) /\ new.pending = ix.pending
         /\ p.target \in RecordedCommits(new)
         /\ DOMAIN new.branches = DOMAIN ix.branches
         /\ \A b \in DOMAIN ix.branches : new.branches[b].status = ix.branches[b].status
         /\ \A git \in CkGits :
                CkRefs(ix, git) /\ git.branches[p.branch] = p.target
                  /\ (p.target \notin RecordedCommits(ix) => git.points[p.seq] = p.target)
                => CkRefs(new, git)
<1>0. CkCore(ix, objs) /\ CkIntentOk(ix, p, objs) /\ ix \in CkIndices
  BY DEF CkIndex, CkCore
<1>1. p \in CkIntents
  BY <1>0, CkPendingIs
<1>2. /\ p.branch = ix.active /\ p.target \in DOMAIN objs /\ p.seq \in 1 .. Len(objs)
      /\ p.old # 0 => p.old \in objs[p.target].parents
      /\ p.archived \in DOMAIN ix.branches /\ ix.branches[p.archived].status = "archived"
      /\ p.old \in RecordedCommits(ix)
      /\ ix.branches[p.archived].head # 0 =>
            ix.branches[p.archived].head \in objs[p.target].parents
  BY <1>0 DEF CkIntentOk
<1>3. new = [AddRecord(ix, p) EXCEPT !.branches[p.branch].head = p.target]
  BY DEF Switched
<1>4. ix.active \in DOMAIN ix.branches /\ ix.branches[ix.active] \in CkBranchRecords
  BY <1>0, CkFields DEF CkCore, CkBranchesOk
<1>5. CASE CkToRecord(ix, p)
  <2>0. CkTaking(ix, p, objs)
    BY <1>2, <1>5 DEF CkTaking
  <2>1. /\ CkCore(new, objs)
        /\ new.recs = ix.recs \cup {[seq |-> p.seq, commit |-> p.target, parent |-> p.old]}
        /\ RecordedCommits(new) = RecordedCommits(ix) \cup {p.target}
        /\ new.points = ix.points \cup {p.seq} /\ new.next = p.seq + 1
        /\ new.active = ix.active /\ new.pending = ix.pending
        /\ ActiveHead(new) = p.target
        /\ DOMAIN new.branches = DOMAIN ix.branches
        /\ new.branches[ix.active] = [ix.branches[ix.active] EXCEPT !.head = p.target]
        /\ \A b \in DOMAIN ix.branches \ {ix.active} : new.branches[b] = ix.branches[b]
    <3>1. new = CkTaken(ix, p)
      BY <1>3 DEF CkTaken
    <3>2. CkCore(new, objs) /\ CkTook(ix, p, new)
      BY <3>1, <2>0, <1>0, <1>1, CkTakes
    <3> QED BY <3>2 DEF CkTook
  <2>2. new.branches[ix.active].status = ix.branches[ix.active].status
        /\ new.branches[ix.active].head = p.target
        /\ new.branches[ix.active].gone = ix.branches[ix.active].gone
    BY <2>1, <1>4 DEF CkBranchRecords
  <2>3. \A b \in DOMAIN ix.branches : new.branches[b].status = ix.branches[b].status
    BY <2>1, <2>2
  <2>31. new.branches[p.archived].head = ix.branches[p.archived].head
    BY <2>1, <1>2, <1>0 DEF CkCore, CkBranchesOk
  <2>4. p.seq < new.next
    BY <2>1, <1>2
  <2>5. CkIntentOk(new, p, objs)
    BY <2>1, <2>3, <2>31, <2>4, <1>2 DEF CkIntentOk
  <2>6. ASSUME NEW git \in CkGits, CkRefs(ix, git), git.branches[p.branch] = p.target,
               p.target \notin RecordedCommits(ix) => git.points[p.seq] = p.target
        PROVE  CkRefs(new, git)
    <3>1. git.points[p.seq] = p.target /\ p.seq = ix.next /\ p.target \notin git.pruned
      BY <2>6, <1>5 DEF CkToRecord, CkRefs
    <3>2. \A b \in DOMAIN ix.branches \ {ix.active} :
            CkLeft(ix, git, b) \/ git.branches[b] = ix.branches[b].head
      BY <2>6, <1>2 DEF CkRefs
    <3>3. RecordedCommits(ix) \cap git.pruned = {}
          /\ (\A r \in ix.recs : r.seq \in ix.points => git.points[r.seq] = r.commit)
          /\ (\A s \in Commits : s >= ix.next /\ s # p.seq => git.points[s] = 0)
      BY <2>6 DEF CkRefs
    <3>4. new = CkTaken(ix, p)
      BY <1>3 DEF CkTaken
    <3>5. CkRefsExact(new, git)
      BY <2>0, <2>6, <3>1, <3>2, <3>3, <3>4, <1>0, <1>1, CkTakesRefs
    <3> QED BY <3>5, <3>1, <2>1 DEF CkRefs, CkRefsExact
  <2> QED BY <2>1, <2>3, <2>5, <2>6 DEF CkIndex
<1>6. CASE ~CkToRecord(ix, p)
  <2>1. p.target \in RecordedCommits(ix) /\ ActiveHead(ix) = p.target /\ p.seq < ix.next
    BY <1>0, <1>6 DEF CkIntentOk
  <2>2. PICK br : br = [ix.branches[ix.active] EXCEPT !.head = p.target]
    OBVIOUS
  <2>3. br = ix.branches[ix.active]
    BY <2>1, <2>2, <1>4 DEF ActiveHead, CkBranchRecords
  <2>4. new = SetBranch(ix, ix.active, br)
    BY <2>1, <2>2, <1>2, <1>3 DEF AddRecord, SetBranch
  <2>5. PICK n2 : n2 = SetBranch(ix, ix.active, br)
    OBVIOUS
  <2>6. /\ n2 \in CkIndices /\ n2.recs = ix.recs /\ n2.points = ix.points
        /\ n2.active = ix.active /\ n2.next = ix.next /\ n2.pending = ix.pending
        /\ Len(n2.branches) = Len(ix.branches) /\ DOMAIN n2.branches = DOMAIN ix.branches
        /\ n2.branches[ix.active] = br
        /\ \A d \in DOMAIN ix.branches \ {ix.active} : n2.branches[d] = ix.branches[d]
    BY <1>0, <1>4, <2>3, <2>5, CkSetBranch
  <2>7. /\ new \in CkIndices /\ new.recs = ix.recs /\ new.points = ix.points
        /\ new.active = ix.active /\ new.next = ix.next /\ new.pending = ix.pending
        /\ Len(new.branches) = Len(ix.branches) /\ DOMAIN new.branches = DOMAIN ix.branches
        /\ \A d \in DOMAIN ix.branches : new.branches[d] = ix.branches[d]
    BY <2>3, <2>4, <2>5, <2>6
  <2>8. \A d \in DOMAIN ix.branches : d # ix.active => ix.branches[d].status # "active"
    BY <1>0 DEF CkCore, CkBranchesOk
  <2>9. CkCore(new, objs) /\ ActiveHead(new) = ActiveHead(ix)
    <3>1. \A b \in DOMAIN ix.branches :
            /\ new.branches[b].head = ix.branches[b].head
            /\ new.branches[b].gone = ix.branches[b].gone
            /\ (b = ix.active) => new.branches[b].status = ix.branches[b].status
            /\ (b # ix.active) => new.branches[b].status # "active"
            /\ \/ new.branches[b].status = "merged" => ix.branches[b].status = "merged"
               \/ CkReached(ix.branches[b].head, objs) \subseteq CkReached(ActiveHead(ix), objs)
      BY <2>7, <2>8
    <3> QED BY <1>0, <2>7, <3>1, CkRemark
  <2>10. RecordedCommits(new) = RecordedCommits(ix)
    BY <2>7, CkSameRecorded
  <2>11. CkIntentOk(new, p, objs)
    BY <2>1, <2>7, <2>9, <2>10, <1>2 DEF CkIntentOk
  <2>12. \A git \in CkGits : CkRefs(ix, git) => CkRefs(new, git)
    BY <2>7, CkRefsSame
  <2> QED BY <2>1, <2>7, <2>9, <2>10, <2>11, <2>12 DEF CkIndex
<1> QED BY <1>5, <1>6

\* A rollback switches once (_finish_rollback, _recover_rollback).
LEMMA CkSwitchRollback ==
  ASSUME NEW ix, NEW objs \in Seq(CkObjects), Len(objs) <= MaxCommits,
         CkIndex(ix, objs), ix.pending # <<>>,
         NEW p, p = ix.pending[1], p.kind = "rollback", NEW redo \in BOOLEAN,
         NEW new, new = Switched(ix, p, redo)
  PROVE  /\ CkIndex(new, objs) /\ new.pending = ix.pending /\ new.active = p.new
         /\ \A git \in CkGits :
                CkRefs(ix, git) /\ git.branches[p.new] = p.target => CkRefs(new, git)
<1>0. CkCore(ix, objs) /\ CkIntentOk(ix, p, objs) /\ ix \in CkIndices
  BY DEF CkIndex, CkCore
<1>1. p \in CkIntents
  BY <1>0, CkPendingIs
<1>2. /\ p.target \in RecordedCommits(ix) /\ p.old \in RecordedCommits(ix)
      /\ p.new \in BranchIds
  BY <1>0 DEF CkIntentOk
<1>3. CASE ix.active = p.new
  <2>1. new = ix
    BY <1>3 DEF Switched
  <2> QED BY <2>1, <1>3
<1>4. CASE ix.active # p.new
  <2>1. p.archived = ix.active /\ p.new = Len(ix.branches) + 1
    BY <1>0, <1>4 DEF CkIntentOk
  <2>2. PICK e \in BOOLEAN : e = (redo \/ p.eligible)
    BY <1>1 DEF CkIntents
  <2>3. new = RolledBack(ix, p, e)
    BY <1>4, <2>2 DEF Switched
  <2>4. /\ CkCore(new, objs) /\ new.recs = ix.recs /\ new.points = ix.points
        /\ new.next = ix.next /\ new.pending = ix.pending /\ new.active = p.new
        /\ ActiveHead(new) = p.target
        /\ DOMAIN new.branches = DOMAIN ix.branches \cup {p.new}
        /\ \A b \in DOMAIN ix.branches :
                /\ new.branches[b].head = ix.branches[b].head
                /\ new.branches[b].gone = ix.branches[b].gone
                /\ ix.branches[b].status = "merged" => new.branches[b].status = "merged"
    BY <1>0, <1>1, <1>2, <2>1, <2>3, CkRollsBack
  <2>5. RecordedCommits(new) = RecordedCommits(ix)
    BY <2>4, CkSameRecorded
  <2>6. CkIntentOk(new, p, objs)
    BY <2>4, <2>5, <1>2 DEF CkIntentOk
  <2>7. ASSUME NEW git \in CkGits, CkRefs(ix, git), git.branches[p.new] = p.target
        PROVE  CkRefs(new, git)
    <3>1. \A b \in DOMAIN new.branches :
            CkLeft(new, git, b) \/ git.branches[b] = new.branches[b].head
      <4>1. \A b \in DOMAIN ix.branches :
              CkLeft(new, git, b) \/ git.branches[b] = new.branches[b].head
        BY <2>4, <2>7 DEF CkRefs, CkLeft
      <4>2. new.branches[p.new].head = p.target
        BY <2>4 DEF ActiveHead
      <4> QED BY <4>1, <4>2, <2>4, <2>7
    <3> QED BY <3>1, <2>4, <2>5, <2>7 DEF CkRefs
  <2> QED BY <2>4, <2>6, <2>7 DEF CkIndex
<1> QED BY <1>3, <1>4

\* The intent is taken out of an index: what is left is sound by itself.
LEMMA CkDone ==
  ASSUME NEW ix, NEW objs \in Seq(CkObjects), CkIndex(ix, objs),
         NEW done, done = [ix EXCEPT !.pending = <<>>]
  PROVE  /\ CkCore(done, objs) /\ CkIndex(done, objs) /\ done.pending = <<>>
         /\ done.recs = ix.recs /\ done.points = ix.points /\ done.branches = ix.branches
         /\ done.active = ix.active /\ done.next = ix.next
         /\ RecordedCommits(done) = RecordedCommits(ix) /\ ActiveHead(done) = ActiveHead(ix)
<1>1. CkCore(ix, objs) /\ ix \in CkIndices
  BY DEF CkIndex, CkCore
<1>2. <<>> \in CkOptional(CkIntents)
  BY DEF CkOptional
<1>3. CkCore(done, objs)
  BY <1>1, <1>2, CkIntends
<1>4. /\ done.pending = <<>> /\ done.recs = ix.recs /\ done.points = ix.points
      /\ done.branches = ix.branches /\ done.active = ix.active /\ done.next = ix.next
  BY <1>1, <1>2, CkSetPending
<1> QED BY <1>3, <1>4, CkSameRecorded DEF CkIndex, ActiveHead

\* A created checkpoint is settled by one write of the index (_finish_create).
LEMMA CkSettleCreate ==
  ASSUME NEW ix, NEW objs \in Seq(CkObjects), Len(objs) <= MaxCommits,
         CkIndex(ix, objs), ix.pending # <<>>,
         NEW p, p = ix.pending[1], p.kind = "create",
         NEW new, new = Settled(ix, p)
  PROVE  /\ CkIndex(new, objs) /\ new.pending = <<>>
         /\ \A git \in CkGits :
                CkRefs(ix, git) /\ git.branches[p.branch] = p.target
                  /\ git.points[p.seq] = p.target => CkRefs(new, git)
<1>0. CkCore(ix, objs) /\ CkIntentOk(ix, p, objs) /\ ix \in CkIndices
  BY DEF CkIndex, CkCore
<1>1. p \in CkIntents
  BY <1>0, CkPendingIs
<1>2. /\ p.branch = ix.active /\ p.target \in DOMAIN objs /\ p.seq \in 1 .. Len(objs)
      /\ p.old # 0 => p.old \in objs[p.target].parents
      /\ CkToRecord(ix, p)
  BY <1>0 DEF CkIntentOk
<1>3. PICK done : done = [ix EXCEPT !.pending = <<>>]
  OBVIOUS
<1>4. /\ CkCore(done, objs) /\ done.pending = <<>>
      /\ done.recs = ix.recs /\ done.points = ix.points /\ done.branches = ix.branches
      /\ done.active = ix.active /\ done.next = ix.next
      /\ RecordedCommits(done) = RecordedCommits(ix) /\ ActiveHead(done) = ActiveHead(ix)
  BY <1>3, CkDone
<1>5. CkTaking(done, p, objs)
  BY <1>2, <1>4 DEF CkTaking, CkToRecord
<1>6. PICK taken : taken = CkTaken(done, p)
  OBVIOUS
<1>7. CkCore(taken, objs) /\ taken.pending = <<>>
  <2>1. CkCore(taken, objs) /\ taken.pending = done.pending
    <3>1. /\ objs \in Seq(CkObjects) /\ CkCore(done, objs) /\ Len(objs) <= MaxCommits
          /\ p \in CkIntents /\ CkTaking(done, p, objs) /\ taken = CkTaken(done, p)
      BY <1>1, <1>4, <1>5, <1>6
    <3>2. CkCore(taken, objs) /\ CkTook(done, p, taken)
      BY ONLY <3>1, CkTakes
    <3> QED BY <3>2 DEF CkTook
  <2> QED BY <2>1, <1>4
<1>8. new = TrimRestorePoints(taken)
  BY <1>3, <1>6 DEF Settled, CkTaken
<1>9. PICK trim : trim = TrimRestorePoints(taken)
  OBVIOUS
<1>10. /\ CkCore(trim, objs) /\ trim.recs = taken.recs /\ trim.next = taken.next
       /\ trim.active = taken.active /\ trim.branches = taken.branches
       /\ trim.pending = taken.pending /\ trim.points \subseteq taken.points
  BY <1>7, <1>9, CkTrims
<1>11. new = trim
  BY <1>8, <1>9
<1>12. ASSUME NEW git \in CkGits, CkRefs(ix, git), git.branches[p.branch] = p.target,
              git.points[p.seq] = p.target
       PROVE  CkRefs(new, git)
  <2>1. p.target \notin git.pruned
    BY <1>12 DEF CkRefs
  <2>2. \A b \in DOMAIN done.branches \ {done.active} :
            CkLeft(done, git, b) \/ git.branches[b] = done.branches[b].head
    BY <1>12, <1>2, <1>4 DEF CkRefs, CkLeft
  <2>3. RecordedCommits(done) \cap git.pruned = {}
        /\ (\A r \in done.recs : r.seq \in done.points => git.points[r.seq] = r.commit)
        /\ (\A s \in Commits : s >= done.next /\ s # p.seq => git.points[s] = 0)
    BY <1>12, <1>4 DEF CkRefs
  <2>4. CkRefsExact(taken, git)
    BY <1>12, <2>1, <2>2, <2>3, <1>1, <1>4, <1>5, <1>6, CkTakesRefs
  <2>5. CkRefsExact(trim, git)
    BY <2>4, <1>10, CkExactSame
  <2> QED BY <2>5, <1>7, <1>10, <1>11, CkExact
<1> QED BY <1>7, <1>10, <1>11, <1>12 DEF CkIndex

\* A rollback is settled once its branch is in the index.
LEMMA CkSettleRollback ==
  ASSUME NEW ix, NEW objs \in Seq(CkObjects), CkIndex(ix, objs), ix.pending # <<>>,
         NEW p, p = ix.pending[1], p.kind = "rollback",
         NEW new, new = Settled(ix, p)
  PROVE  /\ CkIndex(new, objs) /\ new.pending = <<>>
         /\ \A git \in CkGits : CkRefs(ix, git) => CkRefs(new, git)
<1>1. new = [ix EXCEPT !.pending = <<>>]
  BY DEF Settled
<1>2. /\ CkIndex(new, objs) /\ new.pending = <<>>
      /\ new.recs = ix.recs /\ new.points = ix.points /\ new.branches = ix.branches
      /\ new.next = ix.next /\ RecordedCommits(new) = RecordedCommits(ix)
  BY <1>1, CkDone
<1>3. ASSUME NEW git \in CkGits, CkRefs(ix, git) PROVE CkRefs(new, git)
  <2>1. CkRefsExact(new, git)
    BY <1>2, <1>3 DEF CkRefs, CkRefsExact, CkLeft
  <2> QED BY <2>1, <1>2, CkExact
<1> QED BY <1>2, <1>3

\* A merge is settled once its commit is in the index: only its branch is merged.
LEMMA CkSettleMerge ==
  ASSUME NEW ix, NEW objs \in Seq(CkObjects), CkIndex(ix, objs), ix.pending # <<>>,
         NEW p, p = ix.pending[1], p.kind = "merge", p.target \in RecordedCommits(ix),
         NEW new, new = Settled(ix, p)
  PROVE  /\ CkIndex(new, objs) /\ new.pending = <<>>
         /\ DOMAIN new.branches = DOMAIN ix.branches
         /\ \A b \in DOMAIN ix.branches \ {p.archived} : new.branches[b] = ix.branches[b]
         /\ \A git \in CkGits : CkRefs(ix, git) => CkRefs(new, git)
<1>0. CkCore(ix, objs) /\ CkIntentOk(ix, p, objs) /\ ix \in CkIndices
  BY DEF CkIndex, CkCore
<1>2. /\ p.branch = ix.active /\ p.archived \in DOMAIN ix.branches
      /\ ix.branches[p.archived].status = "archived"
      /\ ActiveHead(ix) = p.target /\ p.seq < ix.next
      /\ p.target \in DOMAIN objs
      /\ ix.branches[p.archived].head # 0 =>
            ix.branches[p.archived].head \in objs[p.target].parents
  BY <1>0 DEF CkIntentOk, CkToRecord
<1>21. CkReached(ix.branches[p.archived].head, objs) \subseteq CkReached(ActiveHead(ix), objs)
  <2>1. SUFFICES ASSUME NEW c \in CkReached(ix.branches[p.archived].head, objs)
                 PROVE  c \in CkReached(ActiveHead(ix), objs)
    OBVIOUS
  <2>2. ix.branches[p.archived].head \in DOMAIN objs
    BY <2>1, CkReachedRoot
  <2>3. ix.branches[p.archived].head # 0
    BY <2>2
  <2> QED BY <2>1, <2>2, <2>3, <1>2, CkReachedFacts
<1>3. PICK done : done = [ix EXCEPT !.pending = <<>>]
  OBVIOUS
<1>4. /\ CkCore(done, objs) /\ done.pending = <<>>
      /\ done.recs = ix.recs /\ done.points = ix.points /\ done.branches = ix.branches
      /\ done.active = ix.active /\ done.next = ix.next
      /\ RecordedCommits(done) = RecordedCommits(ix) /\ ActiveHead(done) = ActiveHead(ix)
  BY <1>3, CkDone
<1>5. PICK br : br = [ix.branches[p.archived] EXCEPT !.status = "merged", !.merge = "none"]
  OBVIOUS
<1>6. ix.branches[p.archived] \in CkBranchRecords
  BY <1>0, <1>2, CkFields
<1>7. /\ br \in CkBranchRecords /\ br.head = ix.branches[p.archived].head
      /\ br.gone = ix.branches[p.archived].gone /\ br.status = "merged"
  BY <1>5, <1>6 DEF CkBranchRecords
<1>8. p.archived # done.active /\ p.archived \in DOMAIN done.branches
  BY <1>0, <1>2, <1>4 DEF CkCore, CkBranchesOk
<1>9. PICK mark : mark = SetBranch(done, p.archived, br)
  OBVIOUS
<1>10. CkCore(mark, objs)
  BY <1>21, <1>4, <1>7, <1>8, <1>9, CkMarks
<1>11. /\ mark.recs = ix.recs /\ mark.points = ix.points /\ mark.next = ix.next
       /\ mark.pending = <<>> /\ DOMAIN mark.branches = DOMAIN ix.branches
       /\ mark.branches[p.archived] = br
       /\ \A d \in DOMAIN ix.branches \ {p.archived} : mark.branches[d] = ix.branches[d]
  <2>1. done \in CkIndices
    BY <1>4 DEF CkCore
  <2>2. /\ mark.recs = done.recs /\ mark.points = done.points /\ mark.next = done.next
        /\ mark.pending = done.pending /\ DOMAIN mark.branches = DOMAIN done.branches
        /\ mark.branches[p.archived] = br
        /\ \A d \in DOMAIN done.branches \ {p.archived} : mark.branches[d] = done.branches[d]
    BY <2>1, <1>7, <1>8, <1>9, CkSetBranch
  <2> QED BY <2>2, <1>4
<1>12. new = TrimRestorePoints(mark)
  <2>1. PICK s1 : s1 = [ix.branches[p.archived] EXCEPT !.status = "merged"]
    OBVIOUS
  <2>2. PICK b1 : b1 = [done.branches EXCEPT ![p.archived] = s1]
    OBVIOUS
  <2>3. b1[p.archived] = s1
    BY <2>2, <1>8
  <2>4. br = [s1 EXCEPT !.merge = "none"]
    BY <2>1, <1>5
  <2>5. [b1 EXCEPT ![p.archived] = br] = [done.branches EXCEPT ![p.archived] = br]
    BY <2>2
  <2>6. [done EXCEPT !.branches[p.archived].status = "merged",
                     !.branches[p.archived].merge = "none"]
            = [done EXCEPT !.branches = [b1 EXCEPT ![p.archived] = br]]
    BY <2>1, <2>2, <2>3, <2>4, <1>4, ZenonT(60)
  <2>7. mark = [done EXCEPT !.branches[p.archived].status = "merged",
                            !.branches[p.archived].merge = "none"]
    BY <2>5, <2>6, <1>9 DEF SetBranch
  <2> QED BY <2>7, <1>3 DEF Settled
<1>13. PICK trim : trim = TrimRestorePoints(mark)
  OBVIOUS
<1>14. /\ CkCore(trim, objs) /\ trim.recs = mark.recs /\ trim.next = mark.next
       /\ trim.active = mark.active /\ trim.branches = mark.branches
       /\ trim.pending = mark.pending /\ trim.points \subseteq mark.points
  BY <1>10, <1>13, CkTrims
<1>15. new = trim
  BY <1>12, <1>13
<1>16. ASSUME NEW git \in CkGits, CkRefs(ix, git) PROVE CkRefs(new, git)
  <2>1. \A b \in DOMAIN ix.branches : CkLeft(ix, git, b) \/ git.branches[b] = ix.branches[b].head
    BY <1>16, <1>2 DEF CkRefs, ActiveHead
  <2>2. \A s \in Commits : s >= ix.next => git.points[s] = 0
    <3>1. ASSUME NEW s \in Commits, s >= ix.next PROVE s # p.seq
      BY <3>1, <1>0, <1>2, CkFields, CkPendingIs DEF Commits, CkIntents
    <3> QED BY <3>1, <1>16 DEF CkRefs
  <2>3. CkRefsExact(ix, git)
    BY <2>1, <2>2, <1>16 DEF CkRefs, CkRefsExact
  <2>4. CkRefsExact(mark, git)
    <3>1. \A b \in DOMAIN ix.branches :
            /\ mark.branches[b].head = ix.branches[b].head
            /\ ix.branches[b].gone => mark.branches[b].gone
            /\ ix.branches[b].status = "merged" => mark.branches[b].status = "merged"
      BY <1>7, <1>11
    <3> QED BY <2>3, <3>1, <1>11, CkExactSame
  <2>5. CkRefsExact(trim, git)
    BY <2>4, <1>14, CkExactSame
  <2> QED BY <2>5, <1>11, <1>14, <1>15, CkExact
<1> QED BY <1>11, <1>14, <1>15, <1>16 DEF CkIndex

\* A mark on a branch that is not the active one leaves the index and its intent sound.
LEMMA CkMarksIndex ==
  ASSUME NEW ix, NEW objs \in Seq(CkObjects), CkIndex(ix, objs),
         NEW b \in DOMAIN ix.branches, b # ix.active, NEW br \in CkBranchRecords,
         br.head = ix.branches[b].head, br.gone = ix.branches[b].gone, br.status = "archived",
         ix.branches[b].status = "archived",
         NEW new, new = SetBranch(ix, b, br)
  PROVE  /\ CkIndex(new, objs) /\ new.pending = ix.pending /\ new.active = ix.active
         /\ new \in CkIndices /\ DOMAIN new.branches = DOMAIN ix.branches
         /\ \A d \in DOMAIN ix.branches \ {b} : new.branches[d] = ix.branches[d]
         /\ \A git : CkRefs(ix, git) => CkRefs(new, git)
<1>0. CkCore(ix, objs) /\ ix \in CkIndices
  BY DEF CkIndex, CkCore
<1>1. PICK n2 : n2 = SetBranch(ix, b, br)
  OBVIOUS
<1>2. CkCore(n2, objs)
  BY <1>0, <1>1, CkMarks
<1>3. /\ n2 \in CkIndices /\ n2.recs = ix.recs /\ n2.points = ix.points
      /\ n2.active = ix.active /\ n2.next = ix.next /\ n2.pending = ix.pending
      /\ Len(n2.branches) = Len(ix.branches) /\ DOMAIN n2.branches = DOMAIN ix.branches
      /\ n2.branches[b] = br
      /\ \A d \in DOMAIN ix.branches \ {b} : n2.branches[d] = ix.branches[d]
  BY <1>0, <1>1, CkSetBranch
<1>4. RecordedCommits(n2) = RecordedCommits(ix) /\ ActiveHead(n2) = ActiveHead(ix)
  <2>1. ix.active \in DOMAIN ix.branches
    BY <1>0 DEF CkCore, CkBranchesOk
  <2> QED BY <2>1, <1>3, CkSameRecorded DEF ActiveHead
<1>5. ASSUME ix.pending # <<>> PROVE CkIntentOk(n2, n2.pending[1], objs)
  <2>1. PICK p : p = ix.pending[1]
    OBVIOUS
  <2>2. CkIntentOk(ix, p, objs) /\ n2.pending[1] = p
    BY <1>3, <1>5, <2>1 DEF CkIndex
  <2>3. CkToRecord(ix, p) <=> CkToRecord(n2, p)
    BY <1>3, <1>4 DEF CkToRecord
  <2>4. \A d \in DOMAIN ix.branches :
            ix.branches[d].status = "archived" => n2.branches[d].status = "archived"
    BY <1>3
  <2>5. CkIntentOk(n2, p, objs)
    BY <1>3, <1>4, <2>2, <2>3, <2>4 DEF CkIntentOk
  <2> QED BY <2>2, <2>5
<1>6. CkIndex(n2, objs)
  BY <1>2, <1>3, <1>5 DEF CkIndex
<1>7. \A d \in DOMAIN ix.branches :
            n2.branches[d].head = ix.branches[d].head /\ n2.branches[d].gone = ix.branches[d].gone
            /\ n2.branches[d].status = ix.branches[d].status
  BY <1>3
<1>8. \A git : CkRefs(ix, git) => CkRefs(n2, git)
  BY <1>3, <1>7, CkRefsSame
<1> QED BY <1>1, <1>3, <1>6, <1>8

-----------------------------------------------------------------------------
(* Steps of the component. *)

\* Every recorded commit is reached from a ref, so `git prune` keeps it.
LEMMA CkReferenced ==
  ASSUME NEW ix, NEW git \in CkGits, Len(git.objs) <= MaxCommits,
         CkIndex(ix, git.objs), CkRefs(ix, git)
  PROVE  RecordedCommits(ix) \subseteq Reach(Referenced(git), CkHistory(git.objs))
<1>1. PICK objs : objs = git.objs
  OBVIOUS
<1>2. objs \in Seq(CkObjects) /\ DOMAIN objs = 1 .. Len(objs) /\ Len(objs) \in Nat
  BY <1>1 DEF CkGits
<1>3. /\ CkCore(ix, objs) /\ ix \in CkIndices /\ CkBranchesOk(ix) /\ CkKept(ix, objs)
      /\ ix.pending # <<>> => CkIntentOk(ix, ix.pending[1], objs)
  BY <1>1 DEF CkIndex, CkCore
<1>4. SUFFICES ASSUME NEW c \in RecordedCommits(ix)
               PROVE  c \in Reach(Referenced(git), CkHistory(objs))
  BY <1>1
<1>5. PICK b \in DOMAIN ix.branches :
            CkHolds(ix.branches[b]) /\ c \in CkReached(ix.branches[b].head, objs)
  BY <1>3 DEF CkKept
<1>6. b \in BranchIds
  <2>1. Len(ix.branches) \in Nat /\ b \in 1 .. Len(ix.branches) /\ Len(ix.branches) <= MaxBranches
    BY <1>3, CkFields DEF CkBranchesOk
  <2> QED BY <2>1, CkAssumption DEF BranchIds
<1>7. ix.branches[b].head \in DOMAIN objs
  BY <1>2, <1>5, CkReachedRoot
<1>8. git.branches[b] \in DOMAIN objs /\ c \in CkReached(git.branches[b], objs)
  <2>1. CASE git.branches[b] = ix.branches[b].head
    BY <2>1, <1>5, <1>7
  <2>2. CASE git.branches[b] # ix.branches[b].head
    <3>1. PICK p : p = ix.pending[1]
      OBVIOUS
    <3>2. /\ ix.pending # <<>> /\ p.kind \in {"create", "merge"} /\ b = p.branch
          /\ git.branches[b] = p.target
      BY <2>2, <1>5, <3>1 DEF CkRefs, CkLeft, CkHolds
    <3>3. CkIntentOk(ix, p, objs)
      BY <1>3, <3>1, <3>2
    <3>4. /\ p.branch = ix.active /\ p.target \in DOMAIN objs
          /\ p.old # 0 => p.old \in objs[p.target].parents
          /\ p.old = ActiveHead(ix) \/ ActiveHead(ix) = p.target
      BY <3>2, <3>3 DEF CkIntentOk, CkToRecord
    <3>5. ActiveHead(ix) = ix.branches[b].head
      BY <3>2, <3>4 DEF ActiveHead
    <3>6. p.old = ix.branches[b].head
      BY <2>2, <3>2, <3>4, <3>5
    <3>7. p.old \in objs[p.target].parents
      BY <3>4, <3>6, <1>2, <1>7
    <3>8. c \in CkReached(p.target, objs)
      BY <1>2, <1>5, <3>4, <3>6, <3>7, CkReachedFacts
    <3> QED BY <3>2, <3>4, <3>8
  <2> QED BY <2>1, <2>2
<1>9. git.branches[b] \in Referenced(git)
  BY <1>2, <1>6, <1>8 DEF Referenced
<1> QED BY <1>8, <1>9, ReachMore DEF CkReached

\* The operation at work and its fields.
LEMMA CkWorkFields ==
  ASSUME NEW w \in CkWorks
  PROVE  /\ w.who \in {"trace", "dream"} /\ w.tool \in {"start", "change", "rollback", "dream"}
         /\ w.ix \in CkIndices /\ w.stage \in CkStages /\ w.redo \in BOOLEAN
         /\ w.todo \in SUBSET BranchIds
  BY DEF CkWorks
LEMMA CkWorkSet ==
  ASSUME NEW w \in CkWorks, NEW ix \in CkIndices, NEW s \in CkStages,
         NEW r \in BOOLEAN, NEW t \in SUBSET BranchIds,
         NEW n, n = [w EXCEPT !.ix = ix, !.stage = s, !.redo = r, !.todo = t]
  PROVE  /\ n \in CkWorks /\ n.who = w.who /\ n.tool = w.tool /\ n.ix = ix
         /\ n.stage = s /\ n.redo = r /\ n.todo = t
  BY DEF CkWorks

\* What the invariant says of the operation at work.
LEMMA CkAtWork ==
  ASSUME CkInvariant, Busy
  PROVE  /\ ckWork = <<W>> /\ W \in CkWorks /\ W.ix \in CkIndices
         /\ ckTree \in CkTrees /\ ckGit \in CkGits /\ ckGit.objs \in Seq(CkObjects)
         /\ Len(ckGit.objs) <= MaxCommits /\ Len(ckGit.objs) \in Nat
         /\ ckGit.pruned \subseteq 1 .. Len(ckGit.objs)
         /\ CkIndex(W.ix, ckGit.objs) /\ CkStageOk(W, ckTree, ckGit.objs)
         /\ ~ckRaced => /\ ckDisk = <<W.ix>> /\ CkRefs(W.ix, ckGit)
                        /\ W.who = "dream" => ckLive \in {<<>>, ckDisk}
                        /\ W.tool = "start" => ckLive = <<>>
                        /\ W.ix.pending # <<>> => CkStageRefs(W, ckGit)
<1>1. /\ CkTypedAt(ckTree, ckGit, ckDisk, ckLive, ckWork, ckRaced)
      /\ CkIndexedAt(ckTree, ckGit.objs, ckDisk, ckLive, ckWork)
      /\ ~ckRaced => CkTiedAt(ckGit, ckDisk, ckLive, ckWork)
      /\ ckWork # <<>>
  BY DEF CkInvariant, Busy
<1>2. ckWork = <<W>> /\ W \in CkWorks
  <2>1. ckWork \in CkOptional(CkWorks)
    BY <1>1 DEF CkTypedAt
  <2> QED BY <1>1, <2>1 DEF W, CkOptional
<1>3. W.ix \in CkIndices
  BY <1>2, CkWorkFields
<1>4. /\ ckTree \in CkTrees /\ ckGit \in CkGits /\ Len(ckGit.objs) <= MaxCommits
      /\ ckGit.pruned \subseteq 1 .. Len(ckGit.objs)
  BY <1>1 DEF CkTypedAt
<1>5. ckGit.objs \in Seq(CkObjects) /\ Len(ckGit.objs) \in Nat
  BY <1>4 DEF CkGits
<1>6. CkIndex(W.ix, ckGit.objs) /\ CkStageOk(W, ckTree, ckGit.objs)
  BY <1>1 DEF CkIndexedAt, W
<1>7. ASSUME ~ckRaced
      PROVE  /\ ckDisk = <<W.ix>> /\ CkRefs(W.ix, ckGit)
             /\ W.who = "dream" => ckLive \in {<<>>, ckDisk}
             /\ W.tool = "start" => ckLive = <<>>
             /\ W.ix.pending # <<>> => CkStageRefs(W, ckGit)
  <2>1. CkTiedAt(ckGit, ckDisk, ckLive, ckWork)
    BY <1>1, <1>7
  <2>2. /\ ckDisk = <<W.ix>>
        /\ W.who = "dream" => ckLive \in {<<>>, ckDisk}
        /\ W.tool = "start" => ckLive = <<>>
    BY <1>1, <2>1 DEF CkTiedAt, CkAgreed, W
  <2>3. ckDisk # <<>> /\ ckDisk[1] = W.ix
    BY <2>2
  <2> QED BY <1>1, <2>1, <2>2, <2>3 DEF CkTiedAt, W
<1> QED BY <1>2, <1>3, <1>4, <1>5, <1>6, <1>7

\* More objects leave every index sound.
CkHistoryKept == \A ix \in CkIndices :
    CkIndex(ix, ckGit.objs) => CkIndex(ix, ckGit'.objs)

\* The operation goes on: its index, on disk when it was written, and the refs.
LEMMA CkMoves ==
  ASSUME CkInvariant, Busy, NEW w \in CkWorks, ckWork' = <<w>>,
         w.who = W.who, w.tool = W.tool,
         ckTree' \in CkTrees, ckGit' \in CkGits, Len(ckGit'.objs) <= MaxCommits,
         ckGit'.pruned \subseteq 1 .. Len(ckGit'.objs), CkHistoryKept,
         UNCHANGED <<ckLive, ckFaults, ckOutside>>,
         \/ ckDisk' = ckDisk /\ w.ix = W.ix /\ ckRaced' = ckRaced
         \/ ckDisk' = <<w.ix>> /\ ckRaced' = (ckRaced \/ (W.who = "dream" /\ ckLive # <<>>)),
         CkIndex(w.ix, ckGit'.objs), CkStageOk(w, ckTree', ckGit'.objs),
         ~ckRaced => /\ CkRefs(w.ix, ckGit')
                     /\ w.ix.pending # <<>> => CkStageRefs(w, ckGit')
  PROVE  CkInvariant'
<1>0. /\ ckWork = <<W>> /\ W \in CkWorks
      /\ ~ckRaced => /\ ckDisk = <<W.ix>>
                     /\ W.who = "dream" => ckLive \in {<<>>, ckDisk}
                     /\ W.tool = "start" => ckLive = <<>>
  BY CkAtWork
<1>1. /\ CkBounded /\ CkTypedAt(ckTree, ckGit, ckDisk, ckLive, ckWork, ckRaced)
      /\ CkIndexedAt(ckTree, ckGit.objs, ckDisk, ckLive, ckWork)
  BY DEF CkInvariant
<1>2. w.ix \in CkIndices /\ ckWork'[1] = w /\ ckWork' # <<>>
  BY CkWorkFields
<1>3. /\ ckDisk \in CkOptional(CkIndices) /\ ckLive \in CkOptional(CkIndices)
      /\ ckRaced \in BOOLEAN
  BY <1>1 DEF CkTypedAt
<1>4. CkBounded'
  BY <1>1 DEF CkBounded
<1>5. CkTypedAt(ckTree', ckGit', ckDisk', ckLive', ckWork', ckRaced')
  <2>1. ckDisk' \in CkOptional(CkIndices) /\ ckWork' \in CkOptional(CkWorks)
    BY <1>2, <1>3 DEF CkOptional
  <2> QED BY <1>3, <2>1 DEF CkTypedAt
<1>6. CkIndexedAt(ckTree', ckGit'.objs, ckDisk', ckLive', ckWork')
  <2>1. ckLive' # <<>> => CkIndex(ckLive'[1], ckGit'.objs)
    <3>1. ASSUME ckLive # <<>> PROVE CkIndex(ckLive[1], ckGit'.objs)
      <4>1. ckLive[1] \in CkIndices
        BY <1>3, <3>1 DEF CkOptional
      <4> QED BY <4>1, <3>1, <1>1 DEF CkIndexedAt, CkHistoryKept
    <3> QED BY <3>1
  <2>2. ckDisk' # <<>> => CkIndex(ckDisk'[1], ckGit'.objs)
    <3>1. CASE ckDisk' = ckDisk
      <4>1. ASSUME ckDisk # <<>> PROVE CkIndex(ckDisk[1], ckGit'.objs)
        <5>1. ckDisk[1] \in CkIndices
          BY <1>3, <4>1 DEF CkOptional
        <5> QED BY <5>1, <4>1, <1>1 DEF CkIndexedAt, CkHistoryKept
      <4> QED BY <3>1, <4>1
    <3>2. CASE ckDisk' = <<w.ix>>
      <4>1. ckDisk'[1] = w.ix
        BY <3>2
      <4> QED BY <4>1
    <3> QED BY <3>1, <3>2
  <2> QED BY <2>1, <2>2, <1>2 DEF CkIndexedAt
<1>7. ASSUME ~ckRaced' PROVE CkTiedAt(ckGit', ckDisk', ckLive', ckWork')
  <2>1. ~ckRaced
    BY <1>7
  <2>2. ckDisk' = <<w.ix>> /\ ckDisk' # <<>> /\ ckDisk'[1] = w.ix
    BY <1>0, <2>1
  <2>3. W.who = "dream" => ckLive \in {<<>>, ckDisk'}
    BY <1>0, <1>7, <2>1
  <2>4. CkAgreed(ckDisk', ckLive', ckWork')
    BY <1>0, <1>2, <2>1, <2>2, <2>3 DEF CkAgreed
  <2> QED BY <1>2, <2>1, <2>2, <2>4 DEF CkTiedAt
<1>8. CkIndexedAt(ckTree, ckGit.objs, ckDisk, ckLive, ckWork)' /\ CkBounded'
      /\ CkTypedAt(ckTree, ckGit, ckDisk, ckLive, ckWork, ckRaced)'
  BY <1>4, <1>5, <1>6
<1> QED BY <1>4, <1>5, <1>6, <1>7 DEF CkInvariant

\* The operation ends: the index it leaves on disk, in memory or both.
LEMMA CkEnds ==
  ASSUME CkInvariant, ckWork' = <<>>, CkBounded', ckTree' \in CkTrees,
         ckGit' \in CkGits, ckGit'.objs = ckGit.objs, ckGit'.pruned = ckGit.pruned,
         NEW ix, CkIndex(ix, ckGit.objs), ckRaced' \in BOOLEAN,
         ckDisk' \in {ckDisk, <<ix>>}, ckLive' \in {<<>>, ckLive, <<ix>>},
         ~ckRaced' => ckDisk' = <<ix>> /\ ckLive' \in {<<>>, <<ix>>} /\ CkRefs(ix, ckGit')
  PROVE  CkInvariant'
<1>1. /\ CkTypedAt(ckTree, ckGit, ckDisk, ckLive, ckWork, ckRaced)
      /\ CkIndexedAt(ckTree, ckGit.objs, ckDisk, ckLive, ckWork)
  BY DEF CkInvariant
<1>2. ix \in CkIndices
  BY DEF CkIndex, CkCore
<1>3. /\ ckDisk \in CkOptional(CkIndices) /\ ckLive \in CkOptional(CkIndices)
      /\ Len(ckGit'.objs) <= MaxCommits /\ ckGit'.pruned \subseteq 1 .. Len(ckGit'.objs)
  BY <1>1 DEF CkTypedAt
<1>4. CkTypedAt(ckTree', ckGit', ckDisk', ckLive', ckWork', ckRaced')
  <2>1. /\ ckDisk' \in CkOptional(CkIndices) /\ ckLive' \in CkOptional(CkIndices)
        /\ ckWork' \in CkOptional(CkWorks)
    BY <1>2, <1>3 DEF CkOptional
  <2> QED BY <2>1, <1>3 DEF CkTypedAt
<1>5. CkIndexedAt(ckTree', ckGit'.objs, ckDisk', ckLive', ckWork')
  <2>1. <<ix>>[1] = ix
    OBVIOUS
  <2> QED BY <2>1, <1>1 DEF CkIndexedAt
<1>6. ASSUME ~ckRaced' PROVE CkTiedAt(ckGit', ckDisk', ckLive', ckWork')
  <2>1. ckDisk' = <<ix>> /\ ckDisk' # <<>> /\ ckDisk'[1] = ix
    BY <1>6
  <2>2. CkAgreed(ckDisk', ckLive', ckWork')
    BY <1>6, <2>1 DEF CkAgreed
  <2> QED BY <1>6, <2>1, <2>2 DEF CkTiedAt
<1> QED BY <1>4, <1>5, <1>6 DEF CkInvariant

-----------------------------------------------------------------------------
(* The stages of a mutation. *)

\* The order of the steps, by the kind of the mutation.
LEMMA CkOrder ==
  ASSUME NEW p, NEW redo \in BOOLEAN
  PROVE  /\ p.kind = "create" => /\ StageAfter(p, redo, "point") = "branch"
                                 /\ StageAfter(p, redo, "branch") = "settle"
         /\ p.kind = "rollback" => /\ StageAfter(p, redo, "branch") = "switch"
                                   /\ StageAfter(p, redo, "switch") = "restore"
                                   /\ StageAfter(p, redo, "restore") = "settle"
         /\ p.kind = "merge" => /\ StageAfter(p, redo, "switch") = "restore"
                                /\ StageAfter(p, redo, "restore") = "settle"
         /\ p.kind = "merge" /\ ~redo => /\ StageAfter(p, redo, "point") = "branch"
                                         /\ StageAfter(p, redo, "branch") = "switch"
         /\ p.kind = "merge" /\ redo => /\ StageAfter(p, redo, "branch") = "point"
                                        /\ StageAfter(p, redo, "point") = "switch"
<1>1. CASE p.kind = "create"
  BY <1>1 DEF StageAfter
<1>2. CASE p.kind = "rollback"
  BY <1>2 DEF StageAfter
<1>3. CASE p.kind = "merge" /\ redo
  BY <1>3 DEF StageAfter
<1>4. CASE p.kind = "merge" /\ ~redo
  BY <1>4 DEF StageAfter
<1>5. CASE p.kind \notin {"create", "rollback", "merge"}
  BY <1>5
<1> QED BY <1>1, <1>2, <1>3, <1>4, <1>5

\* What a step makes of the index and of the workspace.
CkAdvancing(w, p, new, tree, tree2) ==
    /\ w.stage \in {"point", "branch", "switch", "restore"}
    /\ p = w.ix.pending[1] /\ p.kind \in {"create", "rollback", "merge"}
    /\ new \in CkIndices /\ new.pending = w.ix.pending
    /\ \A b \in w.todo : b \in DOMAIN new.branches /\ new.branches[b].status = "archived"
    /\ w.stage = "switch" /\ p.kind = "merge" => p.target \in RecordedCommits(new)
    /\ w.stage = "switch" /\ p.kind = "rollback" => new.active = p.new
    /\ w.stage # "switch" => new = w.ix
    /\ w.stage # "restore" => tree2 = tree

\* A step of a mutation leads to the next stage, its intent still durable.
CkAdvanced(w, p, new) == [w EXCEPT !.ix = new, !.stage = StageAfter(p, w.redo, w.stage)]
LEMMA CkAdvances ==
  ASSUME NEW w \in CkWorks, NEW tree, NEW tree2, NEW objs, CkStageOk(w, tree, objs),
         NEW p, NEW new, CkAdvancing(w, p, new, tree, tree2),
         NEW n, n = CkAdvanced(w, p, new)
  PROVE  /\ n \in CkWorks /\ CkStageOk(n, tree2, objs) /\ n.ix = new /\ n.who = w.who
         /\ n.tool = w.tool /\ n.redo = w.redo /\ n.stage = StageAfter(p, w.redo, w.stage)
<1>00. /\ w.stage \in {"point", "branch", "switch", "restore"}
       /\ p = w.ix.pending[1] /\ p.kind \in {"create", "rollback", "merge"}
       /\ new \in CkIndices /\ new.pending = w.ix.pending
       /\ \A b \in w.todo : b \in DOMAIN new.branches /\ new.branches[b].status = "archived"
       /\ w.stage = "switch" /\ p.kind = "merge" => p.target \in RecordedCommits(new)
       /\ w.stage = "switch" /\ p.kind = "rollback" => new.active = p.new
       /\ w.stage # "switch" => new = w.ix
       /\ w.stage # "restore" => tree2 = tree
  BY DEF CkAdvancing
<1>0. /\ w.redo \in BOOLEAN /\ w.todo \in SUBSET BranchIds
      /\ w.tool \in {"start", "change", "rollback", "dream"}
  BY CkWorkFields
<1>1. /\ w.ix.pending # <<>>
      /\ w.who = "dream" <=> w.tool = "dream"
      /\ w.tool \in {"change", "rollback"} => ~w.redo
      /\ w.todo # {} => w.tool = "dream"
      /\ w.todo # {} => p.kind = "merge" /\ p.archived \notin w.todo
      /\ ~w.redo /\ w.tool = "dream" => p.kind = "merge"
      /\ ~w.redo /\ w.tool \in {"start", "change"} => p.kind = "create"
      /\ ~w.redo /\ w.tool = "rollback" => p.kind = "rollback"
      /\ p.kind = "create" => w.stage \in {"point", "branch", "settle"}
      /\ p.kind = "rollback" => w.stage # "point"
      /\ p.kind = "merge" /\ w.stage = "restore" => p.target \in RecordedCommits(w.ix)
      /\ p.kind = "rollback" /\ w.stage = "restore" => w.ix.active = p.new
      /\ p.kind = "merge" /\ ~w.redo => tree = objs[p.old].tree
  BY <1>00 DEF CkStageOk
<1>2. PICK s : s = StageAfter(p, w.redo, w.stage)
  OBVIOUS
<1>3. /\ s \in {"point", "branch", "switch", "restore", "settle"}
      /\ p.kind = "create" => s \in {"branch", "settle"}
      /\ p.kind = "rollback" => s \in {"switch", "restore", "settle"}
      /\ w.stage = "restore" <=> s = "settle" /\ p.kind # "create"
      /\ w.stage = "switch" <=> s = "restore"
  <2>1. CASE p.kind = "create"
    BY <2>1, <1>00, <1>0, <1>1, <1>2, CkOrder
  <2>2. CASE p.kind = "rollback"
    BY <2>2, <1>00, <1>0, <1>1, <1>2, CkOrder
  <2>3. CASE p.kind = "merge"
    BY <2>3, <1>00, <1>0, <1>1, <1>2, CkOrder
  <2> QED BY <1>00, <2>1, <2>2, <2>3
<1>4. s \in CkStages
  BY <1>3 DEF CkStages
<1>5. /\ n \in CkWorks /\ n.who = w.who /\ n.tool = w.tool /\ n.ix = new
      /\ n.stage = s /\ n.redo = w.redo /\ n.todo = w.todo
  BY <1>00, <1>2, <1>4 DEF CkWorks, CkAdvanced
<1>6. n.ix.pending[1] = p /\ n.ix.pending # <<>>
  BY <1>00, <1>1, <1>5
<1>7. s \notin {"validate", "evict", "collect", "prune", "assess", "create"}
  BY <1>3
<1>8. /\ s \in {"restore", "settle"} /\ p.kind = "merge" => p.target \in RecordedCommits(new)
      /\ s \in {"restore", "settle"} /\ p.kind = "rollback" => new.active = p.new
  BY <1>00, <1>1, <1>3
<1>9. p.kind = "merge" /\ ~w.redo /\ s # "settle" => tree2 = objs[p.old].tree
  BY <1>00, <1>1, <1>3
<1>10. CkStageOk(n, tree2, objs)
  <2>1. /\ n.who = "dream" <=> n.tool = "dream"
        /\ n.stage \notin {"validate", "evict", "collect", "prune", "assess", "create"}
        /\ n.tool \in {"change", "rollback"} => ~n.redo
        /\ n.todo # {} => n.tool = "dream"
    BY <1>1, <1>5, <1>7
  <2>2. \A b \in n.todo : b \in DOMAIN n.ix.branches /\ n.ix.branches[b].status = "archived"
    BY <1>00, <1>5
  <2>3. /\ n.todo # {} => p.kind = "merge" /\ p.archived \notin n.todo
        /\ ~n.redo /\ n.tool = "dream" => p.kind = "merge"
        /\ ~n.redo /\ n.tool \in {"start", "change"} => p.kind = "create"
        /\ ~n.redo /\ n.tool = "rollback" => p.kind = "rollback"
    BY <1>1, <1>5
  <2>4. /\ p.kind = "create" => n.stage \in {"point", "branch", "settle"}
        /\ p.kind = "rollback" => n.stage # "point"
    BY <1>3, <1>5
  <2>5. /\ n.stage \in {"restore", "settle"} /\ p.kind = "merge" =>
                p.target \in RecordedCommits(n.ix)
        /\ n.stage \in {"restore", "settle"} /\ p.kind = "rollback" => n.ix.active = p.new
        /\ p.kind = "merge" /\ ~n.redo /\ n.stage # "settle" => tree2 = objs[p.old].tree
    BY <1>5, <1>8, <1>9
  <2>6. n.redo \/ n.stage = "validate" => n.todo = {}
    BY <1>00, <1>5, <2>1 DEF CkStageOk
  <2> QED BY <1>6, <2>1, <2>2, <2>3, <2>4, <2>5, <2>6 DEF CkStageOk
<1> QED BY <1>2, <1>5, <1>10

-----------------------------------------------------------------------------
(* A step that fails. *)

\* An unchanged history keeps every index sound.
LEMMA CkHistorySame == ckGit'.objs = ckGit.objs => CkHistoryKept
  BY DEF CkHistoryKept

\* The head of an index is a commit object.
LEMMA CkHeadExists ==
  ASSUME NEW ix, NEW objs \in Seq(CkObjects), CkCore(ix, objs), ActiveHead(ix) # 0
  PROVE  ActiveHead(ix) \in RecordedCommits(ix) /\ ActiveHead(ix) \in DOMAIN objs
<1>1. ix \in CkIndices /\ CkCommitsOk(ix, Len(objs)) /\ CkBranchesOk(ix)
  BY DEF CkCore
<1>2. ActiveHead(ix) \in RecordedCommits(ix)
  BY <1>1 DEF CkBranchesOk, ActiveHead
<1>3. PICK r \in ix.recs : r.commit = ActiveHead(ix)
  BY <1>2 DEF RecordedCommits
<1>4. r.commit \in Commits /\ r.commit <= Len(objs)
  BY <1>1, CkFields DEF CkCommitsOk, CkRecords
<1> QED BY <1>2, <1>3, <1>4 DEF Commits
LEMMA CkRecordedExists ==
  ASSUME NEW ix, NEW objs \in Seq(CkObjects), CkCore(ix, objs)
  PROVE  RecordedCommits(ix) \subseteq DOMAIN objs
<1>1. ix \in CkIndices /\ CkCommitsOk(ix, Len(objs))
  BY DEF CkCore
<1>2. ASSUME NEW r \in ix.recs PROVE r.commit \in DOMAIN objs
  <2>1. r.commit \in Commits /\ r.commit <= Len(objs)
    BY <1>1, CkFields DEF CkCommitsOk, CkRecords
  <2> QED BY <2>1 DEF Commits
<1> QED BY <1>2 DEF RecordedCommits

\* However an operation fails, the index it leaves is the one it had, the merge of
\* the Dream marked unknown (tool's finally clauses, process_due's except).
LEMMA CkRaises ==
  ASSUME CkInvariant, Busy, Raises, CkBounded'
  PROVE  CkInvariant'
<1>0. /\ ckWork = <<W>> /\ W \in CkWorks /\ W.ix \in CkIndices
      /\ ckTree \in CkTrees /\ ckGit \in CkGits /\ ckGit.objs \in Seq(CkObjects)
      /\ CkIndex(W.ix, ckGit.objs) /\ CkStageOk(W, ckTree, ckGit.objs)
      /\ ~ckRaced => /\ ckDisk = <<W.ix>> /\ CkRefs(W.ix, ckGit)
                     /\ W.who = "dream" => ckLive \in {<<>>, ckDisk}
                     /\ W.tool = "start" => ckLive = <<>>
  BY CkAtWork
<1>1. /\ ckGit' = ckGit /\ ckRaced \in BOOLEAN
      /\ W.tool \in {"start", "change", "rollback", "dream"}
      /\ W.who \in {"trace", "dream"} /\ W.redo \in BOOLEAN
      /\ W.who = "dream" <=> W.tool = "dream"
  BY <1>0, CkWorkFields DEF Raises, CkInvariant, CkTypedAt, CkStageOk
<1>2. CkCore(W.ix, ckGit.objs)
  BY <1>0 DEF CkIndex
<1>3. CASE W.tool = "change"
  <2>1. RestoreCurrent(W.ix) /\ Leaves(W.ix)
    BY <1>3 DEF Raises
  <2>2. ckTree' \in CkTrees
    <3>1. ActiveHead(W.ix) # 0 => TreeOf(ActiveHead(W.ix)) \in CkTrees
      <4>1. ASSUME ActiveHead(W.ix) # 0
            PROVE  ckGit.objs[ActiveHead(W.ix)] \in CkObjects
        BY <1>0, <1>2, <4>1, CkHeadExists
      <4> QED BY <4>1 DEF TreeOf, CkObjects
    <3> QED BY <2>1, <3>1, <1>0 DEF RestoreCurrent
  <2>3. /\ ckWork' = <<>> /\ ckLive' = <<W.ix>> /\ ckRaced' = ckRaced
        /\ ckDisk' \in {ckDisk, <<W.ix>>}
    BY <2>1, <1>1, <1>3 DEF RestoreCurrent, Leaves
  <2> QED BY <2>2, <2>3, <1>0, <1>1, CkEnds
<1>4. CASE W.tool = "start"
  <2>1. /\ ckWork' = <<>> /\ ckTree' = ckTree /\ ckDisk' = ckDisk /\ ckLive' = ckLive
        /\ ckRaced' = ckRaced
    BY <1>4 DEF Raises
  <2> QED BY <2>1, <1>0, <1>1, <1>4, CkEnds
<1>5. CASE W.tool = "rollback"
  <2>1. /\ Leaves(W.ix) /\ ckTree' = ckTree /\ ckDisk' = ckDisk /\ ckRaced' = ckRaced
    BY <1>5 DEF Raises
  <2>2. ckWork' = <<>> /\ ckLive' = <<W.ix>>
    BY <2>1, <1>1, <1>5 DEF Leaves
  <2> QED BY <2>1, <2>2, <1>0, <1>1, CkEnds
<1>6. CASE W.tool = "dream"
  <2>1. CASE ~W.redo /\ W.ix.pending # <<>> /\ W.ix.branches[P.archived].status = "archived"
    <3>1. PICK new : new = [W.ix EXCEPT !.branches[P.archived].merge = "unknown"]
      OBVIOUS
    <3>2. /\ ckWork' = <<>> /\ ckTree' = ckTree /\ ckLive' = ckLive /\ ckDisk' = <<new>>
          /\ ckRaced' = (ckRaced \/ ckLive # <<>>)
      BY <2>1, <3>1, <1>1, <1>6 DEF Raises, WriteState
    <3>3. P \in CkIntents /\ P = W.ix.pending[1]
      BY <1>0, <2>1, CkPendingIs DEF P
    <3>4. CkIntentOk(W.ix, P, ckGit.objs)
      BY <1>0, <2>1, <3>3 DEF CkIndex
    <3>5. P.kind = "merge"
      BY <1>0, <1>6, <2>1, <3>3 DEF CkStageOk, CkWorks, CkStages
    <3>6. P.archived \in DOMAIN W.ix.branches
      BY <3>4, <3>5 DEF CkIntentOk
    <3>7. PICK br : br = [W.ix.branches[P.archived] EXCEPT !.merge = "unknown"]
      OBVIOUS
    <3>8. W.ix.branches[P.archived] \in CkBranchRecords
      BY <1>0, <3>6, CkFields
    <3>9. /\ br \in CkBranchRecords /\ br.head = W.ix.branches[P.archived].head
          /\ br.gone = W.ix.branches[P.archived].gone /\ br.status = "archived"
      BY <3>7, <3>8, <2>1 DEF CkBranchRecords
    <3>10. P.archived # W.ix.active
      BY <1>2, <2>1 DEF CkCore, CkBranchesOk
    <3>11. new = SetBranch(W.ix, P.archived, br)
      BY <3>1, <3>7 DEF SetBranch
    <3>12. CkIndex(new, ckGit.objs) /\ (CkRefs(W.ix, ckGit) => CkRefs(new, ckGit))
      BY <1>0, <2>1, <3>6, <3>9, <3>10, <3>11, CkMarksIndex
    <3> QED BY <3>2, <3>12, <1>0, <1>1, <1>6, CkEnds
  <2>2. CASE ~(~W.redo /\ W.ix.pending # <<>> /\ W.ix.branches[P.archived].status = "archived")
    <3>1. /\ ckWork' = <<>> /\ ckTree' = ckTree /\ ckDisk' = ckDisk /\ ckLive' = ckLive
          /\ ckRaced' = ckRaced
      BY <1>6, <2>2 DEF Raises
    <3> QED BY <3>1, <1>0, <1>1, <1>6, CkEnds
  <2> QED BY <2>1, <2>2
<1> QED BY <1>1, <1>3, <1>4, <1>5, <1>6

-----------------------------------------------------------------------------
(* An operation begins, or the world moves between operations. *)

\* The indexes while nobody is at work.
LEMMA CkIdle ==
  ASSUME CkInvariant, ~Busy
  PROVE  /\ ckWork = <<>> /\ ckTree \in CkTrees /\ ckGit \in CkGits
         /\ ckGit.objs \in Seq(CkObjects) /\ ckRaced \in BOOLEAN
         /\ Len(ckGit.objs) <= MaxCommits /\ Len(ckGit.objs) \in Nat
         /\ ckGit.pruned \subseteq 1 .. Len(ckGit.objs)
         /\ ckLive # <<>> => ckLive = <<ckLive[1]>> /\ CkIndex(ckLive[1], ckGit.objs)
         /\ ckDisk # <<>> => ckDisk = <<ckDisk[1]>> /\ CkIndex(ckDisk[1], ckGit.objs)
         /\ ~ckRaced => ckLive \in {<<>>, ckDisk} /\ CkRefs(OpenedIndex, ckGit)
<1>1. /\ CkTypedAt(ckTree, ckGit, ckDisk, ckLive, ckWork, ckRaced)
      /\ CkIndexedAt(ckTree, ckGit.objs, ckDisk, ckLive, ckWork)
      /\ ~ckRaced => CkTiedAt(ckGit, ckDisk, ckLive, ckWork)
      /\ ckWork = <<>>
  BY DEF CkInvariant, Busy
<1>2. /\ ckTree \in CkTrees /\ ckGit \in CkGits /\ Len(ckGit.objs) <= MaxCommits
      /\ ckGit.pruned \subseteq 1 .. Len(ckGit.objs) /\ ckRaced \in BOOLEAN
      /\ ckDisk \in CkOptional(CkIndices) /\ ckLive \in CkOptional(CkIndices)
  BY <1>1 DEF CkTypedAt
<1>3. ckGit.objs \in Seq(CkObjects) /\ Len(ckGit.objs) \in Nat
  BY <1>2 DEF CkGits
<1>4. /\ ckLive # <<>> => ckLive = <<ckLive[1]>>
      /\ ckDisk # <<>> => ckDisk = <<ckDisk[1]>>
  BY <1>2 DEF CkOptional
<1>5. ~ckRaced => ckLive \in {<<>>, ckDisk} /\ CkRefs(OpenedIndex, ckGit)
  BY <1>1 DEF CkTiedAt, CkAgreed, OpenedIndex
<1> QED BY <1>1, <1>2, <1>3, <1>4, <1>5 DEF CkIndexedAt

\* A fresh index is sound in any repository.
LEMMA CkFreshIndex ==
  ASSUME NEW objs \in Seq(CkObjects)
  PROVE  CkIndex(FreshIndex, objs) /\ FreshIndex.pending = <<>>
<1>1. PICK nb : nb = NewBranch(0, 0)
  OBVIOUS
<1>2. nb \in CkBranchRecords /\ nb.head = 0 /\ nb.status = "active" /\ ~nb.gone
  <2>1. 0 \in 0 .. MaxCommits
    BY CkAssumption
  <2> QED BY <2>1, <1>1 DEF NewBranch, CkBranchRecords
<1>3. PICK ix : ix = FreshIndex
  OBVIOUS
<1>4. ix = [recs |-> {}, points |-> {}, branches |-> <<nb>>,
            active |-> 1, next |-> 1, pending |-> <<>>]
  BY <1>1, <1>3 DEF FreshIndex
<1>5. /\ ix.recs = {} /\ ix.branches = <<nb>> /\ ix.active = 1 /\ ix.next = 1
      /\ ix.pending = <<>> /\ Len(ix.branches) = 1 /\ DOMAIN ix.branches = {1}
      /\ ix.branches[1] = nb
  BY <1>4
<1>6. 1 \in BranchIds /\ 1 \in 1 .. MaxCommits + 1 /\ 1 <= MaxBranches
  BY CkAssumption DEF BranchIds
<1>7. ix \in CkIndices
  BY <1>2, <1>4, <1>6 DEF CkIndices, CkOptional
<1>8. RecordedCommits(ix) = {}
  BY <1>5 DEF RecordedCommits
<1>9. CkCommitsOk(ix, Len(objs))
  BY <1>5 DEF CkCommitsOk
<1>10. CkBranchesOk(ix)
  BY <1>2, <1>5, <1>6 DEF CkBranchesOk
<1>11. CkKept(ix, objs)
  BY <1>8 DEF CkKept
<1> QED BY <1>3, <1>5, <1>7, <1>9, <1>10, <1>11 DEF CkIndex, CkCore

\* An operation begins over the index on disk, or the one in memory.
LEMMA CkBegins ==
  ASSUME CkInvariant, ~Busy, NEW w \in CkWorks, ckWork' = <<w>>,
         UNCHANGED <<ckGit, ckLive, ckFaults, ckOutside, ckRaced>>,
         ckTree' \in CkTrees, ckDisk' \in {ckDisk, <<w.ix>>},
         CkIndex(w.ix, ckGit.objs), CkStageOk(w, ckTree', ckGit.objs),
         ~ckRaced => /\ ckDisk' = <<w.ix>> /\ CkRefs(w.ix, ckGit)
                     /\ w.who = "dream" => ckLive \in {<<>>, ckDisk'}
                     /\ w.tool = "start" => ckLive = <<>>
                     /\ w.ix.pending # <<>> => CkStageRefs(w, ckGit)
  PROVE  CkInvariant'
<1>1. /\ CkBounded /\ CkTypedAt(ckTree, ckGit, ckDisk, ckLive, ckWork, ckRaced)
      /\ CkIndexedAt(ckTree, ckGit.objs, ckDisk, ckLive, ckWork)
  BY DEF CkInvariant
<1>2. w.ix \in CkIndices /\ ckWork'[1] = w /\ ckWork' # <<>>
  BY CkWorkFields
<1>3. CkBounded'
  BY <1>1 DEF CkBounded
<1>4. CkTypedAt(ckTree', ckGit', ckDisk', ckLive', ckWork', ckRaced')
  <2>1. ckDisk' \in CkOptional(CkIndices) /\ ckWork' \in CkOptional(CkWorks)
    BY <1>1, <1>2 DEF CkOptional, CkTypedAt
  <2> QED BY <1>1, <2>1 DEF CkTypedAt
<1>5. CkIndexedAt(ckTree', ckGit'.objs, ckDisk', ckLive', ckWork')
  <2>1. <<w.ix>>[1] = w.ix
    OBVIOUS
  <2> QED BY <2>1, <1>1, <1>2 DEF CkIndexedAt
<1>6. ASSUME ~ckRaced' PROVE CkTiedAt(ckGit', ckDisk', ckLive', ckWork')
  <2>0. /\ ckGit' = ckGit /\ ckLive' = ckLive
        /\ ckDisk' = <<w.ix>> /\ CkRefs(w.ix, ckGit)
        /\ w.who = "dream" => ckLive \in {<<>>, ckDisk'}
        /\ w.tool = "start" => ckLive = <<>>
        /\ w.ix.pending # <<>> => CkStageRefs(w, ckGit)
    BY <1>6
  <2>1. ckDisk' # <<>> /\ ckDisk'[1] = w.ix
    BY <2>0
  <2>2. CkAgreed(ckDisk', ckLive', ckWork')
    BY <1>2, <2>0, <2>1 DEF CkAgreed
  <2> QED BY <1>2, <2>0, <2>1, <2>2 DEF CkTiedAt
<1> QED BY <1>3, <1>4, <1>5, <1>6 DEF CkInvariant

\* Opening a store starts over its intent, if there is one.
LEMMA CkOpens ==
  ASSUME CkInvariant, NEW who \in {"trace", "dream"}, NEW tool \in {"start", "dream"},
         who = "dream" <=> tool = "dream", Opening(who, tool),
         who = "trace" => ckLive = <<>>, who = "dream" => ckDisk # <<>>
  PROVE  CkInvariant'
<1>0. ~Busy /\ UNCHANGED <<ckTree, ckGit, ckLive, ckFaults, ckOutside, ckRaced>>
  BY DEF Opening
<1>1. /\ ckTree \in CkTrees /\ ckGit.objs \in Seq(CkObjects)
      /\ ckDisk # <<>> => ckDisk = <<ckDisk[1]>> /\ CkIndex(ckDisk[1], ckGit.objs)
      /\ ~ckRaced => ckLive \in {<<>>, ckDisk} /\ CkRefs(OpenedIndex, ckGit)
  BY <1>0, CkIdle
<1>2. PICK ix : ix = OpenedIndex
  OBVIOUS
<1>3. CkIndex(ix, ckGit.objs) /\ ix \in CkIndices
  BY <1>1, <1>2, CkFreshIndex DEF OpenedIndex, CkIndex, CkCore
<1>4. PICK s : s = IF ix.pending = <<>> THEN "validate" ELSE FirstStage(ix.pending[1], TRUE)
  OBVIOUS
<1>5. /\ ix.pending = <<>> => s = "validate"
      /\ ix.pending # <<>> => s = IF ix.pending[1].kind = "create" THEN "point" ELSE "branch"
  BY <1>4 DEF FirstStage
<1>6. s \in CkStages
  BY <1>5 DEF CkStages
<1>7. PICK red \in BOOLEAN : red = (ix.pending # <<>>)
  OBVIOUS
<1>8. PICK w0 : w0 = [who |-> who, tool |-> tool, ix |-> ix, stage |-> s,
                      redo |-> FALSE, todo |-> {}]
  OBVIOUS
<1>81. /\ w0 \in CkWorks /\ w0.who = who /\ w0.tool = tool /\ w0.ix = ix /\ w0.stage = s
       /\ w0.todo = {} /\ w0 = Work(who, tool, ix, s)
  BY <1>3, <1>6, <1>8 DEF CkWorks, Work
<1>82. PICK w : w = [w0 EXCEPT !.redo = red]
  OBVIOUS
<1>9. /\ w \in CkWorks /\ w.who = who /\ w.tool = tool /\ w.ix = ix /\ w.stage = s
      /\ w.redo = red /\ w.todo = {}
  BY <1>7, <1>81, <1>82 DEF CkWorks
<1>10. ckWork' = <<w>> /\ ckDisk' = <<ix>>
  <2>1. /\ ckDisk' = <<ix>>
        /\ ckWork' = <<[Work(who, tool, ix, s) EXCEPT !.redo = ix.pending # <<>>]>>
    BY <1>2, <1>4 DEF Opening
  <2>2. [w0 EXCEPT !.redo = ix.pending # <<>>] = w
    BY <1>7, <1>82
  <2> QED BY <2>1, <2>2, <1>81
<1>11. ix.pending # <<>> => ix.pending[1].kind \in {"create", "rollback", "merge"}
  BY <1>3, CkPendingIs DEF CkIntents
<1>12. CkStageOk(w, ckTree, ckGit.objs)
  <2>1. CASE ix.pending = <<>>
    BY <2>1, <1>5, <1>7, <1>9 DEF CkStageOk
  <2>2. CASE ix.pending # <<>>
    BY <2>2, <1>5, <1>7, <1>9, <1>11 DEF CkStageOk
  <2> QED BY <2>1, <2>2
<1>13. ASSUME ix.pending # <<>> PROVE CkStageRefs(w, ckGit)
  BY <1>5, <1>7, <1>9, <1>11, <1>13 DEF CkStageRefs
<1>14. ASSUME ~ckRaced
       PROVE  /\ CkRefs(w.ix, ckGit)
              /\ w.who = "dream" => ckLive \in {<<>>, ckDisk'}
              /\ w.tool = "start" => ckLive = <<>>
  <2>1. CkRefs(w.ix, ckGit)
    BY <1>1, <1>2, <1>9, <1>14
  <2>2. w.who = "dream" => ckDisk' = ckDisk
    BY <1>1, <1>2, <1>9, <1>10 DEF OpenedIndex
  <2> QED BY <2>1, <2>2, <1>1, <1>9, <1>14
<1> QED BY <1>0, <1>1, <1>3, <1>9, <1>10, <1>12, <1>13, <1>14, CkBegins

\* A Trace or the Dream opens the store and takes up an intent left in it.
LEMMA CkTraceStart == CkInvariant /\ TraceStart => CkInvariant'
  BY CkOpens DEF TraceStart
LEMMA CkDreamStart == CkInvariant /\ DreamStart => CkInvariant'
  BY CkOpens DEF DreamStart

\* The Trace ends: only the index in memory goes.
LEMMA CkTraceEnd == CkInvariant /\ TraceEnd => CkInvariant'
<1> SUFFICES ASSUME CkInvariant, TraceEnd PROVE CkInvariant'
  OBVIOUS
<1>0. /\ ~Busy /\ ckLive # <<>> /\ ckLive' = <<>>
      /\ UNCHANGED <<ckTree, ckGit, ckDisk, ckWork, ckFaults, ckOutside, ckRaced>>
  BY DEF TraceEnd
<1>1. /\ ckWork = <<>> /\ ckTree \in CkTrees /\ ckGit \in CkGits /\ ckRaced \in BOOLEAN
      /\ ckLive = <<ckLive[1]>> /\ CkIndex(ckLive[1], ckGit.objs)
      /\ ~ckRaced => ckLive \in {<<>>, ckDisk} /\ CkRefs(OpenedIndex, ckGit)
  BY <1>0, CkIdle
<1>2. CkBounded'
  BY <1>0 DEF CkInvariant, CkBounded
<1>3. ~ckRaced => ckDisk = <<ckLive[1]>> /\ CkRefs(ckLive[1], ckGit)
  <2>1. ASSUME ~ckRaced PROVE ckDisk = ckLive /\ ckDisk[1] = ckLive[1] /\ ckDisk # <<>>
    BY <1>0, <1>1, <2>1
  <2> QED BY <1>1, <2>1 DEF OpenedIndex
<1> QED BY <1>0, <1>1, <1>2, <1>3, CkEnds

\* Somebody outside writes to the workspace: only the tree moves.
LEMMA CkOutsideChange ==
  ASSUME CkInvariant, NEW t \in CkTrees, OutsideChange(t) PROVE CkInvariant'
<1>0. /\ ~Busy /\ ckOutside < MaxOutside /\ ckTree' = t /\ ckOutside' = ckOutside + 1
      /\ UNCHANGED <<ckGit, ckDisk, ckLive, ckWork, ckFaults, ckRaced>>
  BY DEF OutsideChange
<1>1. ckWork = <<>>
  BY <1>0 DEF Busy
<1>2. CkBounded'
  BY <1>0, CkAssumption DEF CkInvariant, CkBounded
<1>3. CkTypedAt(ckTree', ckGit', ckDisk', ckLive', ckWork', ckRaced')
  BY <1>0 DEF CkInvariant, CkTypedAt
<1>4. CkIndexedAt(ckTree', ckGit'.objs, ckDisk', ckLive', ckWork')
  BY <1>0, <1>1 DEF CkInvariant, CkIndexedAt
<1> QED BY <1>0, <1>2, <1>3, <1>4 DEF CkInvariant

\* A death leaves the index that is on disk; the next open is to find it.
LEMMA CkDie == CkInvariant /\ CkDies => CkInvariant'
<1> SUFFICES ASSUME CkInvariant, CkDies PROVE CkInvariant'
  OBVIOUS
<1>0. /\ Busy /\ ckFaults < MaxCkFaults /\ ckFaults' = ckFaults + 1
      /\ ckWork' = <<>> /\ ckLive' = <<>>
      /\ UNCHANGED <<ckTree, ckGit, ckDisk, ckOutside, ckRaced>>
  BY DEF CkDies
<1>1. /\ ckTree \in CkTrees /\ ckGit \in CkGits /\ CkIndex(W.ix, ckGit.objs)
      /\ ~ckRaced => ckDisk = <<W.ix>> /\ CkRefs(W.ix, ckGit)
  BY <1>0, CkAtWork
<1>2. CkBounded' /\ ckRaced \in BOOLEAN
  BY <1>0, CkAssumption DEF CkInvariant, CkBounded, CkTypedAt
<1> QED BY <1>0, <1>1, <1>2, CkEnds

\* A git step fails: what was written stays, and the operation raises.
LEMMA CkGitFails == CkInvariant /\ GitFails => CkInvariant'
<1> SUFFICES ASSUME CkInvariant, GitFails PROVE CkInvariant'
  OBVIOUS
<1>0. /\ Busy /\ ckFaults < MaxCkFaults /\ ckFaults' = ckFaults + 1
      /\ Raises /\ UNCHANGED ckOutside
  BY DEF GitFails
<1>2. CkBounded'
  BY <1>0, CkAssumption DEF CkInvariant, CkBounded
<1> QED BY <1>0, <1>2, CkRaises

\* The Dream's pass ends.
LEMMA CkDreamEnd == CkInvariant /\ DreamEnds => CkInvariant'
<1> SUFFICES ASSUME CkInvariant, DreamEnds PROVE CkInvariant'
  OBVIOUS
<1>0. /\ Busy /\ W.stage = "assess" /\ ckWork' = <<>>
      /\ UNCHANGED <<ckTree, ckGit, ckDisk, ckLive, ckFaults, ckOutside, ckRaced>>
  BY DEF DreamEnds
<1>1. /\ ckTree \in CkTrees /\ ckGit \in CkGits /\ CkIndex(W.ix, ckGit.objs)
      /\ CkStageOk(W, ckTree, ckGit.objs)
      /\ ~ckRaced => /\ ckDisk = <<W.ix>> /\ CkRefs(W.ix, ckGit)
                     /\ W.who = "dream" => ckLive \in {<<>>, ckDisk}
  BY <1>0, CkAtWork
<1>2. CkBounded' /\ ckRaced \in BOOLEAN
  BY <1>0 DEF CkInvariant, CkBounded, CkTypedAt
<1>3. W.who = "dream"
  BY <1>0, <1>1 DEF CkStageOk
<1> QED BY <1>0, <1>1, <1>2, <1>3, CkEnds

\* A command of the Agent changes files and a create begins.
LEMMA CkChangeFiles ==
  ASSUME CkInvariant, NEW t \in CkTrees, ChangeFiles(t) PROVE CkInvariant'
<1>0. /\ ~Busy /\ ckLive # <<>> /\ ckTree' = t
      /\ ckWork' = <<Work("trace", "change", ckLive[1], "create")>>
      /\ UNCHANGED <<ckGit, ckDisk, ckLive, ckFaults, ckOutside, ckRaced>>
  BY DEF ChangeFiles
<1>1. /\ ckLive = <<ckLive[1]>> /\ CkIndex(ckLive[1], ckGit.objs)
      /\ ~ckRaced => ckLive \in {<<>>, ckDisk} /\ CkRefs(OpenedIndex, ckGit)
  BY <1>0, CkIdle
<1>2. PICK ix : ix = ckLive[1]
  OBVIOUS
<1>3. ix \in CkIndices /\ CkIndex(ix, ckGit.objs)
  BY <1>1, <1>2 DEF CkIndex, CkCore
<1>4. PICK w : w = [who |-> "trace", tool |-> "change", ix |-> ix, stage |-> "create",
                    redo |-> FALSE, todo |-> {}]
  OBVIOUS
<1>5. /\ w \in CkWorks /\ w.who = "trace" /\ w.tool = "change" /\ w.ix = ix
      /\ w.stage = "create" /\ w.redo = FALSE /\ w.todo = {}
  BY <1>3, <1>4 DEF CkWorks, CkStages
<1>6. ckWork' = <<w>>
  BY <1>0, <1>2, <1>4 DEF Work
<1>7. CkStageOk(w, ckTree', ckGit.objs)
  BY <1>5 DEF CkStageOk
<1>8. CkStageRefs(w, ckGit)
  BY <1>5 DEF CkStageRefs
<1>9. ~ckRaced => ckDisk = <<ix>> /\ CkRefs(ix, ckGit)
  <2>1. ASSUME ~ckRaced PROVE ckDisk = ckLive /\ ckDisk[1] = ix /\ ckDisk # <<>>
    BY <1>0, <1>1, <1>2, <2>1
  <2> QED BY <1>1, <1>2, <2>1 DEF OpenedIndex
<1>10. ckDisk' = ckDisk /\ ckTree' \in CkTrees
  BY <1>0
<1> QED BY <1>0, <1>3, <1>5, <1>6, <1>7, <1>8, <1>9, <1>10, CkBegins

\* A rollback goes to a recorded commit from one.
LEMMA CkRollback ==
  ASSUME CkInvariant, NEW c \in Commits, NEW e \in BOOLEAN, Rollback(c, e) PROVE CkInvariant'
<1> DEFINE ix == ckLive[1]
           p  == Intent("rollback", ix, c, 0, Len(ix.branches) + 1, ix.active, e)
<1>0. /\ ~Busy /\ ckLive # <<>> /\ ix.pending = <<>>
      /\ c \in (Visible(ix) \cup Lineage(ix)) \ {ActiveHead(ix)}
      /\ Len(ix.branches) + 1 \in BranchIds
      /\ ckDisk' = <<[ix EXCEPT !.pending = <<p>>]>>
      /\ ckWork' = <<Work("trace", "rollback", [ix EXCEPT !.pending = <<p>>], "branch")>>
      /\ UNCHANGED <<ckTree, ckGit, ckLive, ckFaults, ckOutside, ckRaced>>
  BY DEF Rollback
<1>1. /\ ckLive = <<ix>> /\ CkIndex(ix, ckGit.objs) /\ ckTree \in CkTrees
      /\ ckGit.objs \in Seq(CkObjects)
      /\ ~ckRaced => ckLive \in {<<>>, ckDisk} /\ CkRefs(OpenedIndex, ckGit)
  BY <1>0, CkIdle
<1>2. ix \in CkIndices /\ CkCore(ix, ckGit.objs)
  BY <1>1 DEF CkIndex, CkCore
<1>3. ~ckRaced => CkRefs(ix, ckGit)
  <2>1. ASSUME ~ckRaced PROVE ckDisk[1] = ix /\ ckDisk # <<>>
    BY <1>0, <1>1, <2>1
  <2> QED BY <1>1, <2>1 DEF OpenedIndex
<1>4. c \in RecordedCommits(ix)
  <2>1. Visible(ix) \subseteq RecordedCommits(ix)
    BY DEF Visible, RecordedCommits
  <2>2. Lineage(ix) \subseteq RecordedCommits(ix)
    BY ReachFacts DEF Lineage
  <2> QED BY <1>0, <2>1, <2>2
<1>5. ActiveHead(ix) # 0
  BY <1>2, <1>4 DEF CkCore, CkBranchesOk, RecordedCommits
<1>6. ActiveHead(ix) \in RecordedCommits(ix) /\ RecordedCommits(ix) \subseteq Commits
  BY <1>1, <1>2, <1>5, CkHeadExists, CkRecorded
<1>7. /\ p.kind = "rollback" /\ p.branch = ix.active /\ p.old = ActiveHead(ix) /\ p.target = c
      /\ p.archived = ix.active /\ p.new = Len(ix.branches) + 1
  BY DEF Intent
<1>8. p \in CkIntents
  <2>1. /\ ix.active \in BranchIds /\ ActiveHead(ix) \in 0 .. MaxCommits
        /\ 0 \in 0 .. MaxCommits /\ Len(ix.branches) + 1 \in 0 .. MaxBranches
        /\ ix.active \in 0 .. MaxBranches
    <3>1. ix.active \in BranchIds
      BY <1>2, CkFields
    <3>2. ActiveHead(ix) \in Commits
      BY <1>6
    <3>3. MaxBranches \in Nat /\ MaxCommits \in Nat
      BY CkAssumption
    <3>4. ix.active \in 0 .. MaxBranches
      BY <3>1, <3>3 DEF BranchIds
    <3>5. Len(ix.branches) + 1 \in 0 .. MaxBranches
      BY <1>0, <3>3 DEF BranchIds
    <3>6. ActiveHead(ix) \in 0 .. MaxCommits /\ 0 \in 0 .. MaxCommits
      BY <3>2, <3>3 DEF Commits
    <3> QED BY <3>1, <3>4, <3>5, <3>6
  <2> QED BY <2>1 DEF Intent, CkIntents
<1> HIDE DEF p
<1>9. PICK with : with = [ix EXCEPT !.pending = <<p>>]
  OBVIOUS
<1>10. <<p>> \in CkOptional(CkIntents)
  BY <1>8 DEF CkOptional
<1>11. /\ with \in CkIndices /\ with.recs = ix.recs /\ with.branches = ix.branches
       /\ with.active = ix.active /\ with.pending = <<p>>
  BY <1>2, <1>9, <1>10, CkSetPending
<1>12. with.pending[1] = p /\ with.pending # <<>> /\ RecordedCommits(with) = RecordedCommits(ix)
  BY <1>11, CkSameRecorded
<1>13. CkCore(with, ckGit.objs)
  BY <1>1, <1>2, <1>9, <1>10, CkIntends
<1>14. CkIntentOk(with, p, ckGit.objs)
  BY <1>0, <1>4, <1>6, <1>7, <1>11, <1>12 DEF CkIntentOk
<1>15. CkIndex(with, ckGit.objs)
  BY <1>12, <1>13, <1>14 DEF CkIndex
<1>16. PICK w : w = [who |-> "trace", tool |-> "rollback", ix |-> with, stage |-> "branch",
                     redo |-> FALSE, todo |-> {}]
  OBVIOUS
<1>17. /\ w \in CkWorks /\ w.who = "trace" /\ w.tool = "rollback" /\ w.ix = with
       /\ w.stage = "branch" /\ w.redo = FALSE /\ w.todo = {}
  BY <1>11, <1>16 DEF CkWorks, CkStages
<1>18. ckWork' = <<w>>
  BY <1>0, <1>9, <1>16 DEF Work
<1>19. CkStageOk(w, ckTree', ckGit.objs)
  BY <1>7, <1>12, <1>17 DEF CkStageOk
<1>20. CkStageRefs(w, ckGit)
  BY <1>7, <1>12, <1>17 DEF CkStageRefs
<1>21. ~ckRaced => CkRefs(with, ckGit)
  BY <1>0, <1>2, <1>3, <1>7, <1>8, <1>9, CkRefsIntend
<1>22. ckDisk' = <<w.ix>> /\ ckTree' \in CkTrees
  BY <1>0, <1>1, <1>9, <1>17
<1> QED BY <1>0, <1>15, <1>17, <1>18, <1>19, <1>20, <1>21, <1>22, CkBegins

\* A branch is made eligible for merging, or no longer.
LEMMA CkSetEligibility ==
  ASSUME CkInvariant, NEW b \in BranchIds, NEW e \in BOOLEAN, SetEligibility(b, e)
  PROVE  CkInvariant'
<1> DEFINE ix == ckLive[1]
<1>0. /\ ~Busy /\ ckLive # <<>> /\ b \in DOMAIN ix.branches
      /\ ix.branches[b].status = "archived"
      /\ UNCHANGED <<ckTree, ckGit, ckWork, ckFaults, ckOutside, ckRaced>>
      /\ ckLive' = <<[ix EXCEPT !.branches[b].eligible = e,
                         !.branches[b].merge = IF e THEN "ready" ELSE "none"]>>
      /\ ckDisk' = <<[ix EXCEPT !.branches[b].eligible = e,
                         !.branches[b].merge = IF e THEN "ready" ELSE "none"]>>
  BY DEF SetEligibility
<1>1. /\ ckWork = <<>> /\ ckTree \in CkTrees /\ ckGit \in CkGits /\ ckRaced \in BOOLEAN
      /\ ckGit.objs \in Seq(CkObjects)
      /\ ckLive = <<ix>> /\ CkIndex(ix, ckGit.objs)
      /\ ~ckRaced => ckLive \in {<<>>, ckDisk} /\ CkRefs(OpenedIndex, ckGit)
  BY <1>0, CkIdle
<1>2. ix \in CkIndices /\ b # ix.active /\ ix.branches[b] \in CkBranchRecords
  <2>1. ix \in CkIndices /\ CkBranchesOk(ix)
    BY <1>1 DEF CkIndex, CkCore
  <2> QED BY <1>0, <2>1, CkFields DEF CkBranchesOk
<1>3. PICK m : m = IF e THEN "ready" ELSE "none"
  OBVIOUS
<1>4. PICK s1 : s1 = [ix.branches[b] EXCEPT !.eligible = e]
  OBVIOUS
<1>5. PICK br : br = [s1 EXCEPT !.merge = m]
  OBVIOUS
<1>6. /\ br \in CkBranchRecords /\ br.head = ix.branches[b].head
      /\ br.gone = ix.branches[b].gone /\ br.status = "archived"
  <2>1. m \in {"none", "ready", "deferred", "blocked", "unknown"}
    BY <1>3
  <2> QED BY <1>0, <1>2, <1>4, <1>5, <2>1 DEF CkBranchRecords
<1>7. PICK new : new = SetBranch(ix, b, br)
  OBVIOUS
<1>8. new = [ix EXCEPT !.branches[b].eligible = e,
                       !.branches[b].merge = IF e THEN "ready" ELSE "none"]
  <2>1. PICK b1 : b1 = [ix.branches EXCEPT ![b] = s1]
    OBVIOUS
  <2>2. b1[b] = s1 /\ [b1 EXCEPT ![b] = br] = [ix.branches EXCEPT ![b] = br]
    BY <1>0, <2>1
  <2>3. [ix EXCEPT !.branches[b].eligible = e, !.branches[b].merge = m]
            = [ix EXCEPT !.branches = [b1 EXCEPT ![b] = br]]
    BY <1>4, <1>5, <2>1, <2>2, <1>2 DEF CkIndices
  <2> QED BY <1>3, <1>7, <2>2, <2>3 DEF SetBranch
<1>9. CkIndex(new, ckGit.objs) /\ (CkRefs(ix, ckGit) => CkRefs(new, ckGit))
  BY <1>0, <1>1, <1>2, <1>6, <1>7, CkMarksIndex
<1>10. ~ckRaced => CkRefs(ix, ckGit)
  <2>1. ASSUME ~ckRaced PROVE ckDisk[1] = ix /\ ckDisk # <<>>
    BY <1>0, <1>1, <2>1
  <2> QED BY <1>1, <2>1 DEF OpenedIndex
<1>11. ckLive' = <<new>> /\ ckDisk' = <<new>>
  BY <1>0, <1>8
<1>12. CkBounded'
  BY <1>0 DEF CkInvariant, CkBounded
<1> HIDE DEF ix
<1> QED BY <1>0, <1>1, <1>9, <1>10, <1>11, <1>12, CkEnds

-----------------------------------------------------------------------------
(* The steps of an operation. *)

\* Only the restore points, the branch refs and the pruned objects matter to CkRefs.
LEMMA CkRefsGit ==
  ASSUME NEW ix, NEW git, NEW git2, CkRefs(ix, git), git2.points = git.points,
         git2.branches = git.branches, git2.pruned = git.pruned
  PROVE  CkRefs(ix, git2)
  BY DEF CkRefs, CkLeft

\* The refs are compared with the index and those of no restore point removed.
LEMMA CkValidate == CkInvariant /\ Validate => CkInvariant'
<1> SUFFICES ASSUME CkInvariant, Validate PROVE CkInvariant'
  OBVIOUS
<1>0. Busy /\ W.stage = "validate" /\ UNCHANGED <<ckFaults, ckOutside>>
  BY DEF Validate
<1>1. /\ ckWork = <<W>> /\ W \in CkWorks /\ W.ix \in CkIndices
      /\ ckTree \in CkTrees /\ ckGit \in CkGits /\ Len(ckGit.objs) <= MaxCommits
      /\ ckGit.pruned \subseteq 1 .. Len(ckGit.objs)
      /\ CkIndex(W.ix, ckGit.objs) /\ CkStageOk(W, ckTree, ckGit.objs)
      /\ ~ckRaced => CkRefs(W.ix, ckGit)
  BY <1>0, CkAtWork
<1>2. CASE Raises
  <2>1. CkBounded'
    BY <1>0 DEF CkInvariant, CkBounded
  <2> QED BY <1>0, <1>2, <2>1, CkRaises
<1>3. CASE ~Raises
  <2>1. /\ ckGit' = CleanRestoreRefs(ckGit, W.ix)
        /\ ckWork' = <<[W EXCEPT !.stage = IF W.tool = "start" THEN "create" ELSE "collect",
                                 !.redo = FALSE]>>
        /\ UNCHANGED <<ckTree, ckDisk, ckLive, ckRaced>>
    BY <1>3 DEF Validate
  <2>2. PICK w : w = [W EXCEPT !.stage = IF W.tool = "start" THEN "create" ELSE "collect",
                               !.redo = FALSE]
    OBVIOUS
  <2>3. PICK s : s = IF W.tool = "start" THEN "create" ELSE "collect"
    OBVIOUS
  <2>4. s \in CkStages
    BY <2>3 DEF CkStages
  <2>5. /\ w \in CkWorks /\ w.who = W.who /\ w.tool = W.tool /\ w.ix = W.ix
        /\ w.stage = s /\ w.redo = FALSE /\ w.todo = W.todo
    BY <1>1, <2>2, <2>3, <2>4 DEF CkWorks
  <2>6. /\ W.ix.pending = <<>> /\ W.tool \in {"start", "dream"}
        /\ W.who = "dream" <=> W.tool = "dream"
        /\ W.todo = {}
    BY <1>0, <1>1 DEF CkStageOk
  <2>7. CkStageOk(w, ckTree', ckGit'.objs)
    BY <2>3, <2>5, <2>6 DEF CkStageOk
  <2>8. PICK pts : pts = [s1 \in Commits |-> IF s1 \in W.ix.points THEN ckGit.points[s1] ELSE 0]
    OBVIOUS
  <2>9. ckGit' = [ckGit EXCEPT !.points = pts]
    BY <2>1, <2>8 DEF CleanRestoreRefs
  <2>10. pts \in [Commits -> 0 .. MaxCommits]
    BY <1>1, <2>8, CkAssumption DEF CkGits
  <2>11. /\ ckGit' \in CkGits /\ ckGit'.objs = ckGit.objs /\ ckGit'.points = pts
         /\ ckGit'.branches = ckGit.branches /\ ckGit'.pruned = ckGit.pruned
    BY <1>1, <2>9, <2>10 DEF CkGits
  <2>12. ASSUME ~ckRaced PROVE CkRefs(w.ix, ckGit')
    <3>1. CkRefsExact(W.ix, ckGit)
      BY <1>1, <2>6, <2>12, CkExactly
    <3>2. \A r \in W.ix.recs : r.seq \in W.ix.points => pts[r.seq] = ckGit.points[r.seq]
      BY <1>1, <2>8, CkFields
    <3>3. \A s1 \in Commits : s1 >= W.ix.next => pts[s1] = 0
      BY <3>1, <2>8 DEF CkRefsExact
    <3>4. CkRefsExact(W.ix, ckGit')
      BY <3>1, <3>2, <3>3, <2>11 DEF CkRefsExact, CkLeft
    <3> QED BY <3>4, <2>5, <2>6, CkExact
  <2>13. ckWork' = <<w>> /\ w.ix.pending = <<>> /\ CkIndex(w.ix, ckGit'.objs) /\ CkHistoryKept
    BY <1>1, <2>1, <2>2, <2>5, <2>6, <2>11, CkHistorySame
  <2> QED BY <1>0, <1>1, <2>1, <2>5, <2>7, <2>11, <2>12, <2>13, CkMoves
<1> QED BY <1>2, <1>3

\* A commit-tree adds an object that nothing refers to yet.
LEMMA CkCommits ==
  ASSUME ckGit \in CkGits, ckGit.pruned \subseteq 1 .. Len(ckGit.objs),
         NewCommit \in Commits, NEW tree \in CkTrees, NEW parents,
         parents \subseteq Commits \cup {0}, ckGit' = Committed(tree, parents)
  PROVE  /\ ckGit' \in CkGits /\ Len(ckGit'.objs) = Len(ckGit.objs) + 1
         /\ Len(ckGit'.objs) = NewCommit /\ Len(ckGit'.objs) <= MaxCommits
         /\ ckGit'.pruned \subseteq 1 .. Len(ckGit'.objs)
         /\ ckGit'.points = ckGit.points /\ ckGit'.branches = ckGit.branches
         /\ ckGit'.pruned = ckGit.pruned /\ NewCommit \notin ckGit.pruned
         /\ NewCommit \in DOMAIN ckGit'.objs
         /\ ckGit'.objs[NewCommit].parents = parents \ {0}
         /\ ckGit'.objs[NewCommit].tree = tree
         /\ \A c \in DOMAIN ckGit.objs : ckGit'.objs[c] = ckGit.objs[c]
         /\ \A ix : CkCore(ix, ckGit.objs) => CkCore(ix, ckGit'.objs)
         /\ CkHistoryKept
<1>1. PICK o : o = [tree |-> tree, parents |-> parents \ {0}]
  OBVIOUS
<1>2. o \in CkObjects /\ o.tree = tree /\ o.parents = parents \ {0}
  BY <1>1 DEF CkObjects
<1>3. ckGit.objs \in Seq(CkObjects) /\ Len(ckGit.objs) \in Nat /\ NewCommit = Len(ckGit.objs) + 1
  BY DEF CkGits, NewCommit
<1>4. PICK more : more = Append(ckGit.objs, o)
  OBVIOUS
<1>5. /\ more \in Seq(CkObjects) /\ Len(more) = Len(ckGit.objs) + 1
      /\ more[Len(ckGit.objs) + 1] = o /\ DOMAIN more = 1 .. Len(ckGit.objs) + 1
      /\ \A c \in DOMAIN ckGit.objs : more[c] = ckGit.objs[c]
  BY <1>2, <1>3, <1>4
<1>6. ckGit' = [ckGit EXCEPT !.objs = more]
  BY <1>1, <1>4 DEF Committed
<1>7. /\ ckGit' \in CkGits /\ ckGit'.objs = more /\ ckGit'.points = ckGit.points
      /\ ckGit'.branches = ckGit.branches /\ ckGit'.pruned = ckGit.pruned
  BY <1>5, <1>6 DEF CkGits
<1>8. NewCommit <= MaxCommits /\ NewCommit \notin ckGit.pruned
      /\ ckGit.pruned \subseteq 1 .. Len(ckGit.objs) + 1 /\ NewCommit \in DOMAIN more
  BY <1>3, <1>5, CkAssumption DEF Commits
<1>9. \A ix : CkCore(ix, ckGit.objs) => CkCore(ix, more)
  BY <1>2, <1>3, <1>4, CkCoreGrows
<1>10. \A ix : CkIndex(ix, ckGit.objs) => CkIndex(ix, more)
  BY <1>2, <1>3, <1>4, CkIndexGrows
<1>11. CkHistoryKept
  BY <1>7, <1>10 DEF CkHistoryKept
<1> QED BY <1>2, <1>3, <1>5, <1>7, <1>8, <1>9, <1>11

\* A new commit over the active head, and its intent.
CkIntending(ix, p, git, git2) ==
    /\ ix.pending = <<>> /\ p.kind \in {"create", "merge"} /\ p.branch = ix.active
    /\ p.old = ActiveHead(ix) /\ p.target = Len(git2.objs) /\ p.seq = ix.next
    /\ Len(git2.objs) = Len(git.objs) + 1
    /\ p.old # 0 => p.old \in git2.objs[p.target].parents
    /\ p.kind = "merge" => /\ p.archived \in DOMAIN ix.branches
                           /\ ix.branches[p.archived].status = "archived"
                           /\ p.old \in RecordedCommits(ix)
                           /\ ix.branches[p.archived].head # 0 =>
                                ix.branches[p.archived].head \in git2.objs[p.target].parents
    /\ git2.points = git.points /\ git2.branches = git.branches
    /\ git2.pruned = git.pruned /\ p.target \notin git.pruned

\* The intent to record a new commit over the active head.
LEMMA CkIntendsCommit ==
  ASSUME NEW ix, NEW git \in CkGits, NEW git2 \in CkGits, CkCore(ix, git.objs),
         CkCore(ix, git2.objs), NEW p \in CkIntents, CkIntending(ix, p, git, git2),
         NEW with, with = [ix EXCEPT !.pending = <<p>>]
  PROVE  /\ CkIndex(with, git2.objs) /\ with \in CkIndices
         /\ with.pending[1] = p /\ with.pending # <<>> /\ with.branches = ix.branches
         /\ CkRefs(ix, git) => CkRefs(with, git2)
<1>00. /\ ix.pending = <<>> /\ p.kind \in {"create", "merge"} /\ p.branch = ix.active
       /\ p.old = ActiveHead(ix) /\ p.target = Len(git2.objs) /\ p.seq = ix.next
       /\ Len(git2.objs) = Len(git.objs) + 1
       /\ p.old # 0 => p.old \in git2.objs[p.target].parents
       /\ p.kind = "merge" => /\ p.archived \in DOMAIN ix.branches
                              /\ ix.branches[p.archived].status = "archived"
                              /\ p.old \in RecordedCommits(ix)
                              /\ ix.branches[p.archived].head # 0 =>
                                   ix.branches[p.archived].head \in git2.objs[p.target].parents
       /\ git2.points = git.points /\ git2.branches = git.branches
       /\ git2.pruned = git.pruned /\ p.target \notin git.pruned
  BY DEF CkIntending
<1>0. /\ ix \in CkIndices /\ git.objs \in Seq(CkObjects) /\ git2.objs \in Seq(CkObjects)
      /\ Len(git.objs) \in Nat /\ Len(git2.objs) \in Nat /\ CkCommitsOk(ix, Len(git.objs))
      /\ DOMAIN git2.objs = 1 .. Len(git2.objs) /\ DOMAIN git.objs = 1 .. Len(git.objs)
  BY DEF CkCore, CkGits
<1>1. <<p>> \in CkOptional(CkIntents)
  BY DEF CkOptional
<1>2. /\ with \in CkIndices /\ with.recs = ix.recs /\ with.branches = ix.branches
      /\ with.active = ix.active /\ with.next = ix.next /\ with.pending = <<p>>
  BY <1>0, <1>1, CkSetPending
<1>3. with.pending[1] = p /\ with.pending # <<>>
  BY <1>2
<1>4. RecordedCommits(with) = RecordedCommits(ix) /\ ActiveHead(with) = ActiveHead(ix)
  BY <1>2, CkSameRecorded DEF ActiveHead
<1>5. CkCore(with, git2.objs)
  BY <1>0, <1>1, CkIntends
<1>6. p.target \in DOMAIN git2.objs /\ p.target \notin RecordedCommits(ix)
  <2>1. RecordedCommits(ix) \subseteq DOMAIN git.objs
    BY <1>0, CkRecordedExists
  <2> QED BY <2>1, <1>00, <1>0
<1>7. p.seq \in 1 .. Len(git2.objs)
  <2>1. ix.next \in 1 .. MaxCommits + 1 /\ ix.next <= Len(git.objs) + 1
    BY <1>0, CkFields DEF CkCommitsOk
  <2> QED BY <2>1, <1>00, <1>0
<1>8. CkIntentOk(with, p, git2.objs)
  BY <1>00, <1>2, <1>4, <1>6, <1>7 DEF CkIntentOk, CkToRecord
<1>9. ASSUME CkRefs(ix, git) PROVE CkRefs(with, git2)
  <2>1. CkRefs(with, git)
    BY <1>00, <1>0, <1>9, CkRefsIntend
  <2> QED BY <1>00, <2>1, CkRefsGit
<1> QED BY <1>2, <1>3, <1>5, <1>8, <1>9 DEF CkIndex

\* A commit of the tree is made and its intent written.
LEMMA CkCreate == CkInvariant /\ Create => CkInvariant'
<1> SUFFICES ASSUME CkInvariant, Create PROVE CkInvariant'
  OBVIOUS
<1>0. Busy /\ W.stage = "create" /\ UNCHANGED <<ckFaults, ckOutside>>
  BY DEF Create
<1>1. /\ ckWork = <<W>> /\ W \in CkWorks /\ W.ix \in CkIndices
      /\ ckTree \in CkTrees /\ ckGit \in CkGits /\ Len(ckGit.objs) <= MaxCommits
      /\ Len(ckGit.objs) \in Nat /\ ckGit.objs \in Seq(CkObjects)
      /\ ckGit.pruned \subseteq 1 .. Len(ckGit.objs)
      /\ CkIndex(W.ix, ckGit.objs) /\ CkStageOk(W, ckTree, ckGit.objs)
      /\ ~ckRaced => /\ ckDisk = <<W.ix>> /\ CkRefs(W.ix, ckGit)
                     /\ W.who = "dream" => ckLive \in {<<>>, ckDisk}
                     /\ W.tool = "start" => ckLive = <<>>
  BY <1>0, CkAtWork
<1>2. CkBounded' /\ ckRaced \in BOOLEAN
  BY <1>0 DEF CkInvariant, CkBounded, CkTypedAt
<1>3. /\ W.tool \in {"start", "change"} /\ ~W.redo /\ W.who \in {"trace", "dream"}
      /\ W.who = "dream" <=> W.tool = "dream"
      /\ W.todo # {} => W.tool = "dream"
  BY <1>0, <1>1, CkWorkFields DEF CkStageOk
<1>4. CASE Raises
  BY <1>0, <1>2, <1>4, CkRaises
<1>5. CASE /\ Leaves(W.ix)
           /\ UNCHANGED <<ckTree, ckGit, ckDisk, ckRaced>>
  <2>1. ckWork' = <<>> /\ ckLive' = <<W.ix>>
    BY <1>3, <1>5 DEF Leaves
  <2> QED BY <2>1, <1>1, <1>2, <1>5, CkEnds
<1> DEFINE ix == W.ix
           p  == Intent("create", ix, NewCommit, ix.next, 0, 0, FALSE)
           with0 == [ix EXCEPT !.pending = <<p>>]
<1>6. CASE /\ ix.pending = <<>> /\ NewCommit \in Commits
           /\ ckGit' = Committed(ckTree, {ActiveHead(ix)})
           /\ WriteState(with0) /\ ckWork' = <<[W EXCEPT !.ix = with0, !.stage = "point"]>>
           /\ UNCHANGED <<ckTree, ckLive>>
  <2>1. CkCore(ix, ckGit.objs)
    BY <1>1 DEF CkIndex
  <2>2. ActiveHead(ix) \in Commits \cup {0}
    BY <1>1, <2>1, CkHeadExists, CkRecorded
  <2>3. /\ ckGit' \in CkGits /\ Len(ckGit'.objs) = Len(ckGit.objs) + 1
        /\ Len(ckGit'.objs) = NewCommit /\ Len(ckGit'.objs) <= MaxCommits
        /\ ckGit'.pruned \subseteq 1 .. Len(ckGit'.objs)
        /\ ckGit'.points = ckGit.points /\ ckGit'.branches = ckGit.branches
        /\ ckGit'.pruned = ckGit.pruned /\ NewCommit \notin ckGit.pruned
        /\ ckGit'.objs[NewCommit].parents = {ActiveHead(ix)} \ {0}
        /\ CkCore(ix, ckGit'.objs) /\ CkHistoryKept
    BY <1>1, <1>6, <2>1, <2>2, CkCommits
  <2>4. /\ p.kind = "create" /\ p.branch = ix.active /\ p.old = ActiveHead(ix)
        /\ p.target = NewCommit /\ p.seq = ix.next
    BY DEF Intent
  <2>5. p \in CkIntents
    <3>1. ix.active \in BranchIds /\ ix.next \in 1 .. MaxCommits + 1 /\ NewCommit \in Commits
      BY <1>1, <1>6, CkFields
    <3>2. ix.next <= Len(ckGit.objs) + 1 /\ NewCommit = Len(ckGit.objs) + 1
      BY <2>1 DEF CkCore, CkCommitsOk, NewCommit
    <3>3. ix.next \in 0 .. MaxCommits
      BY <3>1, <3>2, <1>1, CkAssumption DEF Commits
    <3>4. ActiveHead(ix) \in 0 .. MaxCommits /\ 0 \in 0 .. MaxBranches
      BY <2>2, CkAssumption DEF Commits
    <3> QED BY <3>1, <3>3, <3>4 DEF Intent, CkIntents
  <2>6. PICK q : q = p
    OBVIOUS
  <2>7. PICK with : with = [ix EXCEPT !.pending = <<q>>]
    OBVIOUS
  <2>8. with = with0
    BY <2>6, <2>7
  <2>9. /\ CkIndex(with, ckGit'.objs) /\ with \in CkIndices
        /\ with.pending[1] = q /\ with.pending # <<>> /\ with.branches = ix.branches
        /\ CkRefs(ix, ckGit) => CkRefs(with, ckGit')
    <3>1. /\ q \in CkIntents /\ q.kind \in {"create", "merge"} /\ q.branch = ix.active
          /\ q.old = ActiveHead(ix) /\ q.target = Len(ckGit'.objs) /\ q.seq = ix.next
          /\ q.kind # "merge" /\ q.target \notin ckGit.pruned
      BY <2>3, <2>4, <2>5, <2>6
    <3>2. q.old # 0 => q.old \in ckGit'.objs[q.target].parents
      BY <2>3, <2>4, <2>6
    <3>3. CkIntending(ix, q, ckGit, ckGit')
      BY <3>1, <3>2, <1>6, <2>3 DEF CkIntending
    <3>4. CkCore(ix, ckGit'.objs) /\ ckGit' \in CkGits /\ ckGit \in CkGits
      BY <1>1, <2>3
    <3> HIDE DEF p, with0, ix
    <3> QED BY <3>1, <3>3, <3>4, <2>1, <2>7, CkIntendsCommit
  <2>10. PICK w : w = [W EXCEPT !.ix = with, !.stage = "point"]
    OBVIOUS
  <2>11. /\ w \in CkWorks /\ w.who = W.who /\ w.tool = W.tool /\ w.ix = with
         /\ w.stage = "point" /\ w.redo = W.redo /\ w.todo = W.todo
    BY <1>1, <2>9, <2>10 DEF CkWorks, CkStages
  <2>12. q.kind = "create"
    BY <2>4, <2>6
  <2>13. CkStageOk(w, ckTree', ckGit'.objs)
    BY <1>3, <2>9, <2>11, <2>12 DEF CkStageOk
  <2>14. CkStageRefs(w, ckGit')
    BY <1>3, <2>9, <2>11, <2>12 DEF CkStageRefs
  <2>15. /\ ckWork' = <<w>> /\ ckDisk' = <<w.ix>>
         /\ ckRaced' = (ckRaced \/ (W.who = "dream" /\ ckLive # <<>>))
    BY <1>6, <2>8, <2>10, <2>11 DEF WriteState
  <2>16. ckTree' \in CkTrees /\ UNCHANGED <<ckLive, ckFaults, ckOutside>>
    BY <1>0, <1>1, <1>6
  <2> HIDE DEF p, with0, ix
  <2>17. ~ckRaced => CkRefs(w.ix, ckGit')
    BY <1>1, <2>9, <2>11 DEF ix
  <2> QED BY <1>0, <1>1, <2>3, <2>9, <2>11, <2>13, <2>14, <2>15, <2>16, <2>17, CkMoves
<1>7. Raises \/ (Leaves(W.ix) /\ UNCHANGED <<ckTree, ckGit, ckDisk, ckRaced>>)
        \/ (/\ ix.pending = <<>> /\ NewCommit \in Commits
            /\ ckGit' = Committed(ckTree, {ActiveHead(ix)})
            /\ WriteState(with0) /\ ckWork' = <<[W EXCEPT !.ix = with0, !.stage = "point"]>>
            /\ UNCHANGED <<ckTree, ckLive>>)
  BY DEF Create
<1> QED BY <1>4, <1>5, <1>6, <1>7

\* What is common to the steps of a mutation.
LEMMA CkMutation ==
  ASSUME CkInvariant, Busy, W.stage \in {"point", "branch", "switch", "restore", "settle"}
  PROVE  /\ W.ix.pending # <<>> /\ P = W.ix.pending[1] /\ P \in CkIntents
         /\ CkIntentOk(W.ix, P, ckGit.objs) /\ CkCore(W.ix, ckGit.objs)
         /\ P.kind \in {"create", "rollback", "merge"}
         /\ \A b \in W.todo : b \in DOMAIN W.ix.branches /\ W.ix.branches[b].status = "archived"
<1>1. W.ix \in CkIndices /\ CkIndex(W.ix, ckGit.objs) /\ CkStageOk(W, ckTree, ckGit.objs)
  BY CkAtWork
<1>2. /\ W.ix.pending # <<>>
      /\ \A b \in W.todo : b \in DOMAIN W.ix.branches /\ W.ix.branches[b].status = "archived"
  BY <1>1 DEF CkStageOk
<1>3. P = W.ix.pending[1] /\ P \in CkIntents
  BY <1>1, <1>2, CkPendingIs DEF P
<1>4. CkIntentOk(W.ix, P, ckGit.objs) /\ CkCore(W.ix, ckGit.objs)
  BY <1>1, <1>2, <1>3 DEF CkIndex
<1> QED BY <1>2, <1>3, <1>4 DEF CkIntents

\* The operation after a step.
LEMMA CkSteps ==
  ASSUME CkInvariant, Busy, NEW new, NEW tree2, CkAdvancing(W, P, new, ckTree, tree2),
         Advance(new)
  PROVE  \E w \in CkWorks :
            /\ ckWork' = <<w>> /\ CkStageOk(w, tree2, ckGit.objs) /\ w.ix = new
            /\ w.who = W.who /\ w.tool = W.tool /\ w.redo = W.redo
            /\ w.stage = StageAfter(P, W.redo, W.stage)
<1>1. W \in CkWorks /\ CkStageOk(W, ckTree, ckGit.objs)
  BY CkAtWork
<1>2. PICK w : w = CkAdvanced(W, P, new)
  OBVIOUS
<1>3. ckWork' = <<w>>
  BY <1>2 DEF Advance, CkAdvanced
<1>4. PICK p, w0, objs : p = P /\ w0 = W /\ objs = ckGit.objs
  OBVIOUS
<1>5. /\ w \in CkWorks /\ CkStageOk(w, tree2, objs) /\ w.ix = new /\ w.who = w0.who
      /\ w.tool = w0.tool /\ w.redo = w0.redo /\ w.stage = StageAfter(p, w0.redo, w0.stage)
  <2>1. w0 \in CkWorks /\ CkStageOk(w0, ckTree, objs) /\ w = CkAdvanced(w0, p, new)
        /\ CkAdvancing(w0, p, new, ckTree, tree2)
    BY <1>1, <1>2, <1>4
  <2> QED BY <2>1, CkAdvances
<1> QED BY <1>3, <1>4, <1>5

\* The ref of the new commit is set.
LEMMA CkPointRef == CkInvariant /\ PointRef => CkInvariant'
<1> SUFFICES ASSUME CkInvariant, PointRef PROVE CkInvariant'
  OBVIOUS
<1>0. Busy /\ W.stage = "point" /\ UNCHANGED <<ckFaults, ckOutside>>
  BY DEF PointRef
<1>1. /\ ckWork = <<W>> /\ W \in CkWorks /\ W.ix \in CkIndices
      /\ ckTree \in CkTrees /\ ckGit \in CkGits /\ Len(ckGit.objs) <= MaxCommits
      /\ ckGit.pruned \subseteq 1 .. Len(ckGit.objs)
      /\ CkIndex(W.ix, ckGit.objs) /\ CkStageOk(W, ckTree, ckGit.objs)
      /\ ~ckRaced => CkRefs(W.ix, ckGit) /\ (W.ix.pending # <<>> => CkStageRefs(W, ckGit))
  BY <1>0, CkAtWork
<1>2. /\ W.ix.pending # <<>> /\ P = W.ix.pending[1] /\ P \in CkIntents
      /\ CkIntentOk(W.ix, P, ckGit.objs) /\ CkCore(W.ix, ckGit.objs)
      /\ P.kind \in {"create", "rollback", "merge"}
      /\ \A b \in W.todo : b \in DOMAIN W.ix.branches /\ W.ix.branches[b].status = "archived"
  BY <1>0, CkMutation
<1>3. CASE Raises
  <2>1. CkBounded'
    BY <1>0 DEF CkInvariant, CkBounded
  <2> QED BY <1>0, <1>3, <2>1, CkRaises
<1>4. CASE ~Raises
  <2>1. /\ PointRefOk
        /\ ckGit' = IF ckGit.points[P.seq] = 0
                    THEN [ckGit EXCEPT !.points[P.seq] = P.target] ELSE ckGit
        /\ Advance(W.ix) /\ UNCHANGED <<ckTree, ckDisk, ckLive, ckRaced>>
    BY <1>4 DEF PointRef
  <2>2. CkAdvancing(W, P, W.ix, ckTree, ckTree)
    BY <1>0, <1>1, <1>2 DEF CkAdvancing
  <2>3. PICK w \in CkWorks :
            /\ ckWork' = <<w>> /\ CkStageOk(w, ckTree, ckGit.objs) /\ w.ix = W.ix
            /\ w.who = W.who /\ w.tool = W.tool /\ w.redo = W.redo
            /\ w.stage = StageAfter(P, W.redo, W.stage)
    BY <1>0, <2>1, <2>2, CkSteps
  <2>4. ckWork' = <<w>>
    BY <2>3
  <2>5. /\ P.kind \in {"create", "merge"} /\ P.seq \in Commits /\ P.target \in Commits
        /\ P.target # 0 /\ P.target \in 0 .. MaxCommits
    <3>1. P.kind \in {"create", "merge"}
      BY <1>0, <1>1, <1>2 DEF CkStageOk
    <3>2. P.seq \in 1 .. Len(ckGit.objs)
      BY <1>2, <3>1 DEF CkIntentOk
    <3>3. P.target \in Commits
      BY <1>2 DEF CkIntents
    <3>4. MaxCommits \in Nat /\ Len(ckGit.objs) \in Nat
      BY <1>0, CkAtWork, CkAssumption
    <3> QED BY <1>1, <3>1, <3>2, <3>3, <3>4 DEF Commits
  <2>6. ckGit.points \in [Commits -> 0 .. MaxCommits]
    BY <1>1 DEF CkGits
  <2>7. PICK pts : pts = IF ckGit.points[P.seq] = 0
                         THEN [ckGit.points EXCEPT ![P.seq] = P.target] ELSE ckGit.points
    OBVIOUS
  <2>8. /\ pts \in [Commits -> 0 .. MaxCommits]
        /\ ckGit.points[P.seq] = 0 => pts[P.seq] = P.target
        /\ ckGit.points[P.seq] # 0 => pts[P.seq] = ckGit.points[P.seq]
        /\ \A s \in Commits : s # P.seq => pts[s] = ckGit.points[s]
    BY <2>5, <2>6, <2>7
  <2>9. /\ ckGit' \in CkGits /\ ckGit'.objs = ckGit.objs /\ ckGit'.points = pts
        /\ ckGit'.branches = ckGit.branches /\ ckGit'.pruned = ckGit.pruned
    <3>1. ckGit' = [ckGit EXCEPT !.points = pts]
      <4>1. CASE ckGit.points[P.seq] = 0
        BY <4>1, <2>1, <2>7
      <4>2. CASE ckGit.points[P.seq] # 0
        BY <4>2, <1>1, <2>1, <2>7 DEF CkGits
      <4> QED BY <4>1, <4>2
    <3> QED BY <1>1, <2>8, <3>1 DEF CkGits
  <2>10. ASSUME ~ckRaced PROVE CkRefs(w.ix, ckGit') /\ CkStageRefs(w, ckGit')
    <3>1. CkRefs(W.ix, ckGit) /\ CkStageRefs(W, ckGit)
      BY <1>1, <1>2, <2>10
    <3>2. \A r \in W.ix.recs : r.seq \in W.ix.points => pts[r.seq] = r.commit
      <4>1. SUFFICES ASSUME NEW r \in W.ix.recs, r.seq \in W.ix.points
                     PROVE  pts[r.seq] = r.commit
        OBVIOUS
      <4>2. ckGit.points[r.seq] = r.commit /\ r.seq \in Commits /\ r.commit # 0
        <5>1. r \in CkRecords
          BY <1>1, CkFields
        <5> QED BY <5>1, <3>1, <4>1 DEF CkRefs, CkRecords, Commits
      <4> QED BY <4>2, <2>8
    <3>3. \A s \in Commits : s >= W.ix.next /\ pts[s] # 0 => s = P.seq /\ pts[s] = P.target
      <4>1. SUFFICES ASSUME NEW s \in Commits, s >= W.ix.next, pts[s] # 0
                     PROVE  s = P.seq /\ pts[s] = P.target
        OBVIOUS
      <4>2. CASE ckGit.points[s] # 0
        <5>1. s = P.seq /\ ckGit.points[s] = P.target
          BY <1>2, <3>1, <4>1, <4>2 DEF CkRefs
        <5> QED BY <5>1, <4>2, <2>8
      <4>3. CASE ckGit.points[s] = 0
        BY <4>1, <4>3, <2>8
      <4> QED BY <4>2, <4>3
    <3>4. CkRefs(w.ix, ckGit')
      BY <1>2, <2>3, <2>5, <2>9, <3>1, <3>2, <3>3 DEF CkRefs, CkLeft
    <3>5. ASSUME P.target \notin RecordedCommits(W.ix) PROVE pts[P.seq] = P.target
      <4>1. P.seq = W.ix.next
        BY <1>2, <2>5, <3>5 DEF CkIntentOk, CkToRecord
      <4>2. CASE ckGit.points[P.seq] = 0
        BY <4>2, <2>8
      <4>3. CASE ckGit.points[P.seq] # 0
        <5>1. P.seq >= W.ix.next
          BY <4>1, <2>5 DEF Commits
        <5> QED BY <5>1, <4>3, <1>2, <2>5, <2>8, <3>1 DEF CkRefs
      <4> QED BY <4>2, <4>3
    <3>6. P.kind = "merge" /\ w.stage = "switch" => ckGit.branches[P.branch] = P.target
      <4>1. ASSUME P.kind = "merge", w.stage = "switch" PROVE W.redo
        BY <4>1, <1>0, <1>1, <2>3, CkOrder, CkWorkFields
      <4> QED BY <4>1, <1>0, <1>2, <3>1 DEF CkStageRefs
    <3>7. /\ w.stage \in {"branch", "switch"}
          /\ P.kind = "create" => w.stage = "branch"
      BY <1>0, <1>1, <2>3, <2>5, CkOrder, CkWorkFields
    <3>8. CkStageRefs(w, ckGit')
      BY <1>2, <2>3, <2>5, <2>9, <3>5, <3>6, <3>7 DEF CkStageRefs
    <3> QED BY <3>4, <3>8
  <2>11. /\ ckTree' \in CkTrees /\ CkHistoryKept /\ CkIndex(w.ix, ckGit'.objs)
         /\ CkStageOk(w, ckTree', ckGit'.objs)
         /\ Len(ckGit'.objs) <= MaxCommits /\ ckGit'.pruned \subseteq 1 .. Len(ckGit'.objs)
    BY <1>1, <2>1, <2>3, <2>9, CkHistorySame
  <2> QED BY <1>0, <1>1, <2>1, <2>3, <2>4, <2>9, <2>10, <2>11, CkMoves
<1> QED BY <1>3, <1>4

\* The branch ref is that of the intent's target from then on.
LEMMA CkBranchRef == CkInvariant /\ BranchRef => CkInvariant'
<1> SUFFICES ASSUME CkInvariant, BranchRef PROVE CkInvariant'
  OBVIOUS
<1>0. Busy /\ W.stage = "branch" /\ UNCHANGED <<ckFaults, ckOutside>>
  BY DEF BranchRef
<1>1. /\ ckWork = <<W>> /\ W \in CkWorks /\ W.ix \in CkIndices
      /\ ckTree \in CkTrees /\ ckGit \in CkGits /\ Len(ckGit.objs) <= MaxCommits
      /\ ckGit.pruned \subseteq 1 .. Len(ckGit.objs)
      /\ CkIndex(W.ix, ckGit.objs) /\ CkStageOk(W, ckTree, ckGit.objs)
      /\ ~ckRaced => CkRefs(W.ix, ckGit) /\ (W.ix.pending # <<>> => CkStageRefs(W, ckGit))
  BY <1>0, CkAtWork
<1>2. /\ W.ix.pending # <<>> /\ P = W.ix.pending[1] /\ P \in CkIntents
      /\ CkIntentOk(W.ix, P, ckGit.objs) /\ CkCore(W.ix, ckGit.objs)
      /\ P.kind \in {"create", "rollback", "merge"}
      /\ \A b \in W.todo : b \in DOMAIN W.ix.branches /\ W.ix.branches[b].status = "archived"
  BY <1>0, CkMutation
<1>3. CASE Raises
  <2>1. CkBounded'
    BY <1>0 DEF CkInvariant, CkBounded
  <2> QED BY <1>0, <1>3, <2>1, CkRaises
<1>4. CASE ~Raises
  <2>1. /\ ckGit' = [ckGit EXCEPT !.branches[MovedBranch] = P.target]
        /\ Advance(W.ix) /\ UNCHANGED <<ckTree, ckDisk, ckLive, ckRaced>>
    BY <1>4 DEF BranchRef
  <2>2. CkAdvancing(W, P, W.ix, ckTree, ckTree)
    BY <1>0, <1>1, <1>2 DEF CkAdvancing
  <2>3. PICK w \in CkWorks :
            /\ ckWork' = <<w>> /\ CkStageOk(w, ckTree, ckGit.objs) /\ w.ix = W.ix
            /\ w.who = W.who /\ w.tool = W.tool /\ w.redo = W.redo
            /\ w.stage = StageAfter(P, W.redo, W.stage)
    BY <1>0, <2>1, <2>2, CkSteps
  <2>4. /\ P.target \in Commits /\ P.target \in 0 .. MaxCommits /\ P.branch \in BranchIds
        /\ P.kind = "rollback" => P.new \in BranchIds
    <3>1. P.target \in Commits /\ P.branch \in BranchIds
      BY <1>2 DEF CkIntents
    <3>2. MaxCommits \in Nat
      BY CkAssumption
    <3> QED BY <1>2, <3>1, <3>2 DEF Commits, CkIntentOk
  <2>5. PICK m : m = MovedBranch
    OBVIOUS
  <2>6. /\ m \in BranchIds
        /\ P.kind = "rollback" => m = P.new
        /\ P.kind # "rollback" => m = P.branch
    BY <2>4, <2>5 DEF MovedBranch
  <2>7. PICK brs : brs = [ckGit.branches EXCEPT ![m] = P.target]
    OBVIOUS
  <2>8. /\ brs \in [BranchIds -> 0 .. MaxCommits] /\ brs[m] = P.target
        /\ \A b : b # m /\ b \in BranchIds => brs[b] = ckGit.branches[b]
    BY <1>1, <2>4, <2>6, <2>7 DEF CkGits
  <2>9. /\ ckGit' \in CkGits /\ ckGit'.objs = ckGit.objs /\ ckGit'.branches = brs
        /\ ckGit'.points = ckGit.points /\ ckGit'.pruned = ckGit.pruned
    <3>1. ckGit' = [ckGit EXCEPT !.branches = brs]
      BY <2>1, <2>5, <2>7
    <3> QED BY <1>1, <2>8, <3>1 DEF CkGits
  <2>10. ASSUME ~ckRaced PROVE CkRefs(w.ix, ckGit') /\ CkStageRefs(w, ckGit')
    <3>1. CkRefs(W.ix, ckGit) /\ CkStageRefs(W, ckGit)
      BY <1>1, <1>2, <2>10
    <3>2. DOMAIN W.ix.branches \subseteq BranchIds
      <4>1. /\ Len(W.ix.branches) \in Nat /\ DOMAIN W.ix.branches = 1 .. Len(W.ix.branches)
            /\ Len(W.ix.branches) <= MaxBranches /\ MaxBranches \in Nat
        BY <1>1, <1>2, CkFields, CkAssumption DEF CkCore, CkBranchesOk
      <4> QED BY <4>1 DEF BranchIds
    <3>3. P.kind = "rollback" /\ m \in DOMAIN W.ix.branches
            => P.target = W.ix.branches[m].head
      <4>1. SUFFICES ASSUME P.kind = "rollback", m \in DOMAIN W.ix.branches
                     PROVE  P.target = W.ix.branches[m].head
        OBVIOUS
      <4>2. P.new # Len(W.ix.branches) + 1
        BY <1>1, <4>1, <2>6, CkFields
      <4>3. P.new = W.ix.active /\ ActiveHead(W.ix) = P.target
        BY <1>2, <4>1, <4>2 DEF CkIntentOk
      <4> QED BY <4>1, <4>3, <2>6 DEF ActiveHead
    <3>4. ASSUME NEW b \in DOMAIN W.ix.branches
          PROVE  \/ CkLeft(W.ix, ckGit', b)
                 \/ brs[b] = W.ix.branches[b].head
                 \/ P.kind \in {"create", "merge"} /\ b = P.branch /\ brs[b] = P.target
      <4>1. CASE b = m
        BY <4>1, <1>2, <2>6, <2>8, <3>3
      <4>2. CASE b # m
        <5>1. brs[b] = ckGit.branches[b]
          BY <4>2, <2>8, <3>2
        <5> QED BY <5>1, <1>2, <2>9, <3>1 DEF CkRefs, CkLeft
      <4> QED BY <4>1, <4>2
    <3>5. CkRefs(w.ix, ckGit')
      BY <1>2, <2>3, <2>9, <3>1, <3>4 DEF CkRefs
    <3>6. /\ P.kind = "create" => w.stage = "settle"
          /\ P.kind = "rollback" => w.stage = "switch"
          /\ P.kind = "merge" /\ ~W.redo => w.stage = "switch"
          /\ P.kind = "merge" /\ W.redo => w.stage = "point"
      BY <1>0, <1>1, <2>3, CkOrder, CkWorkFields
    <3>7. (P.kind = "create" \/ (P.kind = "merge" /\ ~W.redo))
            /\ P.target \notin RecordedCommits(W.ix) => ckGit.points[P.seq] = P.target
      BY <1>0, <1>2, <3>1 DEF CkStageRefs
    <3>8. W.redo \in BOOLEAN
      BY <1>1, CkWorkFields
    <3>9. CkStageRefs(w, ckGit')
      BY <1>2, <2>3, <2>6, <2>8, <2>9, <3>6, <3>7, <3>8 DEF CkStageRefs
    <3> QED BY <3>5, <3>9
  <2>11. /\ ckTree' \in CkTrees /\ CkHistoryKept /\ CkIndex(w.ix, ckGit'.objs)
         /\ CkStageOk(w, ckTree', ckGit'.objs)
         /\ Len(ckGit'.objs) <= MaxCommits /\ ckGit'.pruned \subseteq 1 .. Len(ckGit'.objs)
    BY <1>1, <2>1, <2>3, <2>9, CkHistorySame
  <2> QED BY <1>0, <1>1, <2>1, <2>3, <2>9, <2>10, <2>11, CkMoves
<1> QED BY <1>3, <1>4

\* The index switches to the target of the intent.
LEMMA CkSwitchIndex == CkInvariant /\ SwitchIndex => CkInvariant'
<1> SUFFICES ASSUME CkInvariant, SwitchIndex PROVE CkInvariant'
  OBVIOUS
<1>0. /\ Busy /\ W.stage = "switch" /\ UNCHANGED <<ckTree, ckGit, ckLive, ckFaults, ckOutside>>
      /\ WriteState(Switched(W.ix, P, W.redo)) /\ Advance(Switched(W.ix, P, W.redo))
  BY DEF SwitchIndex
<1>1. /\ ckWork = <<W>> /\ W \in CkWorks /\ W.ix \in CkIndices
      /\ ckTree \in CkTrees /\ ckGit \in CkGits /\ Len(ckGit.objs) <= MaxCommits
      /\ ckGit.objs \in Seq(CkObjects)
      /\ ckGit.pruned \subseteq 1 .. Len(ckGit.objs)
      /\ CkIndex(W.ix, ckGit.objs) /\ CkStageOk(W, ckTree, ckGit.objs)
      /\ ~ckRaced => CkRefs(W.ix, ckGit) /\ (W.ix.pending # <<>> => CkStageRefs(W, ckGit))
  BY <1>0, CkAtWork
<1>2. /\ W.ix.pending # <<>> /\ P = W.ix.pending[1] /\ P \in CkIntents
      /\ CkIntentOk(W.ix, P, ckGit.objs) /\ CkCore(W.ix, ckGit.objs)
      /\ P.kind \in {"create", "rollback", "merge"}
      /\ \A b \in W.todo : b \in DOMAIN W.ix.branches /\ W.ix.branches[b].status = "archived"
  BY <1>0, CkMutation
<1>3. /\ P.kind \in {"rollback", "merge"} /\ W.redo \in BOOLEAN
      /\ W.todo # {} => P.kind = "merge"
  BY <1>0, <1>1, <1>2, CkWorkFields DEF CkStageOk
<1>4. PICK new : new = Switched(W.ix, P, W.redo)
  OBVIOUS
<1>5. /\ CkIndex(new, ckGit.objs) /\ new.pending = W.ix.pending
      /\ \A b \in W.todo : b \in DOMAIN new.branches /\ new.branches[b].status = "archived"
      /\ P.kind = "merge" => P.target \in RecordedCommits(new)
      /\ P.kind = "rollback" => new.active = P.new
      /\ ~ckRaced => CkRefs(new, ckGit)
  <2>1. CASE P.kind = "merge"
    <3>1. /\ CkIndex(new, ckGit.objs) /\ new.pending = W.ix.pending
          /\ P.target \in RecordedCommits(new)
          /\ DOMAIN new.branches = DOMAIN W.ix.branches
          /\ \A b \in DOMAIN W.ix.branches : new.branches[b].status = W.ix.branches[b].status
          /\ CkRefs(W.ix, ckGit) /\ ckGit.branches[P.branch] = P.target
                /\ (P.target \notin RecordedCommits(W.ix) => ckGit.points[P.seq] = P.target)
                => CkRefs(new, ckGit)
      BY <1>1, <1>2, <1>3, <1>4, <2>1, CkSwitchMerge
    <3>2. ASSUME ~ckRaced PROVE CkRefs(new, ckGit)
      <4>1. ckGit.branches[P.branch] = P.target
            /\ (P.target \notin RecordedCommits(W.ix) => ckGit.points[P.seq] = P.target)
        BY <1>0, <1>1, <1>2, <2>1, <3>2 DEF CkStageRefs
      <4> QED BY <1>1, <3>1, <3>2, <4>1
    <3> QED BY <1>2, <2>1, <3>1, <3>2
  <2>2. CASE P.kind = "rollback"
    <3>1. /\ CkIndex(new, ckGit.objs) /\ new.pending = W.ix.pending /\ new.active = P.new
          /\ CkRefs(W.ix, ckGit) /\ ckGit.branches[P.new] = P.target => CkRefs(new, ckGit)
      BY <1>1, <1>2, <1>3, <1>4, <2>2, CkSwitchRollback
    <3>2. ASSUME ~ckRaced PROVE CkRefs(new, ckGit)
      <4>1. ckGit.branches[P.new] = P.target
        BY <1>0, <1>1, <1>2, <2>2, <3>2 DEF CkStageRefs
      <4> QED BY <1>1, <3>1, <3>2, <4>1
    <3> QED BY <1>3, <2>2, <3>1, <3>2
  <2> QED BY <1>3, <2>1, <2>2
<1>6. new \in CkIndices
  BY <1>5 DEF CkIndex, CkCore
<1>7. CkAdvancing(W, P, new, ckTree, ckTree)
  BY <1>0, <1>2, <1>5, <1>6 DEF CkAdvancing
<1>8. PICK w \in CkWorks :
            /\ ckWork' = <<w>> /\ CkStageOk(w, ckTree, ckGit.objs) /\ w.ix = new
            /\ w.who = W.who /\ w.tool = W.tool /\ w.redo = W.redo
            /\ w.stage = StageAfter(P, W.redo, W.stage)
  BY <1>0, <1>4, <1>7, CkSteps
<1>9. w.stage = "restore"
  BY <1>0, <1>3, <1>8, CkOrder
<1>10. CkStageRefs(w, ckGit')
  BY <1>9 DEF CkStageRefs
<1>11. ckDisk' = <<w.ix>> /\ ckRaced' = (ckRaced \/ (W.who = "dream" /\ ckLive # <<>>))
  BY <1>0, <1>4, <1>8 DEF WriteState
<1>12. CkHistoryKept
  BY <1>0, CkHistorySame
<1> QED BY <1>0, <1>1, <1>5, <1>8, <1>10, <1>11, <1>12, CkMoves

\* The workspace becomes the tree of the target.
LEMMA CkRestoreFiles == CkInvariant /\ RestoreFiles => CkInvariant'
<1> SUFFICES ASSUME CkInvariant, RestoreFiles PROVE CkInvariant'
  OBVIOUS
<1>0. Busy /\ W.stage = "restore" /\ UNCHANGED <<ckFaults, ckOutside>>
  BY DEF RestoreFiles
<1>1. /\ ckWork = <<W>> /\ W \in CkWorks /\ W.ix \in CkIndices
      /\ ckTree \in CkTrees /\ ckGit \in CkGits /\ Len(ckGit.objs) <= MaxCommits
      /\ ckGit.objs \in Seq(CkObjects)
      /\ ckGit.pruned \subseteq 1 .. Len(ckGit.objs)
      /\ CkIndex(W.ix, ckGit.objs) /\ CkStageOk(W, ckTree, ckGit.objs)
      /\ ~ckRaced => CkRefs(W.ix, ckGit)
  BY <1>0, CkAtWork
<1>2. /\ W.ix.pending # <<>> /\ P = W.ix.pending[1] /\ P \in CkIntents
      /\ CkIntentOk(W.ix, P, ckGit.objs) /\ CkCore(W.ix, ckGit.objs)
      /\ P.kind \in {"create", "rollback", "merge"}
      /\ \A b \in W.todo : b \in DOMAIN W.ix.branches /\ W.ix.branches[b].status = "archived"
  BY <1>0, CkMutation
<1>3. /\ P.kind \in {"rollback", "merge"} /\ W.redo \in BOOLEAN
      /\ P.kind = "merge" => P.target \in RecordedCommits(W.ix)
  BY <1>0, <1>1, <1>2, CkWorkFields DEF CkStageOk
<1>4. CASE Raises
  <2>1. CkBounded'
    BY <1>0 DEF CkInvariant, CkBounded
  <2> QED BY <1>0, <1>4, <2>1, CkRaises
<1>5. CASE ~Raises
  <2>1. /\ ckTree' = TreeOf(P.target) /\ Advance(W.ix)
        /\ UNCHANGED <<ckGit, ckDisk, ckLive, ckRaced>>
    BY <1>5 DEF RestoreFiles
  <2>2. ckTree' \in CkTrees
    <3>1. P.target \in RecordedCommits(W.ix)
      BY <1>2, <1>3 DEF CkIntentOk
    <3>2. P.target \in DOMAIN ckGit.objs
      BY <1>1, <1>2, <3>1, CkRecordedExists
    <3>3. ckGit.objs[P.target] \in CkObjects
      BY <1>1, <3>2
    <3> QED BY <2>1, <3>3 DEF TreeOf, CkObjects
  <2>3. CkAdvancing(W, P, W.ix, ckTree, ckTree')
    BY <1>0, <1>1, <1>2 DEF CkAdvancing
  <2>4. PICK w \in CkWorks :
            /\ ckWork' = <<w>> /\ CkStageOk(w, ckTree', ckGit.objs) /\ w.ix = W.ix
            /\ w.who = W.who /\ w.tool = W.tool /\ w.redo = W.redo
            /\ w.stage = StageAfter(P, W.redo, W.stage)
    BY <1>0, <2>1, <2>3, CkSteps
  <2>5. w.ix.pending[1] = P
    BY <1>2, <2>4
  <2>6. CkStageRefs(w, ckGit')
    <3>1. w.stage = "settle"
      BY <1>0, <1>3, <2>4, CkOrder
    <3> QED BY <1>3, <2>4, <2>5, <3>1 DEF CkStageRefs
  <2>7. CkHistoryKept
    BY <2>1, CkHistorySame
  <2> QED BY <1>0, <1>1, <2>1, <2>2, <2>4, <2>6, <2>7, CkMoves
<1> QED BY <1>4, <1>5

\* What follows a mutation: the open is validated, the list of the Dream goes on, or
\* the lock is left.
LEMMA CkContinues ==
  ASSUME CkInvariant, Busy, W.stage \in {"settle", "evict"},
         NEW ix, CkIndex(ix, ckGit.objs), ix.pending = <<>>, Continues(ix),
         UNCHANGED <<ckTree, ckFaults, ckOutside>>,
         ckGit' \in CkGits, ckGit'.objs = ckGit.objs, ckGit'.pruned = ckGit.pruned,
         \/ ckDisk' = ckDisk /\ ix = W.ix /\ ckRaced' = ckRaced
         \/ ckDisk' = <<ix>> /\ ckRaced' = (ckRaced \/ (W.who = "dream" /\ ckLive # <<>>)),
         \A b \in W.todo : b \in DOMAIN ix.branches /\ ix.branches[b].status = "archived",
         ~ckRaced => CkRefs(ix, ckGit')
  PROVE  CkInvariant'
<1>1. /\ ckWork = <<W>> /\ W \in CkWorks
      /\ ckTree \in CkTrees /\ Len(ckGit.objs) <= MaxCommits
      /\ ckGit.pruned \subseteq 1 .. Len(ckGit.objs)
      /\ CkStageOk(W, ckTree, ckGit.objs)
      /\ ~ckRaced => ckDisk = <<W.ix>>
  BY CkAtWork
<1>2. /\ W.who \in {"trace", "dream"} /\ W.tool \in {"start", "change", "rollback", "dream"}
      /\ W.redo \in BOOLEAN /\ ix \in CkIndices
  BY <1>1, CkWorkFields DEF CkIndex, CkCore
<1>3. /\ W.who = "dream" <=> W.tool = "dream"
      /\ W.tool \in {"change", "rollback"} => ~W.redo
      /\ W.todo # {} => W.tool = "dream"
      /\ W.redo => W.todo = {}
  BY <1>1 DEF CkStageOk
<1>4. CASE W.redo \/ W.who = "dream"
  <2>1. PICK s : s = IF W.redo THEN "validate" ELSE "assess"
    OBVIOUS
  <2>2. PICK w : w = [W EXCEPT !.ix = ix, !.stage = s]
    OBVIOUS
  <2>3. ckWork' = <<w>> /\ ckLive' = ckLive
    BY <1>4, <2>1, <2>2 DEF Continues
  <2>4. s \in CkStages
    BY <2>1 DEF CkStages
  <2>5. /\ w \in CkWorks /\ w.who = W.who /\ w.tool = W.tool /\ w.ix = ix
        /\ w.stage = s /\ w.redo = W.redo /\ w.todo = W.todo
    BY <1>1, <1>2, <2>2, <2>4 DEF CkWorks
  <2>6. CkStageOk(w, ckTree', ckGit'.objs)
    BY <1>2, <1>3, <1>4, <2>1, <2>5 DEF CkStageOk
  <2>7. CkHistoryKept /\ CkIndex(w.ix, ckGit'.objs)
    BY <2>5, CkHistorySame
  <2>8. /\ ckTree' \in CkTrees /\ Len(ckGit'.objs) <= MaxCommits
        /\ ckGit'.pruned \subseteq 1 .. Len(ckGit'.objs)
        /\ ~ckRaced => CkRefs(w.ix, ckGit')
        /\ w.ix.pending = <<>>
    BY <1>1, <2>5
  <2>9. \/ ckDisk' = ckDisk /\ w.ix = W.ix /\ ckRaced' = ckRaced
        \/ ckDisk' = <<w.ix>> /\ ckRaced' = (ckRaced \/ (W.who = "dream" /\ ckLive # <<>>))
    BY <2>5
  <2> QED BY <2>3, <2>5, <2>6, <2>7, <2>8, <2>9, CkMoves
<1>5. CASE ~(W.redo \/ W.who = "dream")
  <2>1. ckWork' = <<>> /\ ckLive' = <<ix>>
    BY <1>2, <1>5 DEF Continues, Leaves
  <2>2. CkBounded' /\ ckRaced' \in BOOLEAN /\ (ckRaced' = ckRaced)
    BY <1>5 DEF CkInvariant, CkBounded, CkTypedAt
  <2>3. ~ckRaced => ckDisk' = <<ix>>
    BY <1>1
  <2> QED BY <1>1, <2>1, <2>2, <2>3, CkEnds
<1> QED BY <1>4, <1>5

\* The outcome and the end of the intent are one write of the index.
LEMMA CkSettle == CkInvariant /\ Settle => CkInvariant'
<1> SUFFICES ASSUME CkInvariant, Settle PROVE CkInvariant'
  OBVIOUS
<1>0. /\ Busy /\ W.stage = "settle" /\ UNCHANGED <<ckTree, ckGit, ckFaults, ckOutside>>
      /\ WriteState(Settled(W.ix, P))
      /\ P.kind = "rollback" => Continues(Settled(W.ix, P))
      /\ P.kind # "rollback" =>
            /\ ckWork' = <<[W EXCEPT !.ix = Settled(W.ix, P), !.stage = "evict"]>>
            /\ UNCHANGED ckLive
  BY DEF Settle
<1>1. /\ ckWork = <<W>> /\ W \in CkWorks /\ W.ix \in CkIndices
      /\ ckTree \in CkTrees /\ ckGit \in CkGits /\ Len(ckGit.objs) <= MaxCommits
      /\ ckGit.objs \in Seq(CkObjects)
      /\ ckGit.pruned \subseteq 1 .. Len(ckGit.objs)
      /\ CkIndex(W.ix, ckGit.objs) /\ CkStageOk(W, ckTree, ckGit.objs)
      /\ ~ckRaced => CkRefs(W.ix, ckGit) /\ (W.ix.pending # <<>> => CkStageRefs(W, ckGit))
  BY <1>0, CkAtWork
<1>2. /\ W.ix.pending # <<>> /\ P = W.ix.pending[1] /\ P \in CkIntents
      /\ CkIntentOk(W.ix, P, ckGit.objs) /\ CkCore(W.ix, ckGit.objs)
      /\ P.kind \in {"create", "rollback", "merge"}
      /\ \A b \in W.todo : b \in DOMAIN W.ix.branches /\ W.ix.branches[b].status = "archived"
  BY <1>0, CkMutation
<1>3. /\ P.kind = "merge" => P.target \in RecordedCommits(W.ix)
      /\ W.todo # {} => P.kind = "merge" /\ P.archived \notin W.todo
      /\ W.who = "dream" <=> W.tool = "dream"
      /\ W.tool \in {"change", "rollback"} => ~W.redo
      /\ W.todo # {} => W.tool = "dream"
      /\ W.redo => W.todo = {}
  BY <1>0, <1>1, <1>2 DEF CkStageOk
<1>4. PICK new : new = Settled(W.ix, P)
  OBVIOUS
<1>5. /\ CkIndex(new, ckGit.objs) /\ new.pending = <<>>
      /\ \A b \in W.todo : b \in DOMAIN new.branches /\ new.branches[b].status = "archived"
      /\ ~ckRaced => CkRefs(new, ckGit)
  <2>1. CASE P.kind = "create"
    <3>1. /\ CkIndex(new, ckGit.objs) /\ new.pending = <<>>
          /\ CkRefs(W.ix, ckGit) /\ ckGit.branches[P.branch] = P.target
                /\ ckGit.points[P.seq] = P.target => CkRefs(new, ckGit)
      BY <1>1, <1>2, <1>4, <2>1, CkSettleCreate
    <3>2. ASSUME ~ckRaced PROVE CkRefs(new, ckGit)
      <4>1. P.target \notin RecordedCommits(W.ix)
        BY <1>2, <2>1 DEF CkIntentOk, CkToRecord
      <4>2. ckGit.branches[P.branch] = P.target /\ ckGit.points[P.seq] = P.target
        BY <1>0, <1>1, <1>2, <2>1, <3>2, <4>1 DEF CkStageRefs
      <4> QED BY <1>1, <3>1, <3>2, <4>2
    <3> QED BY <1>3, <2>1, <3>1, <3>2
  <2>2. CASE P.kind = "rollback"
    <3>1. /\ CkIndex(new, ckGit.objs) /\ new.pending = <<>>
          /\ CkRefs(W.ix, ckGit) => CkRefs(new, ckGit)
      BY <1>1, <1>2, <1>4, <2>2, CkSettleRollback
    <3> QED BY <1>1, <1>3, <2>2, <3>1
  <2>3. CASE P.kind = "merge"
    <3>1. /\ CkIndex(new, ckGit.objs) /\ new.pending = <<>>
          /\ DOMAIN new.branches = DOMAIN W.ix.branches
          /\ \A b \in DOMAIN W.ix.branches \ {P.archived} :
                new.branches[b] = W.ix.branches[b]
          /\ CkRefs(W.ix, ckGit) => CkRefs(new, ckGit)
      BY <1>1, <1>2, <1>3, <1>4, <2>3, CkSettleMerge
    <3> QED BY <1>1, <1>2, <1>3, <3>1
  <2> QED BY <1>2, <2>1, <2>2, <2>3
<1>6. new \in CkIndices /\ ckDisk' = <<new>>
      /\ ckRaced' = (ckRaced \/ (W.who = "dream" /\ ckLive # <<>>))
  BY <1>0, <1>4, <1>5 DEF WriteState, CkIndex, CkCore
<1>7. CASE P.kind = "rollback"
  <2>1. Continues(new)
    BY <1>0, <1>4, <1>7
  <2> QED BY <1>0, <1>1, <1>5, <1>6, <2>1, CkContinues
<1>8. CASE P.kind # "rollback"
  <2>1. PICK w : w = [W EXCEPT !.ix = new, !.stage = "evict"]
    OBVIOUS
  <2>2. ckWork' = <<w>> /\ ckLive' = ckLive
    BY <1>0, <1>4, <1>8, <2>1
  <2>3. /\ w \in CkWorks /\ w.who = W.who /\ w.tool = W.tool /\ w.ix = new
        /\ w.stage = "evict" /\ w.redo = W.redo /\ w.todo = W.todo
    BY <1>1, <1>6, <2>1 DEF CkWorks, CkStages
  <2>4. CkStageOk(w, ckTree', ckGit'.objs)
    BY <1>3, <1>5, <2>3 DEF CkStageOk
  <2>5. CkHistoryKept
    BY <1>0, CkHistorySame
  <2> QED BY <1>0, <1>1, <1>5, <1>6, <2>2, <2>3, <2>4, <2>5, CkMoves
<1> QED BY <1>7, <1>8

\* The refs of restore points that are in the index no more.
LEMMA CkEvictRefs == CkInvariant /\ EvictRefs => CkInvariant'
<1> SUFFICES ASSUME CkInvariant, EvictRefs PROVE CkInvariant'
  OBVIOUS
<1> DEFINE out == {r.seq : r \in W.ix.recs} \ W.ix.points
<1>0. /\ Busy /\ W.stage = "evict"
      /\ ckGit' = [ckGit EXCEPT !.points = [s \in Commits |-> IF s \in out THEN 0 ELSE @[s]]]
      /\ Continues(W.ix)
      /\ UNCHANGED <<ckTree, ckDisk, ckFaults, ckOutside, ckRaced>>
  BY DEF EvictRefs
<1>1. /\ W.ix \in CkIndices /\ ckGit \in CkGits
      /\ CkIndex(W.ix, ckGit.objs) /\ CkStageOk(W, ckTree, ckGit.objs)
      /\ ~ckRaced => CkRefs(W.ix, ckGit)
  BY <1>0, CkAtWork
<1>2. /\ W.ix.pending = <<>>
      /\ \A b \in W.todo : b \in DOMAIN W.ix.branches /\ W.ix.branches[b].status = "archived"
  BY <1>0, <1>1 DEF CkStageOk
<1>3. PICK pts : pts = [s \in Commits |-> IF s \in out THEN 0 ELSE ckGit.points[s]]
  OBVIOUS
<1>4. pts \in [Commits -> 0 .. MaxCommits]
  BY <1>1, <1>3, CkAssumption DEF CkGits
<1>5. /\ ckGit' \in CkGits /\ ckGit'.objs = ckGit.objs /\ ckGit'.points = pts
      /\ ckGit'.branches = ckGit.branches /\ ckGit'.pruned = ckGit.pruned
  <2>1. ckGit' = [ckGit EXCEPT !.points = pts]
    BY <1>0, <1>3
  <2> QED BY <1>1, <1>4, <2>1 DEF CkGits
<1>6. ASSUME ~ckRaced PROVE CkRefs(W.ix, ckGit')
  <2>1. CkRefsExact(W.ix, ckGit)
    BY <1>1, <1>2, <1>6, CkExactly
  <2>2. \A r \in W.ix.recs : r.seq \in W.ix.points => pts[r.seq] = ckGit.points[r.seq]
    BY <1>1, <1>3, CkFields
  <2>3. \A s \in Commits : s >= W.ix.next => pts[s] = 0
    BY <2>1, <1>3 DEF CkRefsExact
  <2>4. CkRefsExact(W.ix, ckGit')
    BY <2>1, <2>2, <2>3, <1>5 DEF CkRefsExact, CkLeft
  <2> QED BY <2>4, <1>2, CkExact
<1> HIDE DEF out
<1> QED BY <1>0, <1>1, <1>2, <1>5, <1>6, CkContinues

-----------------------------------------------------------------------------
(* The Dream. *)

\* A collected index leads to all its commits, so pruning takes none of them.
LEMMA CkPrunes ==
  ASSUME NEW new, NEW git \in CkGits, Len(git.objs) <= MaxCommits,
         CkIndex(new, git.objs), new.pending = <<>>, CkRefsExact(new, git),
         NEW g2, g2 = [git EXCEPT !.pruned =
                (1 .. Len(git.objs)) \ Reach(Referenced(git), CkHistory(git.objs))]
  PROVE  /\ g2 \in CkGits /\ g2.objs = git.objs /\ g2.pruned \subseteq 1 .. Len(git.objs)
         /\ CkRefs(new, g2)
<1>1. PICK lost : lost = (1 .. Len(git.objs)) \ Reach(Referenced(git), CkHistory(git.objs))
  OBVIOUS
<1>2. lost \subseteq 1 .. Len(git.objs) /\ lost \in SUBSET Commits
  <2>1. Len(git.objs) \in Nat /\ MaxCommits \in Nat
    BY CkAssumption DEF CkGits
  <2>2. 1 .. Len(git.objs) \subseteq Commits
    BY <2>1 DEF Commits
  <2> QED BY <1>1, <2>2
<1>3. /\ g2 \in CkGits /\ g2.objs = git.objs /\ g2.pruned = lost
      /\ g2.branches = git.branches /\ g2.points = git.points
  BY <1>1, <1>2 DEF CkGits
<1>4. CkRefs(new, git)
  BY CkExact
<1>5. RecordedCommits(new) \subseteq Reach(Referenced(git), CkHistory(git.objs))
  BY <1>4, CkReferenced
<1>6. RecordedCommits(new) \cap lost = {}
  BY <1>1, <1>5
<1>7. CkRefsExact(new, g2)
  BY <1>3, <1>6 DEF CkRefsExact, CkLeft
<1> QED BY <1>2, <1>3, <1>7, CkExact

\* A ref of a merged branch goes: the index does not say so yet, and needs it for no
\* commit it records.
LEMMA CkDeleteRef ==
  ASSUME CkInvariant, NEW b \in BranchIds, DeleteBranchRef(b) PROVE CkInvariant'
<1>0. /\ Busy /\ W.stage = "collect" /\ b \in Collectable(W.ix)
      /\ ckGit' = [ckGit EXCEPT !.branches[b] = 0]
      /\ ckWork' = <<[W EXCEPT !.todo = @ \cup {b}]>>
      /\ UNCHANGED <<ckTree, ckDisk, ckLive, ckFaults, ckOutside, ckRaced>>
  BY DEF DeleteBranchRef
<1>1. /\ W \in CkWorks /\ W.ix \in CkIndices
      /\ ckTree \in CkTrees /\ ckGit \in CkGits /\ Len(ckGit.objs) <= MaxCommits
      /\ ckGit.pruned \subseteq 1 .. Len(ckGit.objs)
      /\ CkIndex(W.ix, ckGit.objs) /\ CkStageOk(W, ckTree, ckGit.objs)
      /\ ~ckRaced => CkRefs(W.ix, ckGit)
  BY <1>0, CkAtWork
<1>2. W.ix.pending = <<>> /\ b \in DOMAIN W.ix.branches /\ W.ix.branches[b].status = "merged"
  BY <1>0, <1>1 DEF CkStageOk, Collectable
<1>3. PICK brs : brs = [ckGit.branches EXCEPT ![b] = 0]
  OBVIOUS
<1>4. /\ brs \in [BranchIds -> 0 .. MaxCommits] /\ brs[b] = 0
      /\ \A d \in BranchIds \ {b} : brs[d] = ckGit.branches[d]
  BY <1>1, <1>3, CkAssumption DEF CkGits
<1>5. /\ ckGit' \in CkGits /\ ckGit'.objs = ckGit.objs /\ ckGit'.points = ckGit.points
      /\ ckGit'.pruned = ckGit.pruned /\ ckGit'.branches = brs
  <2>1. ckGit' = [ckGit EXCEPT !.branches = brs]
    BY <1>0, <1>3
  <2> QED BY <2>1, <1>1, <1>4 DEF CkGits
<1>6. PICK todo : todo = W.todo \cup {b}
  OBVIOUS
<1>7. PICK w : w = [W EXCEPT !.todo = todo]
  OBVIOUS
<1>8. /\ w \in CkWorks /\ w.who = W.who /\ w.tool = W.tool /\ w.ix = W.ix
      /\ w.stage = W.stage /\ w.redo = W.redo /\ w.todo = todo
  <2>1. todo \in SUBSET BranchIds
    BY <1>1, <1>6, CkWorkFields
  <2> QED BY <1>1, <1>7, <2>1 DEF CkWorks
<1>9. ckWork' = <<w>>
  BY <1>0, <1>6, <1>7
<1>10. CkStageOk(w, ckTree', ckGit'.objs)
  BY <1>0, <1>1, <1>2, <1>5, <1>6, <1>8 DEF CkStageOk
<1>11. ASSUME ~ckRaced PROVE CkRefs(w.ix, ckGit')
  <2>1. CkRefsExact(W.ix, ckGit)
    BY <1>1, <1>2, <1>11, CkExactly
  <2>2. DOMAIN W.ix.branches \subseteq BranchIds
    <3>1. /\ Len(W.ix.branches) \in Nat /\ DOMAIN W.ix.branches = 1 .. Len(W.ix.branches)
          /\ Len(W.ix.branches) <= MaxBranches /\ MaxBranches \in Nat
      BY <1>1, CkFields, CkAssumption DEF CkIndex, CkCore, CkBranchesOk
    <3> QED BY <3>1 DEF BranchIds
  <2>3. \A d \in DOMAIN W.ix.branches :
            CkLeft(W.ix, ckGit', d) \/ ckGit'.branches[d] = W.ix.branches[d].head
    <3>1. CkLeft(W.ix, ckGit', b)
      BY <1>2, <1>4, <1>5 DEF CkLeft
    <3>2. ASSUME NEW d \in DOMAIN W.ix.branches, d # b
          PROVE  CkLeft(W.ix, ckGit', d) \/ ckGit'.branches[d] = W.ix.branches[d].head
      <4>1. ckGit'.branches[d] = ckGit.branches[d]
        BY <3>2, <2>2, <1>4, <1>5
      <4> QED BY <4>1, <3>2, <2>1 DEF CkRefsExact, CkLeft
    <3> QED BY <3>1, <3>2
  <2>4. CkRefsExact(W.ix, ckGit')
    BY <2>1, <2>3, <1>5 DEF CkRefsExact
  <2> QED BY <2>4, <1>2, <1>8, CkExact
<1>12. CkHistoryKept
  BY <1>5, CkHistorySame
<1> QED BY <1>0, <1>1, <1>2, <1>5, <1>8, <1>9, <1>10, <1>11, <1>12, CkMoves

\* The branches the Dream is to consider next.
LEMMA CkReady ==
  ASSUME NEW ix \in CkIndices, NEW objs, CkIndex(ix, objs)
  PROVE  /\ ReadyBranches(ix) \in SUBSET BranchIds
         /\ \A b \in ReadyBranches(ix) :
                b \in DOMAIN ix.branches /\ ix.branches[b].status = "archived"
<1>1. /\ Len(ix.branches) \in Nat /\ DOMAIN ix.branches = 1 .. Len(ix.branches)
      /\ Len(ix.branches) <= MaxBranches /\ MaxBranches \in Nat
  BY CkFields, CkAssumption DEF CkIndex, CkCore, CkBranchesOk
<1> QED BY <1>1 DEF ReadyBranches, BranchIds

\* The index says which refs are gone; without any there is nothing to write.
LEMMA CkCollectRefs == CkInvariant /\ CollectRefs => CkInvariant'
<1> SUFFICES ASSUME CkInvariant, CollectRefs PROVE CkInvariant'
  OBVIOUS
<1>0. /\ Busy /\ W.stage = "collect" /\ UNCHANGED <<ckTree, ckGit, ckLive, ckFaults, ckOutside>>
      /\ W.todo = {} =>
            /\ ckWork' = <<[W EXCEPT !.stage = "assess", !.todo = ReadyBranches(W.ix)]>>
            /\ UNCHANGED <<ckDisk, ckRaced>>
      /\ W.todo # {} =>
            /\ WriteState(MarkGone(W.ix, W.todo))
            /\ ckWork' = <<[W EXCEPT !.ix = MarkGone(W.ix, W.todo), !.stage = "prune",
                                     !.todo = {}]>>
  BY DEF CollectRefs
<1>1. /\ W \in CkWorks /\ W.ix \in CkIndices
      /\ ckTree \in CkTrees /\ ckGit \in CkGits /\ Len(ckGit.objs) <= MaxCommits
      /\ ckGit.objs \in Seq(CkObjects)
      /\ ckGit.pruned \subseteq 1 .. Len(ckGit.objs)
      /\ CkIndex(W.ix, ckGit.objs) /\ CkStageOk(W, ckTree, ckGit.objs)
      /\ ~ckRaced => CkRefs(W.ix, ckGit)
  BY <1>0, CkAtWork
<1>2. /\ W.ix.pending = <<>> /\ W.who = "dream" /\ W.tool = "dream" /\ ~W.redo
      /\ CkCore(W.ix, ckGit.objs)
      /\ \A b \in W.todo : b \in DOMAIN W.ix.branches /\ W.ix.branches[b].status = "merged"
  BY <1>0, <1>1 DEF CkStageOk, CkIndex
<1>3. CkHistoryKept
  BY <1>0, CkHistorySame
<1>4. CASE W.todo = {}
  <2>1. PICK ready : ready = ReadyBranches(W.ix)
    OBVIOUS
  <2>2. /\ ready \in SUBSET BranchIds
        /\ \A b \in ready : b \in DOMAIN W.ix.branches /\ W.ix.branches[b].status = "archived"
    BY <1>1, <2>1, CkReady
  <2>3. PICK w : w = [W EXCEPT !.stage = "assess", !.todo = ready]
    OBVIOUS
  <2>4. /\ w \in CkWorks /\ w.who = W.who /\ w.tool = W.tool /\ w.ix = W.ix
        /\ w.stage = "assess" /\ w.redo = W.redo /\ w.todo = ready
    BY <1>1, <2>2, <2>3 DEF CkWorks, CkStages
  <2>5. ckWork' = <<w>> /\ ckDisk' = ckDisk /\ ckRaced' = ckRaced
    BY <1>0, <1>4, <2>1, <2>3
  <2>6. CkStageOk(w, ckTree', ckGit'.objs)
    BY <1>2, <2>2, <2>4 DEF CkStageOk
  <2> QED BY <1>0, <1>1, <1>2, <1>3, <2>4, <2>5, <2>6, CkMoves
<1>5. CASE W.todo # {}
  <2>1. PICK due : due = W.todo
    OBVIOUS
  <2>2. PICK new : new = MarkGone(W.ix, due)
    OBVIOUS
  <2>3. /\ CkCore(new, ckGit.objs) /\ new.recs = W.ix.recs /\ new.points = W.ix.points
        /\ new.next = W.ix.next /\ new.pending = W.ix.pending /\ new.active = W.ix.active
        /\ DOMAIN new.branches = DOMAIN W.ix.branches
        /\ \A b \in DOMAIN W.ix.branches :
               /\ new.branches[b].head = W.ix.branches[b].head
               /\ new.branches[b].status = W.ix.branches[b].status
               /\ b \in due => new.branches[b].gone
               /\ b \notin due => new.branches[b].gone = W.ix.branches[b].gone
    <3>1. PICK ix, objs : ix = W.ix /\ objs = ckGit.objs
      OBVIOUS
    <3>2. /\ objs \in Seq(CkObjects) /\ CkCore(ix, objs) /\ new = MarkGone(ix, due)
          /\ \A b \in due : b \in DOMAIN ix.branches /\ ix.branches[b].status = "merged"
      BY <1>1, <1>2, <2>1, <2>2, <3>1
    <3>3. /\ CkCore(new, objs) /\ new.recs = ix.recs /\ new.points = ix.points
          /\ new.next = ix.next /\ new.pending = ix.pending /\ new.active = ix.active
          /\ DOMAIN new.branches = DOMAIN ix.branches
          /\ \A b \in DOMAIN ix.branches :
               /\ new.branches[b].head = ix.branches[b].head
               /\ new.branches[b].status = ix.branches[b].status
               /\ b \in due => new.branches[b].gone
               /\ b \notin due => new.branches[b].gone = ix.branches[b].gone
      BY <3>2, CkCollects
    <3> QED BY <3>1, <3>3
  <2>4. CkIndex(new, ckGit.objs) /\ new \in CkIndices /\ new.pending = <<>>
    BY <1>2, <2>3 DEF CkIndex, CkCore
  <2>5. PICK w : w = [W EXCEPT !.ix = new, !.stage = "prune", !.todo = {}]
    OBVIOUS
  <2>6. /\ w \in CkWorks /\ w.who = W.who /\ w.tool = W.tool /\ w.ix = new
        /\ w.stage = "prune" /\ w.redo = W.redo /\ w.todo = {}
    BY <1>1, <2>4, <2>5 DEF CkWorks, CkStages
  <2>7. ckWork' = <<w>> /\ WriteState(new)
    BY <1>0, <1>5, <2>1, <2>2, <2>5
  <2>8. ckDisk' = <<w.ix>> /\ ckRaced' = (ckRaced \/ (W.who = "dream" /\ ckLive # <<>>))
    BY <2>6, <2>7 DEF WriteState
  <2>9. CkStageOk(w, ckTree', ckGit'.objs)
    BY <1>2, <2>4, <2>6 DEF CkStageOk
  <2>10. ASSUME ~ckRaced PROVE CkRefs(w.ix, ckGit')
    <3>1. CkRefsExact(W.ix, ckGit)
      BY <1>1, <1>2, <2>10, CkExactly
    <3>2. \A b \in DOMAIN W.ix.branches :
            /\ new.branches[b].head = W.ix.branches[b].head
            /\ W.ix.branches[b].gone => new.branches[b].gone
            /\ W.ix.branches[b].status = "merged" => new.branches[b].status = "merged"
      BY <2>3
    <3>3. CkRefsExact(new, ckGit)
      BY <2>3, <3>1, <3>2, CkExactSame
    <3> QED BY <3>3, <1>0, <2>4, <2>6, CkExact
  <2> QED BY <1>0, <1>1, <1>3, <2>4, <2>6, <2>7, <2>8, <2>9, <2>10, CkMoves
<1> QED BY <1>4, <1>5

\* What no ref leads to is pruned: nothing the index records.
LEMMA CkPrune == CkInvariant /\ Prune => CkInvariant'
<1> SUFFICES ASSUME CkInvariant, Prune PROVE CkInvariant'
  OBVIOUS
<1>0. /\ Busy /\ W.stage = "prune" /\ ckGit' = Pruned(ckGit)
      /\ ckWork' = <<[W EXCEPT !.stage = "assess", !.todo = ReadyBranches(W.ix)]>>
      /\ UNCHANGED <<ckTree, ckDisk, ckLive, ckFaults, ckOutside, ckRaced>>
  BY DEF Prune
<1>1. /\ W \in CkWorks /\ W.ix \in CkIndices
      /\ ckTree \in CkTrees /\ ckGit \in CkGits /\ Len(ckGit.objs) <= MaxCommits
      /\ Len(ckGit.objs) \in Nat
      /\ CkIndex(W.ix, ckGit.objs) /\ CkStageOk(W, ckTree, ckGit.objs)
      /\ ~ckRaced => CkRefs(W.ix, ckGit)
  BY <1>0, CkAtWork
<1>2. W.ix.pending = <<>> /\ W.who = "dream" /\ W.tool = "dream" /\ ~W.redo
  BY <1>0, <1>1 DEF CkStageOk
<1>3. PICK g2 : g2 = ckGit'
  OBVIOUS
<1>4. g2 = [ckGit EXCEPT !.pruned =
            (1 .. Len(ckGit.objs)) \ Reach(Referenced(ckGit), CkHistory(ckGit.objs))]
  BY <1>0, <1>3 DEF Pruned, Ancestors, CkHistory
<1>5. PICK lost : lost = (1 .. Len(ckGit.objs)) \ Reach(Referenced(ckGit), CkHistory(ckGit.objs))
  OBVIOUS
<1>6. lost \subseteq 1 .. Len(ckGit.objs) /\ lost \in SUBSET Commits
  <2>1. 1 .. Len(ckGit.objs) \subseteq Commits
    BY <1>1, CkAssumption DEF Commits
  <2> QED BY <1>5, <2>1
<1>7. /\ ckGit' \in CkGits /\ ckGit'.objs = ckGit.objs
      /\ ckGit'.pruned \subseteq 1 .. Len(ckGit'.objs)
  <2>1. ckGit' = [ckGit EXCEPT !.pruned = lost]
    BY <1>3, <1>4, <1>5
  <2> QED BY <2>1, <1>1, <1>6 DEF CkGits
<1>8. ASSUME ~ckRaced PROVE CkRefs(W.ix, ckGit')
  <2>1. CkRefsExact(W.ix, ckGit)
    BY <1>1, <1>2, <1>8, CkExactly
  <2>2. CkRefs(W.ix, g2)
    BY <2>1, <1>1, <1>2, <1>4, CkPrunes
  <2> QED BY <2>2, <1>3
<1>9. PICK ready : ready = ReadyBranches(W.ix)
  OBVIOUS
<1>10. /\ ready \in SUBSET BranchIds
       /\ \A b \in ready : b \in DOMAIN W.ix.branches /\ W.ix.branches[b].status = "archived"
  BY <1>1, <1>9, CkReady
<1>11. PICK w : w = [W EXCEPT !.stage = "assess", !.todo = ready]
  OBVIOUS
<1>12. /\ w \in CkWorks /\ w.who = W.who /\ w.tool = W.tool /\ w.ix = W.ix
       /\ w.stage = "assess" /\ w.redo = W.redo /\ w.todo = ready
  BY <1>1, <1>10, <1>11 DEF CkWorks, CkStages
<1>13. ckWork' = <<w>>
  BY <1>0, <1>9, <1>11
<1>14. CkStageOk(w, ckTree', ckGit'.objs)
  BY <1>2, <1>10, <1>12 DEF CkStageOk
<1>15. CkHistoryKept
  BY <1>7, CkHistorySame
<1> QED BY <1>0, <1>1, <1>2, <1>7, <1>8, <1>12, <1>13, <1>14, <1>15, CkMoves

\* The branches of the list are considered in the order of archiving, the least first.
LEMMA CkLeast ==
  ASSUME NEW todo \in SUBSET Nat, todo # {} PROVE \E n \in todo : \A m \in todo : n <= m
<1>1. PICK below : below = {0 .. m : m \in todo}
  OBVIOUS
<1>2. below \subseteq FiniteSubsetsOf(Nat) /\ below # {}
  <2>1. \A m \in todo : IsFiniteSet(0 .. m) /\ 0 .. m \subseteq Nat
    BY FS_Interval
  <2> QED BY <1>1, <2>1 DEF FiniteSubsetsOf
<1>3. PICK x \in below : \A y \in below : <<y, x>> \notin StrictSubsetOrdering(Nat)
  BY <1>2, FS_StrictSubsetOrderingWellFounded, WFMin
<1>4. PICK n \in todo : x = 0 .. n
  BY <1>1, <1>3
<1>5. ASSUME NEW m \in todo PROVE n <= m
  <2>1. 0 .. m \in below
    BY <1>1
  <2>2. ~(0 .. m \subseteq 0 .. n /\ 0 .. m # 0 .. n)
    <3>1. 0 .. m \in SUBSET Nat /\ x \in SUBSET Nat
      BY <1>4
    <3> QED BY <1>3, <1>4, <2>1, <3>1 DEF StrictSubsetOrdering
  <2>3. ASSUME m < n PROVE FALSE
    <3>1. n \in 0 .. n /\ n \notin 0 .. m /\ 0 .. m \subseteq 0 .. n
      BY <2>3
    <3> QED BY <3>1, <2>2
  <2>4. m \in Nat /\ n \in Nat
    OBVIOUS
  <2> QED BY <2>3, <2>4
<1> QED BY <1>5
LEMMA CkNextBranch ==
  ASSUME NEW todo \in SUBSET BranchIds, todo # {} PROVE Min(todo) \in todo
<1>1. todo \in SUBSET Nat
  BY CkAssumption DEF BranchIds
<1>2. \E n \in todo : \A m \in todo : n <= m
  BY <1>1, CkLeast
<1> QED BY <1>2 DEF Min

\* The Dream marks the branch it considered, and its list goes on or ends.
LEMMA CkAssessMarks ==
  ASSUME CkInvariant, Busy, W.stage = "assess", NEW b \in W.todo, NEW br \in CkBranchRecords,
         br.head = W.ix.branches[b].head, br.gone = W.ix.branches[b].gone,
         br.status = "archived", NEW todo, todo \subseteq W.todo \ {b},
         WriteState(SetBranch(W.ix, b, br)),
         ckWork' = <<[W EXCEPT !.ix = SetBranch(W.ix, b, br), !.todo = todo]>>,
         UNCHANGED <<ckGit, ckTree, ckLive, ckFaults, ckOutside>>
  PROVE  CkInvariant'
<1>1. /\ ckWork = <<W>> /\ W \in CkWorks /\ W.ix \in CkIndices
      /\ ckTree \in CkTrees /\ ckGit \in CkGits /\ Len(ckGit.objs) <= MaxCommits
      /\ ckGit.objs \in Seq(CkObjects)
      /\ ckGit.pruned \subseteq 1 .. Len(ckGit.objs)
      /\ CkIndex(W.ix, ckGit.objs) /\ CkStageOk(W, ckTree, ckGit.objs)
      /\ ~ckRaced => CkRefs(W.ix, ckGit)
  BY CkAtWork
<1>2. /\ W.ix.pending = <<>> /\ W.who = "dream" /\ W.tool = "dream" /\ ~W.redo
      /\ \A d \in W.todo : d \in DOMAIN W.ix.branches /\ W.ix.branches[d].status = "archived"
  BY <1>1 DEF CkStageOk
<1>3. b \in DOMAIN W.ix.branches /\ b # W.ix.active
  BY <1>1, <1>2 DEF CkIndex, CkCore, CkBranchesOk
<1>4. PICK ix, new : ix = W.ix /\ new = SetBranch(W.ix, b, br)
  OBVIOUS
<1>5. /\ CkIndex(new, ckGit.objs) /\ new.pending = <<>> /\ new \in CkIndices
      /\ DOMAIN new.branches = DOMAIN ix.branches
      /\ \A d \in DOMAIN ix.branches \ {b} : new.branches[d] = ix.branches[d]
      /\ \A git : CkRefs(ix, git) => CkRefs(new, git)
  BY <1>1, <1>2, <1>3, <1>4, CkMarksIndex
<1>6. PICK w : w = [W EXCEPT !.ix = new, !.todo = todo]
  OBVIOUS
<1>7. todo \in SUBSET BranchIds /\ \A d \in todo : d \in W.todo /\ d # b
  BY <1>1, CkWorkFields
<1>8. /\ w \in CkWorks /\ w.who = W.who /\ w.tool = W.tool /\ w.ix = new
      /\ w.stage = W.stage /\ w.redo = W.redo /\ w.todo = todo
  BY <1>1, <1>5, <1>6, <1>7 DEF CkWorks
<1>9. ckWork' = <<w>> /\ ckDisk' = <<w.ix>>
      /\ ckRaced' = (ckRaced \/ (W.who = "dream" /\ ckLive # <<>>))
  BY <1>4, <1>6, <1>8 DEF WriteState
<1>10. \A d \in w.todo : d \in DOMAIN w.ix.branches /\ w.ix.branches[d].status = "archived"
  BY <1>2, <1>4, <1>5, <1>7, <1>8
<1>11. CkStageOk(w, ckTree', ckGit'.objs)
  BY <1>2, <1>5, <1>8, <1>10 DEF CkStageOk
<1>12. CkHistoryKept
  BY CkHistorySame
<1>13. /\ w.ix.pending = <<>> /\ CkIndex(w.ix, ckGit'.objs)
       /\ ~ckRaced => CkRefs(w.ix, ckGit')
  BY <1>1, <1>4, <1>5, <1>8
<1> QED BY <1>1, <1>8, <1>9, <1>11, <1>12, <1>13, CkMoves

\* The Dream commits a merge over the active head, and its intent is durable.
CkMerging(b, tree, p, with) ==
    /\ W.stage = "assess" /\ b \in W.todo /\ WorkspaceMatches(W.ix)
    /\ tree \in CkTrees /\ NewCommit \in Commits
    /\ ckGit' = Committed(tree, {ActiveHead(W.ix), W.ix.branches[b].head})
    /\ p = Intent("merge", W.ix, NewCommit, W.ix.next, 0, b, TRUE)
    /\ with = [W.ix EXCEPT !.pending = <<p>>]
    /\ WriteState(with)
    /\ ckWork' = <<[W EXCEPT !.ix = with, !.todo = W.todo \ {b}, !.stage = "point"]>>
    /\ UNCHANGED <<ckTree, ckLive, ckFaults, ckOutside>>
LEMMA CkAssessMerges ==
  ASSUME CkInvariant, Busy, NEW b, NEW tree, NEW p, NEW with, CkMerging(b, tree, p, with)
  PROVE  CkInvariant'
<1>0. /\ W.stage = "assess" /\ b \in W.todo /\ WorkspaceMatches(W.ix)
      /\ tree \in CkTrees /\ NewCommit \in Commits
      /\ ckGit' = Committed(tree, {ActiveHead(W.ix), W.ix.branches[b].head})
      /\ p = Intent("merge", W.ix, NewCommit, W.ix.next, 0, b, TRUE)
      /\ with = [W.ix EXCEPT !.pending = <<p>>]
      /\ WriteState(with)
      /\ ckWork' = <<[W EXCEPT !.ix = with, !.todo = W.todo \ {b}, !.stage = "point"]>>
      /\ UNCHANGED <<ckTree, ckLive, ckFaults, ckOutside>>
  BY DEF CkMerging
<1>1. /\ ckWork = <<W>> /\ W \in CkWorks /\ W.ix \in CkIndices
      /\ ckTree \in CkTrees /\ ckGit \in CkGits /\ Len(ckGit.objs) <= MaxCommits
      /\ ckGit.objs \in Seq(CkObjects) /\ Len(ckGit.objs) \in Nat
      /\ ckGit.pruned \subseteq 1 .. Len(ckGit.objs)
      /\ CkIndex(W.ix, ckGit.objs) /\ CkStageOk(W, ckTree, ckGit.objs)
      /\ ~ckRaced => CkRefs(W.ix, ckGit)
  BY CkAtWork
<1>2. /\ W.ix.pending = <<>> /\ W.who = "dream" /\ W.tool = "dream" /\ ~W.redo
      /\ \A d \in W.todo : d \in DOMAIN W.ix.branches /\ W.ix.branches[d].status = "archived"
  BY <1>0, <1>1 DEF CkStageOk
<1>3. PICK ix, git, git2, head : ix = W.ix /\ git = ckGit /\ git2 = ckGit' /\ head = ActiveHead(ix)
  OBVIOUS
<1>4. CkCore(ix, git.objs) /\ ix \in CkIndices /\ b \in DOMAIN ix.branches
      /\ ix.branches[b].status = "archived" /\ ix.pending = <<>>
  BY <1>0, <1>1, <1>2, <1>3 DEF CkIndex
<1>5. head \in RecordedCommits(ix) /\ head \in DOMAIN git.objs /\ head \in Commits /\ head # 0
  <2>1. head # 0
    BY <1>0, <1>3 DEF WorkspaceMatches
  <2> QED BY <2>1, <1>1, <1>3, <1>4, CkHeadExists, CkRecorded
<1>6. ckTree = git.objs[head].tree
  BY <1>0, <1>3 DEF WorkspaceMatches, TreeOf
<1>7. ix.branches[b].head \in 0 .. MaxCommits
  BY <1>4, CkFields DEF CkBranchRecords
<1>8. /\ git2 \in CkGits /\ Len(git2.objs) = Len(git.objs) + 1
      /\ Len(git2.objs) = NewCommit /\ Len(git2.objs) <= MaxCommits
      /\ git2.pruned \subseteq 1 .. Len(git2.objs)
      /\ git2.points = git.points /\ git2.branches = git.branches
      /\ git2.pruned = git.pruned /\ NewCommit \notin git.pruned
      /\ git2.objs[NewCommit].parents = {head, ix.branches[b].head} \ {0}
      /\ \A c \in DOMAIN git.objs : git2.objs[c] = git.objs[c]
      /\ CkCore(ix, git2.objs) /\ CkHistoryKept
  <2>1. PICK parents : parents = {head, ix.branches[b].head}
    OBVIOUS
  <2>2. parents \subseteq Commits \cup {0} /\ ckGit' = Committed(tree, parents)
    BY <1>0, <1>3, <1>5, <1>7, <2>1, CkAssumption DEF Commits
  <2> QED BY <1>0, <1>1, <1>3, <1>4, <2>1, <2>2, CkCommits
<1>9. /\ p.kind = "merge" /\ p.branch = ix.active /\ p.old = head
      /\ p.target = NewCommit /\ p.seq = ix.next /\ p.archived = b
  BY <1>0, <1>3 DEF Intent
<1>10. p \in CkIntents
  <2>1. ix.active \in BranchIds /\ ix.next \in 1 .. MaxCommits + 1 /\ b \in BranchIds
    BY <1>0, <1>1, <1>4, CkFields, CkWorkFields
  <2>2. ix.next <= Len(git.objs) + 1 /\ NewCommit = Len(git.objs) + 1
    BY <1>3, <1>4 DEF CkCore, CkCommitsOk, NewCommit
  <2>3. ix.next \in 0 .. MaxCommits
    BY <1>0, <1>1, <1>3, <2>1, <2>2, CkAssumption DEF Commits
  <2>4. head \in 0 .. MaxCommits /\ 0 \in 0 .. MaxBranches /\ b \in 0 .. MaxBranches
    BY <1>5, <2>1, CkAssumption DEF Commits, BranchIds
  <2> QED BY <1>0, <1>3, <2>1, <2>3, <2>4 DEF Intent, CkIntents
<1>11. CkIntending(ix, p, git, git2)
  BY <1>4, <1>5, <1>8, <1>9, <1>3 DEF CkIntending
<1>12. /\ CkIndex(with, git2.objs) /\ with \in CkIndices
       /\ with.pending[1] = p /\ with.pending # <<>> /\ with.branches = ix.branches
       /\ CkRefs(ix, git) => CkRefs(with, git2)
  <2>1. git \in CkGits /\ with = [ix EXCEPT !.pending = <<p>>]
    BY <1>0, <1>1, <1>3
  <2> QED BY <2>1, <1>4, <1>8, <1>10, <1>11, CkIntendsCommit
<1>13. PICK rest : rest = W.todo \ {b}
  OBVIOUS
<1>14. rest \in SUBSET BranchIds /\ b \notin rest /\ rest \subseteq W.todo
  BY <1>1, <1>13, CkWorkFields
<1>15. PICK w : w = [W EXCEPT !.ix = with, !.todo = rest, !.stage = "point"]
  OBVIOUS
<1>16. /\ w \in CkWorks /\ w.who = W.who /\ w.tool = W.tool /\ w.ix = with
       /\ w.stage = "point" /\ w.redo = W.redo /\ w.todo = rest
  BY <1>1, <1>12, <1>14, <1>15 DEF CkWorks, CkStages
<1>17. ckWork' = <<w>> /\ ckDisk' = <<w.ix>>
       /\ ckRaced' = (ckRaced \/ (W.who = "dream" /\ ckLive # <<>>))
  BY <1>0, <1>13, <1>15, <1>16 DEF WriteState
<1>18. \A d \in w.todo : d \in DOMAIN w.ix.branches /\ w.ix.branches[d].status = "archived"
  BY <1>2, <1>3, <1>12, <1>14, <1>16
<1>19. ckTree' = git2.objs[p.old].tree
  BY <1>0, <1>5, <1>6, <1>8, <1>9
<1>20. CkStageOk(w, ckTree', git2.objs)
  BY <1>2, <1>9, <1>12, <1>14, <1>16, <1>18, <1>19 DEF CkStageOk
<1>21. CkStageRefs(w, git2)
  BY <1>2, <1>9, <1>12, <1>16 DEF CkStageRefs
<1>22. ckTree' \in CkTrees /\ (~ckRaced => CkRefs(w.ix, ckGit'))
  BY <1>0, <1>1, <1>3, <1>12, <1>16
<1> QED BY <1>0, <1>3, <1>8, <1>12, <1>16, <1>17, <1>20, <1>21, <1>22, CkMoves

\* The next branch in the order of archiving is marked or merged.
LEMMA CkAssess ==
  ASSUME CkInvariant, NEW answer \in {"MERGE", "SKIP", "REVIEW", "unavailable"}, Assess(answer)
  PROVE  CkInvariant'
<1> DEFINE b      == Min(W.todo)
           br     == W.ix.branches[b]
           merged == MergeTrees(TreeOf(br.fork), TreeOf(ActiveHead(W.ix)), TreeOf(br.head))
           matches == WorkspaceMatches(W.ix)
           p      == Intent("merge", W.ix, NewCommit, W.ix.next, 0, b, TRUE)
           with   == [W.ix EXCEPT !.pending = <<p>>]
           marks(new, todo) ==
                /\ WriteState(SetBranch(W.ix, b, new))
                /\ ckWork' = <<[W EXCEPT !.ix = SetBranch(W.ix, b, new), !.todo = todo]>>
                /\ UNCHANGED ckGit
           merges ==
                /\ NewCommit \in Commits
                /\ ckGit' = Committed(CHOOSE t \in merged : TRUE, {ActiveHead(W.ix), br.head})
                /\ WriteState(with)
                /\ ckWork' = <<[W EXCEPT !.ix = with, !.todo = W.todo \ {b}, !.stage = "point"]>>
           blocks == answer = "REVIEW" \/ (answer = "MERGE" /\ merged = {})
<1>0. /\ Busy /\ W.stage = "assess" /\ W.todo # {}
      /\ UNCHANGED <<ckTree, ckLive, ckFaults, ckOutside>>
      /\ CASE ~matches \/ answer = "unavailable" ->
                   marks([br EXCEPT !.merge = "deferred"], W.todo \ {b})
           [] matches /\ answer = "SKIP" ->
                   marks([br EXCEPT !.eligible = FALSE, !.merge = "none"], W.todo \ {b})
           [] matches /\ blocks -> marks([br EXCEPT !.merge = "blocked"], {})
           [] OTHER -> merges
  BY DEF Assess
<1>1. /\ W \in CkWorks /\ W.ix \in CkIndices /\ CkStageOk(W, ckTree, ckGit.objs)
  BY <1>0, CkAtWork
<1>2. b \in W.todo
  BY <1>0, <1>1, CkNextBranch, CkWorkFields
<1>3. b \in DOMAIN W.ix.branches /\ br.status = "archived" /\ br \in CkBranchRecords
  BY <1>0, <1>1, <1>2, CkFields DEF CkStageOk
<1>4. PICK b0, br0 : b0 = b /\ br0 = br
  OBVIOUS
<1> HIDE DEF b, br, marks, merges, matches, merged, p, with
<1>5. \A new, todo : marks(new, todo) <=>
                /\ WriteState(SetBranch(W.ix, b0, new))
                /\ ckWork' = <<[W EXCEPT !.ix = SetBranch(W.ix, b0, new), !.todo = todo]>>
                /\ UNCHANGED ckGit
  BY <1>4 DEF marks
<1>6. \/ marks([br EXCEPT !.merge = "deferred"], W.todo \ {b})
      \/ marks([br EXCEPT !.eligible = FALSE, !.merge = "none"], W.todo \ {b})
      \/ marks([br EXCEPT !.merge = "blocked"], {})
      \/ matches /\ merged # {} /\ merges
  <2>1. CASE ~matches \/ answer = "unavailable"
    BY <1>0, <2>1
  <2>2. CASE matches /\ answer = "SKIP"
    BY <1>0, <2>2
  <2>3. CASE matches /\ blocks
    BY <1>0, <2>3
  <2>4. CASE matches /\ answer = "MERGE" /\ merged # {}
    <3>1. ~(~matches \/ answer = "unavailable") /\ ~(matches /\ answer = "SKIP")
          /\ ~(matches /\ blocks)
      BY <2>4
    <3> QED BY <1>0, <2>4, <3>1
  <2> QED BY <2>1, <2>2, <2>3, <2>4
<1>7. ASSUME NEW new \in CkBranchRecords, new.head = br0.head, new.gone = br0.gone,
             new.status = "archived", NEW todo, todo \subseteq W.todo \ {b0},
             marks(new, todo)
      PROVE  CkInvariant'
  <2>1. /\ WriteState(SetBranch(W.ix, b0, new)) /\ UNCHANGED ckGit
        /\ ckWork' = <<[W EXCEPT !.ix = SetBranch(W.ix, b0, new), !.todo = todo]>>
    BY <1>5, <1>7
  <2>2. b0 \in W.todo /\ new.head = W.ix.branches[b0].head /\ new.gone = W.ix.branches[b0].gone
    BY <1>2, <1>4, <1>7 DEF br
  <2> QED BY <1>0, <1>7, <2>1, <2>2, CkAssessMarks
<1>8. CASE marks([br EXCEPT !.merge = "deferred"], W.todo \ {b})
  <2>1. PICK new : new = [br0 EXCEPT !.merge = "deferred"]
    OBVIOUS
  <2>2. /\ new \in CkBranchRecords /\ new.head = br0.head /\ new.gone = br0.gone
        /\ new.status = "archived"
    BY <1>3, <1>4, <2>1 DEF CkBranchRecords
  <2>3. marks(new, W.todo \ {b0})
    BY <1>4, <1>8, <2>1
  <2> QED BY <1>7, <2>2, <2>3
<1>9. CASE marks([br EXCEPT !.eligible = FALSE, !.merge = "none"], W.todo \ {b})
  <2>1. PICK new : new = [br0 EXCEPT !.eligible = FALSE, !.merge = "none"]
    OBVIOUS
  <2>2. /\ new \in CkBranchRecords /\ new.head = br0.head /\ new.gone = br0.gone
        /\ new.status = "archived"
    BY <1>3, <1>4, <2>1 DEF CkBranchRecords
  <2>3. marks(new, W.todo \ {b0})
    BY <1>4, <1>9, <2>1
  <2> QED BY <1>7, <2>2, <2>3
<1>10. CASE marks([br EXCEPT !.merge = "blocked"], {})
  <2>1. PICK new : new = [br0 EXCEPT !.merge = "blocked"]
    OBVIOUS
  <2>2. /\ new \in CkBranchRecords /\ new.head = br0.head /\ new.gone = br0.gone
        /\ new.status = "archived"
    BY <1>3, <1>4, <2>1 DEF CkBranchRecords
  <2>3. marks(new, {})
    BY <1>4, <1>10, <2>1
  <2> QED BY <1>7, <2>2, <2>3
<1>11. CASE matches /\ merged # {} /\ merges
  <2>1. PICK tree : tree = CHOOSE t \in merged : TRUE
    OBVIOUS
  <2>2. tree \in merged /\ merged \subseteq CkTrees
    BY <1>11, <2>1 DEF merged, MergeTrees
  <2>3. PICK p0, with0 : p0 = p /\ with0 = with
    OBVIOUS
  <2>4. /\ p0 = Intent("merge", W.ix, NewCommit, W.ix.next, 0, b0, TRUE)
        /\ with0 = [W.ix EXCEPT !.pending = <<p0>>]
    BY <1>4, <2>3 DEF p, with
  <2>5. /\ NewCommit \in Commits
        /\ ckGit' = Committed(tree, {ActiveHead(W.ix), W.ix.branches[b0].head})
        /\ WriteState(with0)
        /\ ckWork' = <<[W EXCEPT !.ix = with0, !.todo = W.todo \ {b0}, !.stage = "point"]>>
    BY <1>4, <1>11, <2>1, <2>3 DEF merges, br
  <2>6. WorkspaceMatches(W.ix) /\ b0 \in W.todo /\ tree \in CkTrees
    BY <1>2, <1>4, <1>11, <2>2 DEF matches
  <2>7. CkMerging(b0, tree, p0, with0)
    BY <1>0, <2>4, <2>5, <2>6 DEF CkMerging
  <2> QED BY <1>0, <2>7, CkAssessMerges
<1> QED BY <1>6, <1>8, <1>9, <1>10, <1>11

-----------------------------------------------------------------------------
(* The invariant and what follows from it. *)

\* The initial state.
LEMMA CkInitial == CkInit => CkInvariant
<1> SUFFICES ASSUME CkInit PROVE CkInvariant
  OBVIOUS
<1>0. /\ ckTree = [f \in CkFiles |-> CHOOSE v \in CkValues : TRUE]
      /\ ckGit = [objs |-> <<>>, points |-> [s \in Commits |-> 0],
                  branches |-> [b \in BranchIds |-> 0], pruned |-> {}]
      /\ ckDisk = <<>> /\ ckLive = <<>> /\ ckWork = <<>>
      /\ ckFaults = 0 /\ ckOutside = 0 /\ ckRaced = FALSE
  BY DEF CkInit
<1>1. CkBounded
  BY <1>0, CkAssumption DEF CkBounded
<1>2. ckTree \in CkTrees
  <2>1. (CHOOSE v \in CkValues : TRUE) \in CkValues
    BY CkAssumption
  <2> QED BY <1>0, <2>1 DEF CkTrees
<1>3. /\ ckGit.objs = <<>> /\ ckGit.pruned = {}
      /\ ckGit.points = [s \in Commits |-> 0] /\ ckGit.branches = [b \in BranchIds |-> 0]
  BY <1>0
<1>4. ckGit \in CkGits
  <2>1. /\ [s \in Commits |-> 0] \in [Commits -> 0 .. MaxCommits]
        /\ [b \in BranchIds |-> 0] \in [BranchIds -> 0 .. MaxCommits]
    BY CkAssumption
  <2>2. <<>> \in Seq(CkObjects) /\ {} \in SUBSET Commits
    OBVIOUS
  <2> QED BY <1>0, <2>1, <2>2 DEF CkGits
<1>5. CkTypedAt(ckTree, ckGit, ckDisk, ckLive, ckWork, ckRaced)
  <2>1. Len(ckGit.objs) <= MaxCommits /\ ckGit.pruned \subseteq 1 .. Len(ckGit.objs)
    BY <1>3, CkAssumption
  <2> QED BY <1>0, <1>2, <1>4, <2>1 DEF CkTypedAt, CkOptional
<1>6. CkIndexedAt(ckTree, ckGit.objs, ckDisk, ckLive, ckWork)
  BY <1>0 DEF CkIndexedAt
<1>7. PICK ix, nb : ix = FreshIndex /\ nb = NewBranch(0, 0)
  OBVIOUS
<1>8. /\ ix.recs = {} /\ ix.branches = <<nb>> /\ ix.next = 1 /\ ix.pending = <<>>
      /\ nb.head = 0
  BY <1>7 DEF FreshIndex, NewBranch
<1>9. CkRefsExact(ix, ckGit)
  <2>1. RecordedCommits(ix) = {}
    BY <1>8 DEF RecordedCommits
  <2>2. \A b \in DOMAIN ix.branches : ckGit.branches[b] = ix.branches[b].head
    <3>1. DOMAIN ix.branches = {1} /\ ix.branches[1] = nb
      BY <1>8
    <3>2. 1 \in BranchIds
      BY CkAssumption DEF BranchIds
    <3> QED BY <1>3, <1>8, <3>1, <3>2
  <2> QED BY <1>3, <1>8, <2>1, <2>2 DEF CkRefsExact
<1>10. CkTiedAt(ckGit, ckDisk, ckLive, ckWork)
  <2>1. CkRefs(FreshIndex, ckGit)
    BY <1>7, <1>8, <1>9, CkExact
  <2> QED BY <1>0, <2>1 DEF CkTiedAt, CkAgreed
<1> QED BY <1>1, <1>5, <1>6, <1>10 DEF CkInvariant

\* Every step keeps the invariant.
LEMMA CkStep == CkInvariant /\ [CkNext]_ckVars => CkInvariant'
<1>1. CkInvariant /\ UNCHANGED ckVars => CkInvariant'
  BY DEF ckVars, CkInvariant, CkBounded
<1> SUFFICES ASSUME CkInvariant, CkNext PROVE CkInvariant'
  BY <1>1
<1>2. ASSUME \/ TraceStart \/ TraceEnd \/ Validate \/ Create
             \/ PointRef \/ BranchRef \/ SwitchIndex \/ RestoreFiles \/ Settle \/ EvictRefs
             \/ DreamStart \/ DreamEnds \/ GitFails \/ CkDies
      PROVE  CkInvariant'
  BY <1>2, CkTraceStart, CkTraceEnd, CkValidate, CkCreate, CkPointRef, CkBranchRef,
     CkSwitchIndex, CkRestoreFiles, CkSettle, CkEvictRefs, CkDreamStart, CkDreamEnd,
     CkGitFails, CkDie
<1>3. ASSUME NEW t \in CkTrees, ChangeFiles(t) \/ OutsideChange(t) PROVE CkInvariant'
  BY <1>3, CkChangeFiles, CkOutsideChange
<1>4. ASSUME NEW c \in Commits, NEW e \in BOOLEAN, Rollback(c, e) PROVE CkInvariant'
  BY <1>4, CkRollback
<1>5. ASSUME NEW b \in BranchIds, NEW e \in BOOLEAN, SetEligibility(b, e) PROVE CkInvariant'
  BY <1>5, CkSetEligibility
<1>6. ASSUME NEW b \in BranchIds, DeleteBranchRef(b) PROVE CkInvariant'
  BY <1>6, CkDeleteRef
<1>61. CASE CollectRefs \/ Prune
  BY <1>61, CkCollectRefs, CkPrune
<1>7. ASSUME NEW a \in {"MERGE", "SKIP", "REVIEW", "unavailable"}, Assess(a) PROVE CkInvariant'
  BY <1>7, CkAssess
<1> QED BY <1>2, <1>3, <1>4, <1>5, <1>6, <1>61, <1>7 DEF CkNext

\* The index, the refs and the loaded store, whatever died or failed on the way.
LEMMA CkSound == CkInvariant => CheckpointsSound
<1> SUFFICES ASSUME CkInvariant PROVE CheckpointsSound
  OBVIOUS
<1>1. CkBounded /\ CkTypedAt(ckTree, ckGit, ckDisk, ckLive, ckWork, ckRaced)
  BY DEF CkInvariant
<1>2. CkTypeOK
  BY <1>1 DEF CkBounded, CkTypedAt, CkGits, CkTypeOK
<1>3. ASSUME ckDisk # <<>>, ~Busy, ~ckRaced, NEW ix, ix = ckDisk[1]
      PROVE  /\ RecordedCommits(ix) \subseteq Ancestors(Referenced(ckGit)) \ ckGit.pruned
             /\ \A b \in DOMAIN ix.branches : RefExplained(ix, b) \/ CollectionCutShort(ix, b)
             /\ \A r \in ix.recs : r.seq \in ix.points => ckGit.points[r.seq] = r.commit
             /\ ckLive \in {<<>>, ckDisk}
  <2>1. /\ ckGit \in CkGits /\ Len(ckGit.objs) <= MaxCommits /\ CkIndex(ix, ckGit.objs)
        /\ ckLive \in {<<>>, ckDisk} /\ CkRefs(OpenedIndex, ckGit)
    BY <1>3, CkIdle
  <2>2. CkRefs(ix, ckGit)
    BY <1>3, <2>1 DEF OpenedIndex
  <2>3. RecordedCommits(ix) \subseteq Ancestors(Referenced(ckGit))
    BY <2>1, <2>2, CkReferenced DEF Ancestors, CkHistory
  <2>4. RecordedCommits(ix) \cap ckGit.pruned = {}
    BY <2>2 DEF CkRefs
  <2>5. \A b \in DOMAIN ix.branches : RefExplained(ix, b) \/ CollectionCutShort(ix, b)
    BY <2>2 DEF CkRefs, CkLeft, RefExplained, CollectionCutShort
  <2>6. \A r \in ix.recs : r.seq \in ix.points => ckGit.points[r.seq] = r.commit
    BY <2>2 DEF CkRefs
  <2> QED BY <2>1, <2>3, <2>4, <2>5, <2>6
<1> QED BY <1>2, <1>3 DEF CheckpointsSound, StoreReopens

\* Whatever died or failed on the way, the next open() of the store succeeds up to the
\* workspace: no recorded commit is pruned, every ref is one the index or its intent
\* explains, and an open Trace holds the index that is on disk (checkpoint.py: open,
\* _validate_refs, _recover_pending_mutation), for any number of files, commits,
\* branches, deaths and changes from outside.
THEOREM CheckpointsAlwaysSound == CkSpec => []CheckpointsSound
<1> USE DEF CkSpec
<1> HIDE DEF CkInvariant
<1> QED BY CkInitial, CkStep, CkSound, PTL

\* What replaces the files of the workspace in a recovery or in a merge of the Dream.
CkReplaces == Busy /\ W.stage = "restore" /\ ckTree' # ckTree /\ (W.redo \/ P.kind = "merge")
LEMMA CkReplacesRecorded ==
  ASSUME CkInvariant, CkNext, CkReplaces
  PROVE  \E c \in RecordedCommits(W.ix) : TreeOf(c) = ckTree
<1>0. Busy /\ W.stage = "restore" /\ ckTree' # ckTree /\ (W.redo \/ P.kind = "merge")
  BY DEF CkReplaces
<1>1. CkStageOk(W, ckTree, ckGit.objs) /\ W \in CkWorks
  BY <1>0, CkAtWork
<1>2. /\ W.ix.pending # <<>> /\ P = W.ix.pending[1]
      /\ CkIntentOk(W.ix, P, ckGit.objs) /\ P.kind \in {"create", "rollback", "merge"}
  BY <1>0, CkMutation
<1>3. /\ W.redo \in BOOLEAN /\ W.tool \in {"start", "change", "rollback", "dream"}
      /\ P.kind \in {"rollback", "merge"}
      /\ ~W.redo /\ W.tool \in {"start", "change"} => P.kind = "create"
      /\ W.tool \in {"change", "rollback"} => ~W.redo
      /\ P.kind = "merge" => P.target \in RecordedCommits(W.ix)
      /\ P.kind = "merge" /\ ~W.redo => ckTree = TreeOf(P.old)
  BY <1>0, <1>1, <1>2, CkWorkFields DEF CkStageOk, TreeOf
<1>4. P.target \in RecordedCommits(W.ix) /\ P.old \in RecordedCommits(W.ix)
  BY <1>2, <1>3 DEF CkIntentOk
<1>5. ~Raises
  <2>1. ASSUME Raises PROVE ckTree' = ckTree
    <3>1. W.tool # "change"
      BY <1>3
    <3>2. CASE W.tool = "start"
      BY <2>1, <3>2 DEF Raises
    <3>3. CASE W.tool = "rollback"
      BY <2>1, <3>3 DEF Raises
    <3>4. CASE W.tool = "dream"
      BY <2>1, <3>4 DEF Raises
    <3> QED BY <1>3, <3>1, <3>2, <3>3, <3>4
  <2> QED BY <1>0, <2>1
<1>6. RestoreFiles
  <2>1. ~(TraceStart \/ TraceEnd \/ DreamStart)
    BY <1>0 DEF TraceStart, TraceEnd, DreamStart, Opening
  <2>2. ~(Validate \/ Create \/ PointRef \/ BranchRef \/ SwitchIndex)
    BY <1>0 DEF Validate, Create, PointRef, BranchRef, SwitchIndex
  <2>3. ~(Settle \/ EvictRefs \/ DreamEnds)
    BY <1>0 DEF Settle, EvictRefs, DreamEnds
  <2>4. ~GitFails /\ ~CkDies
    BY <1>0, <1>5 DEF GitFails, CkDies
  <2>5. \A t \in CkTrees : ~(ChangeFiles(t) \/ OutsideChange(t))
    BY <1>0 DEF ChangeFiles, OutsideChange
  <2>6. \A c \in Commits, e \in BOOLEAN : ~Rollback(c, e)
    BY <1>0 DEF Rollback
  <2>7. \A b \in BranchIds, e \in BOOLEAN : ~SetEligibility(b, e)
    BY <1>0 DEF SetEligibility
  <2>8. ~(CollectRefs \/ Prune) /\ \A b \in BranchIds : ~DeleteBranchRef(b)
    BY <1>0 DEF CollectRefs, Prune, DeleteBranchRef
  <2>9. \A a \in {"MERGE", "SKIP", "REVIEW", "unavailable"} : ~Assess(a)
    BY <1>0 DEF Assess
  <2> QED BY <2>1, <2>2, <2>3, <2>4, <2>5, <2>6, <2>7, <2>8, <2>9 DEF CkNext
<1>7. W.redo => ckTree \in {TreeOf(P.old), TreeOf(P.target)}
  BY <1>5, <1>6 DEF RestoreFiles, FinishRecoveredWorkspace
<1>8. ckTree \in {TreeOf(P.old), TreeOf(P.target)}
  BY <1>0, <1>3, <1>7
<1> QED BY <1>4, <1>8

\* The recovery of a mutation and a merge of the Dream replace the workspace only when it
\* is that of a recorded commit (_finish_recovered_workspace, workspace_matches_active).
THEOREM UnrecordedWorkIsKept == CkSpec => UnrecordedWorkKept
<1>1. CkInvariant /\ [CkNext]_ckVars
        => [(Busy /\ W.stage = "restore" /\ ckTree' # ckTree /\ (W.redo \/ P.kind = "merge"))
              => \E c \in RecordedCommits(W.ix) : TreeOf(c) = ckTree]_ckVars
  BY CkReplacesRecorded DEF CkReplaces
<1> HIDE DEF CkInvariant
<1> QED BY CkInitial, CkStep, <1>1, PTL DEF CkSpec, UnrecordedWorkKept
=============================================================================
