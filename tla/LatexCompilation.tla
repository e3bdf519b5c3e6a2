-------------------------- MODULE LatexCompilation --------------------------
(***************************************************************************)
(* LaTeX compilations: a workload the Gateway drives itself, outside the   *)
(* Runtime pool (gateway/application.py, gateway/latex.py).  One           *)
(* compilation spreads over four places that are written one after the     *)
(* other: the Run, its Operation Attempt, the latex_compilations record    *)
(* the client polls, and the files (a staging directory with a sandbox,    *)
(* then the artifacts).  The client may cancel, and the Gateway may stop   *)
(* or die, in between.                                                     *)
(***************************************************************************)
EXTENDS Naturals, FiniteSets

CONSTANTS
    LxJobs,         \* compilations of one project
    MaxLxFaults,    \* bound: steps that raise
    MaxLxDeaths     \* bound: deaths of the Gateway

VARIABLES
    lxPc,           \* where the driver of a compilation is
    lxEnd,          \* how it is ending
    lxRun,          \* task_state of its Run
    lxTarget,       \* terminal_target of that Run
    lxAttempt,      \* status of its one Attempt
    lxRecord,       \* status of its latex_compilations row
    lxRoot,         \* artifact_root of that row is set
    lxStage,        \* its staging directory and sandbox exist
    lxFiles,        \* its artifact directory
    lxUntold,       \* history: a write of its driver to the database raised
                    \* once the record was there
    lxRevision,     \* last sequence of the workspace stream
    lxSeen,         \* the revision the client read with the tree
    lxUp,           \* the Gateway runs
    lxFaults, lxDeaths

lxVars == << lxPc, lxEnd, lxRun, lxTarget, lxAttempt, lxRecord, lxRoot, lxStage, lxFiles, lxUntold, lxRevision, lxSeen, lxUp, lxFaults, lxDeaths >>
lxDisk == << lxStage, lxFiles >>
lxHistory == << lxEnd, lxUntold >>
lxFacts == << lxRun, lxTarget, lxAttempt, lxRecord, lxRoot, lxDisk >>
lxStream == << lxRevision, lxSeen >>
lxBounds == << lxFaults, lxDeaths >>

LxPcs == {"none", "prepared", "begun", "started", "recording", "refuse", "spawned",
          "compile", "discard", "settle", "record", "told", "finish", "lost", "over"}

(* completed, failed and cancelled are what execute() found; raised is any *)
(* other exception, unclean and cut a discard() that raised or was         *)
(* cancelled, refused a request and unstarted a task that raised.          *)
LxEnds == {"none", "completed", "failed", "raised", "unclean", "cancelled", "cut", "refused", "unstarted"}

LxTypeOK ==
    /\ lxPc \in [LxJobs -> LxPcs] /\ lxEnd \in [LxJobs -> LxEnds]
    /\ lxRun \in [LxJobs -> {"none", "running", "finalizing", "recovery_required", "succeeded", "failed", "cancelled"}]
    /\ lxTarget \in [LxJobs -> {"none", "succeeded", "failed", "cancelled"}]
    /\ lxAttempt \in [LxJobs -> {"none", "running", "completed", "failed", "abandoned"}]
    /\ lxRecord \in [LxJobs -> {"none", "queued", "running", "completed", "failed", "cancelled", "interrupted"}]
    /\ lxRoot \in [LxJobs -> BOOLEAN] /\ lxStage \in [LxJobs -> BOOLEAN]
    /\ lxFiles \in [LxJobs -> SUBSET {"log", "pdf"}]
    /\ lxUntold \in [LxJobs -> BOOLEAN]
    /\ lxRevision \in Nat /\ lxSeen \in Nat
    /\ lxUp \in BOOLEAN

LxInit ==
    /\ lxPc = [c \in LxJobs |-> "none"] /\ lxEnd = [c \in LxJobs |-> "none"]
    /\ lxRun = [c \in LxJobs |-> "none"] /\ lxTarget = [c \in LxJobs |-> "none"]
    /\ lxAttempt = [c \in LxJobs |-> "none"] /\ lxRecord = [c \in LxJobs |-> "none"]
    /\ lxRoot = [c \in LxJobs |-> FALSE] /\ lxStage = [c \in LxJobs |-> FALSE]
    /\ lxFiles = [c \in LxJobs |-> {}] /\ lxUntold = [c \in LxJobs |-> FALSE]
    /\ lxRevision = 0 /\ lxSeen = 0 /\ lxUp = TRUE
    /\ lxFaults = 0 /\ lxDeaths = 0

At(c, pc) == lxUp /\ lxPc[c] = pc
Goes(c, pc) == lxPc' = [lxPc EXCEPT ![c] = pc]

\* record_project_stream_event: the workspace stream grows by one.
WorkspaceEvent == lxRevision' = lxRevision + 1 /\ UNCHANGED lxSeen

\* The row is inserted as queued and then rewritten with each status.
RecordIs(c, status) == lxRecord' = [lxRecord EXCEPT ![c] = status]

\* A Run goes from RUNNING to FINALIZING once; the finalizer then ends it.
BeginFinish(c, target) ==
    /\ lxRun[c] = "running"
    /\ lxRun' = [lxRun EXCEPT ![c] = "finalizing"]
    /\ lxTarget' = [lxTarget EXCEPT ![c] = target]

Fault == lxFaults < MaxLxFaults /\ lxFaults' = lxFaults + 1 /\ UNCHANGED lxDeaths

Ends(c, end) == lxEnd' = [lxEnd EXCEPT ![c] = end]
Untold(c)    == lxUntold' = [lxUntold EXCEPT ![c] = TRUE]
Unstaged(c)  == lxStage' = [lxStage EXCEPT ![c] = FALSE]

-----------------------------------------------------------------------------
(* The request.                                                            *)

ReadTree ==
    /\ lxUp /\ lxSeen # lxRevision
    /\ lxSeen' = lxRevision
    /\ UNCHANGED << lxPc, lxFacts, lxHistory, lxRevision, lxUp, lxBounds >>

\* The revision is compared before the sandbox is awaited and not again; a
\* prepare that fails removes what it made.
PrepareStaging(c) ==
    /\ At(c, "none") /\ lxSeen = lxRevision
    /\ lxStage' = [lxStage EXCEPT ![c] = TRUE]
    /\ Goes(c, "prepared")
    /\ UNCHANGED << lxRun, lxTarget, lxAttempt, lxRecord, lxRoot, lxFiles, lxHistory, lxStream, lxUp, lxBounds >>

BeginWorkloadRun(c) ==
    /\ At(c, "prepared")
    /\ lxRun' = [lxRun EXCEPT ![c] = "running"]
    /\ Goes(c, "begun")
    /\ UNCHANGED << lxTarget, lxAttempt, lxRecord, lxRoot, lxDisk, lxHistory, lxStream, lxUp, lxBounds >>

StartAttempt(c) ==
    /\ At(c, "begun")
    /\ lxAttempt' = [lxAttempt EXCEPT ![c] = "running"]
    /\ Goes(c, "started")
    /\ UNCHANGED << lxRun, lxTarget, lxRecord, lxRoot, lxDisk, lxHistory, lxStream, lxUp, lxBounds >>

CreateRecord(c) ==
    /\ At(c, "started")
    /\ RecordIs(c, "queued")
    /\ Goes(c, "recording")
    /\ UNCHANGED << lxRun, lxTarget, lxAttempt, lxRoot, lxDisk, lxHistory, lxStream, lxUp, lxBounds >>

Announce(c) ==
    /\ At(c, "recording")
    /\ WorkspaceEvent
    /\ Goes(c, "spawned")
    /\ UNCHANGED << lxFacts, lxHistory, lxUp, lxBounds >>

\* A step of the request raises; a record that is there stays queued.
RequestFails(c) ==
    /\ \E pc \in {"prepared", "begun", "started", "recording"} : At(c, pc)
    /\ Fault
    /\ IF lxPc[c] = "recording" THEN Untold(c) ELSE UNCHANGED lxUntold
    /\ Goes(c, "refuse")
    /\ UNCHANGED << lxFacts, lxEnd, lxStream, lxUp >>

\* It discards its staging and ends the Run, if there is one.
RequestEnds(c) ==
    /\ At(c, "refuse")
    /\ Unstaged(c)
    /\ Ends(c, "refused")
    /\ IF lxRun[c] = "running"
       THEN BeginFinish(c, "failed") /\ Goes(c, "finish")
       ELSE UNCHANGED << lxRun, lxTarget >> /\ Goes(c, "over")
    /\ UNCHANGED << lxAttempt, lxRecord, lxRoot, lxFiles, lxUntold, lxStream, lxUp, lxBounds >>

\* A discard that raises keeps it from both.
RequestDiscardFails(c) ==
    /\ At(c, "refuse")
    /\ Fault
    /\ Ends(c, "unclean")
    /\ Goes(c, "over")
    /\ UNCHANGED << lxFacts, lxUntold, lxStream, lxUp >>

-----------------------------------------------------------------------------
(* The task that compiles.                                                 *)

TaskStarts(c) ==
    /\ At(c, "spawned")
    /\ RecordIs(c, "running")
    /\ WorkspaceEvent
    /\ Goes(c, "compile")
    /\ UNCHANGED << lxRun, lxTarget, lxAttempt, lxRoot, lxDisk, lxHistory, lxUp, lxBounds >>

\* execute() has what it returns or raises, and awaits discard().
Found(c, files, end) ==
    /\ lxFiles' = [lxFiles EXCEPT ![c] = files]
    /\ Ends(c, end)
    /\ Goes(c, "discard")
    /\ UNCHANGED << lxRun, lxTarget, lxAttempt, lxRecord, lxRoot, lxStage, lxUntold, lxStream, lxUp, lxBounds >>

\* The sandbox answers: the PDF and the log are copied.
Execute(c) == At(c, "compile") /\ Found(c, {"pdf", "log"}, "completed")

\* The engine fails, or ends without a PDF: only a log is kept.  An error
\* behind the PDF's copy meets the directory that is already there.
CompilationFails(c) ==
    /\ At(c, "compile")
    /\ Found(c, {"log"}, "failed") \/ Found(c, {"pdf"}, "raised")

\* The client, or the Gateway's close(), cancels the task at its await in the
\* sandbox.
CancelCompiling(c) == At(c, "compile") /\ Found(c, {}, "cancelled")

\* The sandbox is closed, then its directory removed.
Discarded(c) ==
    /\ At(c, "discard")
    /\ Unstaged(c)
    /\ Goes(c, "settle")
    /\ UNCHANGED << lxRun, lxTarget, lxAttempt, lxRecord, lxRoot, lxFiles, lxHistory, lxStream, lxUp, lxBounds >>

\* The sandbox cannot be closed: this exception takes the place of the result.
DiscardRaises(c) ==
    /\ At(c, "discard")
    /\ Fault
    /\ Ends(c, "unclean")
    /\ Goes(c, "settle")
    /\ UNCHANGED << lxFacts, lxUntold, lxStream, lxUp >>

\* A cancellation at the await inside discard() does the same.
DiscardCut(c) ==
    /\ At(c, "discard")
    /\ Ends(c, "cut")
    /\ Goes(c, "settle")
    /\ UNCHANGED << lxFacts, lxUntold, lxStream, lxUp, lxBounds >>

Outcome(end) ==
    CASE end = "completed" -> [attempt |-> "completed", record |-> "completed", target |-> "succeeded"]
      [] end \in {"cancelled", "cut"} -> [attempt |-> "abandoned", record |-> "cancelled", target |-> "cancelled"]
      [] OTHER -> [attempt |-> "failed", record |-> "failed", target |-> "failed"]

SettleAttempt(c) ==
    /\ At(c, "settle") /\ lxAttempt[c] = "running"
    /\ lxAttempt' = [lxAttempt EXCEPT ![c] = Outcome(lxEnd[c]).attempt]
    /\ Goes(c, "record")
    /\ UNCHANGED << lxRun, lxTarget, lxRecord, lxRoot, lxDisk, lxHistory, lxStream, lxUp, lxBounds >>

\* Only a result or a LatexExecutionError carries an artifact root.
SettleRecord(c) ==
    /\ At(c, "record")
    /\ RecordIs(c, Outcome(lxEnd[c]).record)
    /\ lxRoot' = [lxRoot EXCEPT ![c] = lxEnd[c] \in {"completed", "failed"}]
    /\ Goes(c, "told")
    /\ UNCHANGED << lxRun, lxTarget, lxAttempt, lxDisk, lxHistory, lxStream, lxUp, lxBounds >>

Tell(c) ==
    /\ At(c, "told")
    /\ IF Outcome(lxEnd[c]).record = "cancelled" THEN UNCHANGED lxStream ELSE WorkspaceEvent
    /\ BeginFinish(c, Outcome(lxEnd[c]).target)
    /\ Goes(c, "finish")
    /\ UNCHANGED << lxAttempt, lxRecord, lxRoot, lxDisk, lxHistory, lxUp, lxBounds >>

\* A write to the database raises.  Before the Attempt is completed this is a
\* failed compilation; anywhere else the task dies of it.
StoreRaises(c) ==
    /\ lxUp
    /\ Fault
    /\ \/ /\ lxPc[c] = "spawned"
          /\ RecordIs(c, lxRecord[c]) \/ RecordIs(c, "running")
          /\ Ends(c, "unstarted") /\ Untold(c) /\ Goes(c, "over")
       \/ /\ lxPc[c] = "settle" /\ lxEnd[c] = "completed"
          /\ Ends(c, "raised")
          /\ UNCHANGED << lxRecord, lxUntold, lxPc >>
       \/ /\ lxPc[c] \in {"record", "told"} \/ (lxPc[c] = "settle" /\ lxEnd[c] # "completed")
          /\ Untold(c) /\ Goes(c, "over")
          /\ UNCHANGED << lxRecord, lxEnd >>
    /\ UNCHANGED << lxRun, lxTarget, lxAttempt, lxRoot, lxDisk, lxStream, lxUp >>

EndRun(c) ==
    /\ At(c, "finish") /\ lxRun[c] = "finalizing"
    /\ lxRun' = [lxRun EXCEPT ![c] = lxTarget[c]]
    /\ Goes(c, "over")
    /\ UNCHANGED << lxTarget, lxAttempt, lxRecord, lxRoot, lxDisk, lxHistory, lxStream, lxUp, lxBounds >>

\* close() may cancel a task that has not run yet: its body never does.
CancelUnstarted(c) ==
    /\ At(c, "spawned")
    /\ Goes(c, "lost")
    /\ UNCHANGED << lxFacts, lxHistory, lxStream, lxUp, lxBounds >>

\* Slip: a compilation that had completed is taken for a cancelled one.
CancelFinishingRegardless(c) ==
    /\ At(c, "finish") /\ lxEnd[c] # "refused"
    /\ RecordIs(c, "cancelled")
    /\ Goes(c, "over")
    /\ UNCHANGED << lxRun, lxTarget, lxAttempt, lxRoot, lxDisk, lxHistory, lxStream, lxUp, lxBounds >>

\* Cancelled at its await in the finalizer.  The Attempt is over, so nothing
\* is abandoned; the Run cannot enter FINALIZING again and stays there.
CancelFinishing(c) ==
    /\ At(c, "finish") /\ lxEnd[c] # "refused"
    /\ Goes(c, "over")
    /\ UNCHANGED << lxFacts, lxHistory, lxStream, lxUp, lxBounds >>

-----------------------------------------------------------------------------
(* The Gateway dies and comes back.                                        *)

LxDies ==
    /\ lxUp /\ lxDeaths < MaxLxDeaths
    /\ lxUp' = FALSE /\ lxDeaths' = lxDeaths + 1
    /\ UNCHANGED << lxPc, lxFacts, lxHistory, lxStream, lxFaults >>

\* Only the active records are interrupted.
InterruptActive(c) == IF lxRecord[c] \in {"queued", "running"} THEN "interrupted" ELSE lxRecord[c]

\* Recovery ends a Run that is FINALIZING; the driver of the others is gone.
RecoverRun(c) ==
    CASE lxRun[c] = "finalizing" -> lxTarget[c]
      [] lxRun[c] = "running" -> "recovery_required"
      [] OTHER -> lxRun[c]

LxRestarts ==
    /\ ~lxUp
    /\ lxUp' = TRUE
    /\ lxRecord' = [c \in LxJobs |-> InterruptActive(c)]
    /\ lxRun' = [c \in LxJobs |-> RecoverRun(c)]
    /\ lxPc' = [c \in LxJobs |-> IF lxPc[c] = "none" THEN "none" ELSE "over"]
    /\ UNCHANGED << lxTarget, lxAttempt, lxRoot, lxDisk, lxHistory, lxStream, lxBounds >>

LxDrive(c) ==
    \/ PrepareStaging(c) \/ BeginWorkloadRun(c) \/ StartAttempt(c) \/ CreateRecord(c) \/ Announce(c)
    \/ RequestFails(c) \/ RequestEnds(c) \/ RequestDiscardFails(c)
    \/ TaskStarts(c) \/ Execute(c) \/ CompilationFails(c) \/ Discarded(c) \/ DiscardRaises(c) \/ DiscardCut(c)
    \/ SettleAttempt(c) \/ SettleRecord(c) \/ Tell(c) \/ StoreRaises(c)
    \/ EndRun(c) \/ CancelUnstarted(c) \/ CancelCompiling(c) \/ CancelFinishing(c)

LxNext == ReadTree \/ (\E c \in LxJobs : LxDrive(c)) \/ LxDies \/ LxRestarts

LxSpec == LxInit /\ [][LxNext]_lxVars

-----------------------------------------------------------------------------
(* Properties.                                                             *)

(***************************************************************************)
(* What a client polls agrees with what the Run and the files became: a    *)
(* Run that succeeded has a completed record with a PDF behind it, a       *)
(* completed record belongs to a completed Attempt and to no Run that      *)
(* failed or was cancelled, a cancelled record to an abandoned Attempt, a  *)
(* record that shows a PDF is completed.  A driver that ended leaves no    *)
(* record that still looks active, unless one of its own writes to the     *)
(* database raised; and, when nothing died, no staging directory, unless   *)
(* its discard() raised, was cancelled or was never reached                *)
(* (start_latex_compilation, _execute_latex_compilation,                   *)
(* interrupt_active_latex_compilations).                                   *)
(***************************************************************************)
CompilationAgrees ==
    \A c \in LxJobs :
        /\ lxRun[c] = "succeeded" => lxRecord[c] = "completed"
        /\ lxRecord[c] = "completed" =>
               /\ lxAttempt[c] = "completed" /\ lxRoot[c] /\ "pdf" \in lxFiles[c]
               /\ lxRun[c] \notin {"failed", "cancelled"}
        /\ lxRecord[c] = "cancelled" => lxAttempt[c] = "abandoned" /\ lxRun[c] \notin {"succeeded", "failed"}
        /\ lxRoot[c] /\ "pdf" \in lxFiles[c] => lxRecord[c] = "completed"
        /\ lxUp /\ lxPc[c] = "over" => lxUntold[c] \/ lxRecord[c] \notin {"queued", "running"}
        /\ lxPc[c] \in {"finish", "over"} /\ lxDeaths = 0 =>
               ~lxStage[c] \/ lxEnd[c] \in {"unclean", "cut", "unstarted"}

\* Record, Run, Attempt and files of a compilation agree.
CompilationsSound == LxTypeOK /\ CompilationAgrees
=============================================================================
