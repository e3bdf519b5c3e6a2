---------------------------- MODULE Finalization ----------------------------
(***************************************************************************)
(* FinalizeCoordinator (gateway/finalize.py) for one Run: a generation of  *)
(* durable evidence is built step by step (Memory records, Session index,  *)
(* audit receipt, Inbox item) under the Session's reservation, every       *)
(* command is one SQLite transaction, and the Gateway may die between any  *)
(* two.  The Session's files belong to others: the next Turn rolls the     *)
(* Session over, an edit rewrites the records, a user deletes it.          *)
(*                                                                         *)
(* A hash stands for the version of what it covers; version 0 is a record  *)
(* chain that proves nothing (no terminal assistant, an open tool block)   *)
(* and an index entry that does not exist.                                 *)
(***************************************************************************)
EXTENDS Naturals

CONSTANTS
    MaxFzGens,      \* bound: generations of evidence
    MaxFzTries,     \* FINALIZE_RETRY_POLICY.max_attempts
    MaxFzEdits,     \* bound: changes of the Session's files
    MaxFzDeaths,    \* bound: deaths of the Gateway
    MaxFzFaults     \* bound: OSErrors

ASSUME FzAssumption == MaxFzGens \in Nat \ {0}

FileSteps == {"memory", "session_index"}
Steps == FileSteps \cup {"audit", "inbox"}
Generation == 1 .. MaxFzGens

VARIABLES
    fzSession,      \* persistence contract: session-backed or control-only
    fzChat,         \* the workload is one that recovery continues
    fzTask,         \* task_state of the Run
    fzGen,          \* finalize_generation, 0 for none
    fzInvalid,      \* finalize_generation_invalidations
    fzOp,           \* the Operation of a step and its latest Attempt
    fzReceipt,      \* run_current_audit_receipt
    fzInbox,        \* the Inbox row exists
    fzSpent,        \* generations whose "recovering" command is processed
    fzOwner,        \* owner of the Session's reservation
    fzPc,           \* where the coordinator stands
    fzRecs,         \* version of the Run's records in the Session files
    fzIdx,          \* version of the Session's index entry and file list
    fzSeen,         \* record versions that existed since this pass began
    fzCut,          \* a death fell inside recover_generation
    fzEdits, fzDeaths, fzFaults

fzVars == << fzSession, fzChat, fzTask, fzGen, fzInvalid, fzOp, fzReceipt, fzInbox, fzSpent, fzOwner,
             fzPc, fzRecs, fzIdx, fzSeen, fzCut, fzEdits, fzDeaths, fzFaults >>
fzRest == << fzSession, fzChat, fzSpent, fzCut, fzEdits, fzDeaths >>
fzFiles == << fzRecs, fzIdx, fzSeen >>
fzLedger == << fzGen, fzInvalid, fzOp, fzReceipt, fzInbox >>

NoEvidence == << >>
NotApplicable == << 0 >>      \* no version of anything
NoStep == [st |-> "none", no |-> 0, ev |-> NoEvidence]
NoReceipt == << >>

OpOf(s) == fzOp[fzGen][s]
WithOp(s, op) == fzOp' = [fzOp EXCEPT ![fzGen][s] = op]
NextStep(s) == IF s = "memory" THEN "session_index" ELSE "audit"
\* Attempt and result hash, what later evidence refers to.
RefTo(s) == << OpOf(s).no, OpOf(s).ev >>

-----------------------------------------------------------------------------
(* SessionReservationRegistry: the Run's own reservation and another owner's. *)
Acquire(who) == /\ fzOwner \in {"nobody", who}
                /\ fzOwner' = who
Release == fzOwner' = "nobody"

\* finalize(): a FINALIZING Run, its Session reserved, waiting for the owner.
FinalizeStarts ==
    /\ fzPc = "called" /\ fzTask = "finalizing"
    /\ IF fzSession THEN Acquire("run") ELSE UNCHANGED fzOwner
    /\ fzPc' = "generation"
    /\ fzSeen' = {fzRecs}
    /\ UNCHANGED << fzRest, fzLedger, fzTask, fzRecs, fzIdx, fzFaults >>

\* StartFinalizeGenerationCommand, when there is none yet.
StartGeneration ==
    /\ fzPc = "generation"
    /\ fzGen' = IF fzGen = 0 THEN 1 ELSE fzGen
    /\ fzPc' = "memory"
    /\ UNCHANGED << fzRest, fzInvalid, fzOp, fzReceipt, fzInbox, fzTask, fzOwner, fzFiles, fzFaults >>

-----------------------------------------------------------------------------
(* _ensure_file_step *)
AtStep(s) == fzPc = s /\ s \in FileSteps
StepKeeps == UNCHANGED << fzRest, fzGen, fzInvalid, fzReceipt, fzInbox, fzTask, fzOwner, fzFiles >>

\* FinalizeRequirementPolicy: a control-only Run has no Session artifact.
Required == fzSession

\* _build_file_evidence: what the files prove now.
Evidence(s) ==
    IF ~Required THEN NotApplicable
    ELSE IF s = "memory" THEN << fzRecs >>
    ELSE << fzIdx, RefTo("memory") >>
Provable(s) ==
    Required => IF s = "memory" THEN fzRecs # 0 ELSE fzIdx # 0

CreateStep(s) ==
    /\ AtStep(s) /\ OpOf(s).st = "none"
    /\ WithOp(s, [st |-> "prepared", no |-> 1, ev |-> NoEvidence])
    /\ UNCHANGED << fzPc, fzFaults >> /\ StepKeeps

\* OperationRetryDriver.wait_until_eligible
WaitUntilEligible(s) ==
    /\ AtStep(s)
    /\ \/ /\ OpOf(s).st = "failed"
          /\ WithOp(s, [st |-> "prepared", no |-> OpOf(s).no + 1, ev |-> NoEvidence])
          /\ UNCHANGED fzPc
       \/ /\ OpOf(s).st = "terminal"
          /\ fzPc' = "invalidate"
          /\ UNCHANGED fzOp
    /\ UNCHANGED fzFaults /\ StepKeeps

StartStep(s) ==
    /\ AtStep(s) /\ OpOf(s).st = "prepared"
    /\ WithOp(s, [OpOf(s) EXCEPT !.st = "running"])
    /\ UNCHANGED << fzPc, fzFaults >> /\ StepKeeps

\* A running Attempt, perhaps one a dead process left: its evidence is built
\* and it completes with it.
CompleteStep(s) ==
    /\ AtStep(s) /\ OpOf(s).st = "running" /\ Provable(s)
    /\ WithOp(s, [OpOf(s) EXCEPT !.st = "completed", !.ev = Evidence(s)])
    /\ fzPc' = NextStep(s)
    /\ UNCHANGED fzFaults /\ StepKeeps

\* FinalizeEvidenceConflict; a Session without an index entry is a KeyError,
\* which leaves the Attempt running.
StepConflicts(s) ==
    /\ AtStep(s) /\ OpOf(s).st = "running" /\ ~Provable(s)
    /\ IF s = "memory" THEN WithOp(s, [OpOf(s) EXCEPT !.st = "terminal"]) ELSE UNCHANGED fzOp
    /\ fzPc' = "invalidate"
    /\ UNCHANGED fzFaults /\ StepKeeps

\* OSError or ValueError: a retryable failure until the attempts are used up.
StepFailsIo(s) ==
    /\ AtStep(s) /\ OpOf(s).st = "running" /\ Required
    /\ fzFaults < MaxFzFaults /\ fzFaults' = fzFaults + 1
    /\ \/ /\ OpOf(s).no < MaxFzTries
          /\ WithOp(s, [OpOf(s) EXCEPT !.st = "failed"])
          /\ UNCHANGED fzPc
       \/ /\ OpOf(s).no = MaxFzTries
          /\ WithOp(s, [OpOf(s) EXCEPT !.st = "terminal"])
          /\ fzPc' = "invalidate"
    /\ StepKeeps

\* Slip: a completed step is taken at its word after a restart.
RevalidateNothing(s) ==
    /\ AtStep(s) /\ OpOf(s).st = "completed"
    /\ fzPc' = NextStep(s)
    /\ UNCHANGED << fzOp, fzFaults >> /\ StepKeeps

\* _revalidate_completed_file_step: the artifact is proven again.
Revalidate(s) ==
    /\ AtStep(s) /\ OpOf(s).st = "completed"
    /\ fzPc' = IF Provable(s) /\ Evidence(s) = OpOf(s).ev THEN NextStep(s) ELSE "invalidate"
    /\ UNCHANGED << fzOp, fzFaults >> /\ StepKeeps

-----------------------------------------------------------------------------
\* _ensure_audit and _finalize_audit: the receipt, the pointer to it and the
\* completed Operation in one transaction.
\* _completed_sqlite_finalize_operation: Operation and Attempt are born completed.
BornCompleted(ev) == [st |-> "completed", no |-> 1, ev |-> ev]
Receipt == << fzGen, RefTo("memory"), RefTo("session_index") >>
EnsureAudit ==
    /\ fzPc = "audit"
    /\ IF OpOf("audit").st = "completed"
       THEN UNCHANGED << fzOp, fzReceipt >>
       ELSE /\ WithOp("audit", BornCompleted(Receipt))
            /\ fzReceipt' = Receipt
    /\ fzPc' = "inbox"
    /\ UNCHANGED << fzRest, fzGen, fzInvalid, fzInbox, fzTask, fzOwner, fzFiles, fzFaults >>

\* _ensure_inbox and _finalize_inbox: the row's id belongs to the Run, so a
\* replacement generation finds the row of the first and proves it again.
EnsureInbox ==
    /\ fzPc = "inbox"
    /\ fzInbox' = TRUE
    /\ IF OpOf("inbox").st = "completed" THEN UNCHANGED fzOp
       ELSE WithOp("inbox", BornCompleted(<< "inbox" >>))
    /\ fzPc' = "terminal"
    /\ UNCHANGED << fzRest, fzGen, fzInvalid, fzReceipt, fzTask, fzOwner, fzFiles, fzFaults >>

\* _validate_finalize_evidence: evidence of the kind the contract asks for.
EvidenceValid(s) ==
    /\ OpOf(s).ev # NoEvidence
    /\ s \in FileSteps => (OpOf(s).ev = NotApplicable) = ~Required

\* _validate_terminal_finalize
TerminalValid ==
    /\ fzGen \notin fzInvalid
    /\ \A s \in Steps : OpOf(s).st = "completed" /\ EvidenceValid(s)
    /\ Required => OpOf("session_index").ev[2] = RefTo("memory")
    /\ fzReceipt = OpOf("audit").ev
    /\ fzReceipt = Receipt
    /\ fzInbox
FinalizeTerminal ==
    /\ fzPc = "terminal"
    /\ \/ /\ TerminalValid
          /\ fzTask' = "done" /\ fzPc' = "idle"
          /\ Release
       \/ /\ ~TerminalValid
          /\ fzPc' = "invalidate"
          /\ UNCHANGED << fzTask, fzOwner >>
    /\ UNCHANGED << fzRest, fzLedger, fzFiles, fzFaults >>

InvalidateGeneration ==
    /\ fzPc = "invalidate"
    /\ fzInvalid' = fzInvalid \cup {fzGen}
    /\ fzPc' = "park"
    /\ UNCHANGED << fzRest, fzGen, fzOp, fzReceipt, fzInbox, fzTask, fzOwner, fzFiles, fzFaults >>

\* _enter_recovery_required
EnterRecoveryRequired ==
    /\ fzPc = "park"
    /\ fzTask' = "recovery_required" /\ fzPc' = "idle"
    /\ Release
    /\ UNCHANGED << fzRest, fzLedger, fzFiles, fzFaults >>

-----------------------------------------------------------------------------
(* recover_generation: every command id names the generation it recovers, and *)
(* apply() refuses an id that was processed with other arguments.             *)
RecoverBegins ==
    /\ fzPc = "idle" /\ fzTask = "recovery_required"
    /\ fzGen \notin fzSpent /\ fzGen < MaxFzGens
    /\ fzSpent' = fzSpent \cup {fzGen}
    /\ fzTask' = "recovering" /\ fzPc' = "recovering"
    /\ UNCHANGED << fzSession, fzChat, fzLedger, fzOwner, fzFiles, fzCut, fzEdits, fzDeaths, fzFaults >>

ResumeFinalize ==
    /\ fzPc = "recovering"
    /\ fzTask' = "finalizing" /\ fzPc' = "replace"
    /\ UNCHANGED << fzRest, fzLedger, fzOwner, fzFiles, fzFaults >>

ReplaceGeneration ==
    /\ fzPc = "replace"
    /\ fzGen' = IF fzGen \in fzInvalid THEN fzGen + 1 ELSE fzGen
    /\ fzPc' = "called"
    /\ UNCHANGED << fzRest, fzInvalid, fzOp, fzReceipt, fzInbox, fzTask, fzOwner, fzFiles, fzFaults >>

-----------------------------------------------------------------------------
(* Death, restart, and what others do to the Session. *)
FzDies ==
    /\ fzPc # "down" /\ fzTask # "done"
    /\ fzDeaths < MaxFzDeaths /\ fzDeaths' = fzDeaths + 1
    /\ fzPc' = "down" /\ Release
    /\ fzCut' = (fzCut \/ fzPc \in {"recovering", "replace"})
    /\ UNCHANGED << fzSession, fzChat, fzSpent, fzEdits, fzLedger, fzTask, fzFiles, fzFaults >>

\* RecoveryCoordinator.recover: a FINALIZING Run is finalized, a RECOVERING one
\* goes on from its outcome or, for another workload, is parked.
FzRestarts ==
    /\ fzPc = "down"
    /\ \/ /\ fzTask = "recovery_required"
          /\ fzPc' = "idle" /\ UNCHANGED fzTask
       \/ /\ fzTask = "finalizing" \/ (fzTask = "recovering" /\ fzChat)
          /\ fzPc' = "called" /\ fzTask' = "finalizing"
       \/ /\ fzTask = "recovering" /\ ~fzChat
          /\ fzPc' = "idle" /\ fzTask' = "recovery_required"
    /\ UNCHANGED << fzRest, fzLedger, fzOwner, fzFiles, fzFaults >>

\* Another Turn holds the Session: it appends and may roll the file over.
OtherTurn ==
    /\ fzSession /\ fzPc # "down" /\ fzEdits < MaxFzEdits /\ fzIdx # 0
    /\ Acquire("other") /\ fzOwner = "nobody"
    /\ fzIdx' = fzIdx + 1 /\ fzEdits' = fzEdits + 1
    /\ UNCHANGED << fzSession, fzChat, fzSpent, fzCut, fzDeaths, fzLedger, fzTask, fzPc, fzRecs, fzSeen,
                    fzFaults >>
OtherTurnEnds ==
    /\ fzOwner = "other" /\ Release
    /\ UNCHANGED << fzRest, fzLedger, fzTask, fzPc, fzFiles, fzFaults >>

\* A process outside the Gateway (the CLI, a user) rewrites the Turn's records:
\* another chain, one that proves nothing, or a chain where there was none.
RewriteRecords ==
    /\ fzSession /\ fzEdits < MaxFzEdits /\ fzEdits' = fzEdits + 1
    /\ \E v \in {0, fzEdits + 2} : v # fzRecs /\ fzRecs' = v /\ fzSeen' = fzSeen \cup {v}
    /\ UNCHANGED << fzSession, fzChat, fzSpent, fzCut, fzDeaths, fzLedger, fzTask, fzOwner, fzPc, fzIdx,
                    fzFaults >>
DeleteIndexedSession ==
    /\ fzSession /\ fzEdits < MaxFzEdits /\ fzEdits' = fzEdits + 1
    /\ fzIdx # 0 /\ fzIdx' = 0
    /\ fzRecs' = 0 /\ fzSeen' = fzSeen \cup {0}
    /\ UNCHANGED << fzSession, fzChat, fzSpent, fzCut, fzDeaths, fzLedger, fzTask, fzOwner, fzPc, fzFaults >>

FzInit ==
    /\ fzSession \in BOOLEAN /\ fzChat \in BOOLEAN
    /\ fzTask = "finalizing" /\ fzGen = 0 /\ fzInvalid = {}
    /\ fzOp = [g \in Generation |-> [s \in Steps |-> NoStep]]
    /\ fzReceipt = NoReceipt /\ fzInbox = FALSE /\ fzSpent = {}
    /\ fzOwner = "nobody" /\ fzPc = "called"
    /\ fzRecs \in (IF fzSession THEN {0, 1} ELSE {0}) /\ fzIdx = 1 /\ fzSeen = {}
    /\ fzCut = FALSE /\ fzEdits = 0 /\ fzDeaths = 0 /\ fzFaults = 0

FzNext ==
    \/ FinalizeStarts \/ StartGeneration
    \/ \E s \in FileSteps :
          \/ CreateStep(s) \/ WaitUntilEligible(s) \/ StartStep(s) \/ CompleteStep(s)
          \/ StepConflicts(s) \/ StepFailsIo(s) \/ Revalidate(s)
    \/ EnsureAudit \/ EnsureInbox \/ FinalizeTerminal
    \/ InvalidateGeneration \/ EnterRecoveryRequired
    \/ RecoverBegins \/ ResumeFinalize \/ ReplaceGeneration
    \/ FzDies \/ FzRestarts
    \/ OtherTurn \/ OtherTurnEnds \/ RewriteRecords \/ DeleteIndexedSession

FzSpec == FzInit /\ [][FzNext]_fzVars

-----------------------------------------------------------------------------
\* The evidence a Run is closed with is a record chain that was in the Session
\* files during the pass that closed it, however many passes, generations and
\* deaths came before (finalize.py, _revalidate_completed_file_step).
TerminalEvidenceIsFresh ==
    fzTask = "done" /\ fzSession => OpOf("memory").ev[1] \in fzSeen \ {0}

\* A parked Run can be recovered: the command ids of the recovery of its
\* generation are unused (finalize.py, recover_generation and
\* _invalidate_generation), unless a death cut the recovery itself.
RecoveryNotSpent ==
    fzTask = "recovery_required" /\ ~fzCut => fzGen \notin fzSpent

\* A Run is closed on fresh evidence or stays recoverable.
FinalizationSound == TerminalEvidenceIsFresh /\ RecoveryNotSpent
=============================================================================
