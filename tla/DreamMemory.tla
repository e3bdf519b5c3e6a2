---------------------------- MODULE DreamMemory ----------------------------
(***************************************************************************)
(* Dream consolidation (dream/service.py): the daily maintenance that      *)
(* turns unprocessed user messages (evidence) into long-term facts.  It    *)
(* writes structured records, the managed section of the profile,          *)
(* memories.json and state.json under one backup and one transaction file; *)
(* a failure takes the records back and restores the backup, a restart     *)
(* restores it for a transaction that was left behind, and the user may    *)
(* roll the last run back.  The candidates of a run are several inserts,   *)
(* or one update or supersede.  The                                        *)
(* scheduler (dream/scheduler.py) and the Gateway Run around a Dream       *)
(* (application.py) are modelled with their cancellation, timeout and      *)
(* maintenance pause.  The commit runs without an await: it interleaves    *)
(* with nothing but the user's editor, and the process may die in it.      *)
(***************************************************************************)
EXTENDS LongTermMemory

CONSTANTS
    DmEvidence,  \* user messages
    MaxDays,     \* bound: the last day
    MaxDreams,   \* bound: Dream runs
    MaxDmFaults, \* bound: deaths and failed writes
    MaxDmEdits,  \* bound: hand edits of the profile
    MaxRollbacks \* bound: rollbacks

ASSUME DmAssumption == {MaxDays, MaxDreams, MaxDmFaults, MaxDmEdits, MaxRollbacks} \subseteq Nat

VARIABLES
    dmDay,     \* the calendar day
    dmSaid,    \* the day of every message, 0 before it is said
    dmState,   \* state.json
    dmMem,     \* memories.json: entries with the run that touched them last
    dmProf,    \* a profile file: hand-written version and managed facts
    dmBackup,  \* backups: the files before a run
    dmTxn,     \* transaction files
    dmPc,      \* where the running Dream is
    dmJob,     \* its local state
    dmGw,      \* the Gateway Run of every Dream
    dmPaused,  \* the maintenance epoch of the scheduler is set
    dmHand,    \* history: the version the user wrote last
    dmFed,     \* history: the evidence every committed run consumed
    dmHurt,    \* history: what separated the files
    dmRuns, dmFaults, dmRolls

dmFiles == <<dmState, dmMem, dmProf>>
dmBounds == <<dmRuns, dmFaults, dmRolls>>
dmVars == <<dmDay, dmSaid, dmFiles, dmBackup, dmTxn, dmPc, dmJob, dmGw, dmPaused, dmHand, dmFed,
            dmHurt, dmBounds>>
\* Structured memory apart from what a Dream writes.
lmOthers == <<lmIndexVars, lmVectorVars, lmRecallVars, lmFileVars, lmMigration, lmWrites, lmDeaths>>
lmKept == <<lmRecord, lmQueue, lmDirty, lmOthers>>

NoCandidate == [op |-> "none", facts |-> {}, old |-> <<>>]
NoDream == [run |-> 0, first |-> 0, cutoff |-> 0, fresh |-> {}, hand |-> 0, tries |-> 0,
            candidate |-> NoCandidate, todo |-> {}]
Snapshot == [state |-> dmState, mem |-> dmMem, prof |-> dmProf]
DmIdle == dmPc = "idle"
DmRest == UNCHANGED <<dmDay, dmSaid, dmPaused, dmHand>>
DmFault == dmFaults < MaxDmFaults /\ dmFaults' = dmFaults + 1 /\ UNCHANGED <<dmRuns, dmRolls>>
MaxOf(a, b) == IF a > b THEN a ELSE b

-----------------------------------------------------------------------------
(* What a run takes and what its candidate does.                           *)

\* iter_range and _fresh_evidence_by_day.
Fresh(first, last) == {e \in DmEvidence : dmSaid[e] \in first .. last /\ dmSaid[e] # 0} \ dmState.done

\* _due_date: yesterday, unless it is completed or its last attempt failed.
Due == dmDay - 1
IsDue == /\ Due > dmState.completed
         /\ ~(dmState.status = "failed" /\ dmState.attempted = Due)

\* _validate_candidates: update and supersede name an entry that exists.  The candidates
\* are taken together: new facts, or one fact in the place of an older one.
Valid(c) == c.op \in {"update", "supersede"} => \E m \in dmMem : m.id = c.old
DmCandidates == {NoCandidate} \cup
    [op : {"insert"}, facts : {s \in SUBSET LmIds : s # {}}, old : {<<>>}] \cup
    [op : {"update", "supersede"}, facts : {{f} : f \in LmIds}, old : {m.id : m \in dmMem}]

\* _apply_candidates.
ActiveFacts(mem) == {m.fact : m \in {x \in mem : x.status = "active"}}
DreamEntry(f, run, fresh) == [id |-> <<f, run>>, fact |-> f, status |-> "active", run |-> run, ev |-> fresh]
FactOf(c) == CHOOSE f \in c.facts : TRUE
\* The entry an insert of a known fact lands on.
Duplicate(mem, f) == CHOOSE m \in mem : m.status = "active" /\ m.fact = f
Applied(mem, c, run, fresh) ==
    CASE c.op = "none" -> mem
      [] c.op = "insert" ->
            LET again == {Duplicate(mem, f) : f \in c.facts \cap ActiveFacts(mem)} IN
            (mem \ again) \cup {[m EXCEPT !.ev = @ \cup fresh, !.run = run] : m \in again}
                \cup {DreamEntry(f, run, fresh) : f \in c.facts \ ActiveFacts(mem)}
      [] c.op = "update" ->
            LET o == CHOOSE m \in mem : m.id = c.old IN
            (mem \ {o}) \cup {[o EXCEPT !.fact = FactOf(c), !.ev = @ \cup fresh, !.run = run]}
      [] OTHER ->
            LET o == CHOOSE m \in mem : m.id = c.old IN
            (mem \ {o}) \cup {[o EXCEPT !.status = "superseded", !.run = run],
                              DreamEntry(FactOf(c), run, fresh)}

\* state.json of a completed run.
Consumed(s) == [done |-> s.done \cup dmJob.fresh, runs |-> Append(s.runs, dmJob.run),
                completed |-> MaxOf(s.completed, dmJob.cutoff), attempted |-> dmJob.cutoff,
                status |-> "completed"]
FailedState(s) == [s EXCEPT !.status = "failed", !.attempted = dmJob.cutoff]

\* A Dream's source_ref starts with its run.
DreamRef(run) == <<"dream", run>>
DreamWrite(f, run) == [id |-> f, ref |-> DreamRef(run), single |-> FALSE, replace |-> FALSE,
                       trusted |-> FALSE, pinned |-> FALSE]
\* The run has put a fact into structured memory.
Wrote == dmJob.todo # dmJob.candidate.facts

-----------------------------------------------------------------------------
(* Starting a Dream.                                                       *)

\* _begin_workload_run and the start of _process_range: the evidence, the state and the
\* profile are read before the model is called.
Begins(first, cutoff) ==
    /\ dmRuns < MaxDreams
    /\ dmRuns' = dmRuns + 1 /\ UNCHANGED <<dmFaults, dmRolls>>
    /\ dmJob' = [NoDream EXCEPT !.run = dmRuns + 1, !.first = first, !.cutoff = cutoff,
                                !.fresh = Fresh(first, cutoff), !.hand = dmProf.hand]
    /\ dmGw' = [dmGw EXCEPT ![dmRuns + 1] = "running"]
    /\ dmPc' = "model"
    /\ UNCHANGED <<dmFiles, dmBackup, dmTxn, dmFed, dmHurt, lmKept>> /\ DmRest

\* advance_if_no_pending: only the cursor moves, and no Run exists.
AdvanceCursor ==
    /\ DmIdle /\ ~dmPaused /\ IsDue /\ Fresh(1, Due) = {}
    /\ dmState' = [dmState EXCEPT !.completed = MaxOf(@, Due), !.attempted = Due, !.status = "noop"]
    /\ UNCHANGED <<dmMem, dmProf, dmBackup, dmTxn, dmPc, dmJob, dmGw, dmFed, dmHurt, dmBounds, lmKept>>
    /\ DmRest

\* _tick_impl: one incremental run through yesterday.
Tick == DmIdle /\ ~dmPaused /\ IsDue /\ Fresh(1, Due) # {} /\ Begins(1, Due)

\* run_dream, backfill_dream: one explicit day.
DreamDay(d) == DmIdle /\ Fresh(d, d) # {} /\ Begins(d, d)
\* Nothing fresh: the run only moves the cursor and is a success.
DreamNoop(d) ==
    /\ DmIdle /\ Fresh(d, d) = {} /\ dmRuns < MaxDreams
    /\ dmRuns' = dmRuns + 1 /\ UNCHANGED <<dmFaults, dmRolls>>
    /\ dmGw' = [dmGw EXCEPT ![dmRuns + 1] = "succeeded"]
    /\ dmState' = [dmState EXCEPT !.completed = MaxOf(@, d), !.attempted = d, !.status = "noop"]
    /\ UNCHANGED <<dmMem, dmProf, dmBackup, dmTxn, dmPc, dmJob, dmFed, dmHurt, lmKept>> /\ DmRest

-----------------------------------------------------------------------------
(* The model call ends.                                                    *)

\* Extraction and consolidation gave a candidate: backup of the files as they are now,
\* then the transaction file.
Prepare(c) ==
    /\ dmPc = "model" /\ Valid(c)
    /\ dmJob' = [dmJob EXCEPT !.candidate = c, !.todo = c.facts]
    /\ dmBackup' = [dmBackup EXCEPT ![dmJob.run] = {Snapshot}]
    /\ dmTxn' = dmTxn \cup {dmJob.run}
    /\ dmPc' = "facts"
    /\ UNCHANGED <<dmFiles, dmGw, dmFed, dmHurt, dmBounds, lmKept>> /\ DmRest

\* _validated_call: an answer that is not a candidate list is asked for again.
AnswerInvalid ==
    /\ dmPc = "model" /\ dmJob.tries < 2
    /\ dmJob' = [dmJob EXCEPT !.tries = @ + 1]
    /\ UNCHANGED <<dmFiles, dmBackup, dmTxn, dmPc, dmGw, dmFed, dmHurt, dmBounds, lmKept>> /\ DmRest

\* The evidence is not consumed and the day not tried again by the scheduler.
DreamFailed ==
    /\ dmState' = FailedState(dmState)
    /\ dmGw' = [dmGw EXCEPT ![dmJob.run] = "failed"]
    /\ dmPc' = "idle" /\ dmJob' = NoDream
    /\ UNCHANGED <<dmMem, dmProf, dmBackup, dmTxn, dmFed, dmHurt, dmBounds, lmKept>> /\ DmRest
\* The third invalid answer.
AnswersFail == dmPc = "model" /\ dmJob.tries = 2 /\ DreamFailed
\* The timeout of the whole run: record_external_failure.
DreamTimesOut == dmPc = "model" /\ DreamFailed

\* prepare_quiesce sets the epoch and cancels the ticks in progress; the evidence stays.
Pause ==
    /\ ~dmPaused /\ dmPc \in {"idle", "model"}
    /\ dmPaused' = TRUE
    /\ dmGw' = IF dmPc = "model" THEN [dmGw EXCEPT ![dmJob.run] = "cancelled"] ELSE dmGw
    /\ dmPc' = "idle" /\ dmJob' = NoDream
    /\ UNCHANGED <<dmDay, dmSaid, dmFiles, dmBackup, dmTxn, dmHand, dmFed, dmHurt, dmBounds, lmKept>>
DreamResume ==
    /\ dmPaused /\ dmPaused' = FALSE
    /\ UNCHANGED <<dmDay, dmSaid, dmFiles, dmBackup, dmTxn, dmPc, dmJob, dmGw, dmHand, dmFed, dmHurt,
                   dmBounds, lmKept>>

-----------------------------------------------------------------------------
(* _commit, one write at a time.                                           *)

NewMem == Applied(dmMem, dmJob.candidate, dmJob.run, dmJob.fresh)

\* memory_writer.write for one candidate: a transaction of its own in another database.
\* The writes for its further messages only add evidence of the same run.
CommitFact(f) ==
    /\ dmPc = "facts" /\ f \in dmJob.todo
    /\ LET new == Written(lmRecord, DreamWrite(f, dmJob.run)) IN
       lmRecord' = new /\ Enqueues(lmRecord, new)
    /\ dmJob' = [dmJob EXCEPT !.todo = @ \ {f}]
    /\ UNCHANGED <<dmFiles, dmBackup, dmTxn, dmPc, dmGw, dmFed, dmHurt, dmBounds, lmOthers>> /\ DmRest

\* _render_profile: the text read before the model call around the new managed section.
CommitProfile ==
    /\ dmPc = "facts" /\ dmJob.todo = {}
    /\ dmProf' = [hand |-> dmJob.hand, managed |-> ActiveFacts(NewMem)]
    /\ dmPc' = "memories"
    /\ UNCHANGED <<dmState, dmMem, dmBackup, dmTxn, dmJob, dmGw, dmFed, dmHurt, dmBounds, lmKept>> /\ DmRest

CommitMemories ==
    /\ dmPc = "memories"
    /\ dmMem' = NewMem
    /\ dmPc' = "state"
    /\ UNCHANGED <<dmState, dmProf, dmBackup, dmTxn, dmJob, dmGw, dmFed, dmHurt, dmBounds, lmKept>> /\ DmRest

CommitState ==
    /\ dmPc = "state"
    /\ dmState' = Consumed(dmState)
    /\ dmPc' = "unlink"
    /\ UNCHANGED <<dmMem, dmProf, dmBackup, dmTxn, dmJob, dmGw, dmFed, dmHurt, dmBounds, lmKept>> /\ DmRest

\* The run report, the end of the transaction, and _record_dream_result.
CommitEnds ==
    /\ dmPc = "unlink"
    /\ dmTxn' = dmTxn \ {dmJob.run}
    /\ dmFed' = [dmFed EXCEPT ![dmJob.run] = dmJob.fresh]
    /\ dmGw' = [dmGw EXCEPT ![dmJob.run] = "succeeded"]
    /\ dmPc' = "idle" /\ dmJob' = NoDream
    /\ UNCHANGED <<dmFiles, dmBackup, dmHurt, dmBounds, lmKept>> /\ DmRest

\* A write of the commit raises.
CommitFails ==
    /\ dmPc \in {"facts", "memories", "state", "unlink"}
    /\ DmFault
    /\ dmHurt' = dmHurt \cup {"failed_commit"}
    /\ dmPc' = "undo"
    /\ UNCHANGED <<dmFiles, dmBackup, dmTxn, dmJob, dmGw, dmFed, lmKept>> /\ DmRest

\* Slip: the facts of the failed commit stay.
UndoNoFacts ==
    /\ dmPc = "undo" /\ dmPc' = "restore"
    /\ UNCHANGED <<dmFiles, dmBackup, dmTxn, dmJob, dmGw, dmFed, dmHurt, dmBounds, lmKept>> /\ DmRest
\* compensate_source, for whatever facts were written, in one transaction.
UndoFacts ==
    /\ dmPc = "undo"
    /\ lmRecord' = Compensated(lmRecord, DreamRef(dmJob.run))
    /\ Enqueues(lmRecord, lmRecord')
    /\ dmPc' = "restore"
    /\ UNCHANGED <<dmFiles, dmBackup, dmTxn, dmJob, dmGw, dmFed, dmHurt, dmBounds, lmOthers>> /\ DmRest

\* _restore_backup and the end of the transaction: dying between the two restores again.
UndoFiles ==
    /\ dmPc = "restore"
    /\ \E snap \in dmBackup[dmJob.run] :
            dmState' = snap.state /\ dmMem' = snap.mem /\ dmProf' = snap.prof
    /\ dmTxn' = dmTxn \ {dmJob.run}
    /\ dmPc' = "fail"
    /\ UNCHANGED <<dmBackup, dmJob, dmGw, dmFed, dmHurt, dmBounds, lmKept>> /\ DmRest

\* _process_range writes the state it had changed for the commit, as failed.
CommitFailed ==
    /\ dmPc = "fail"
    /\ dmState' = FailedState(Consumed(dmState))
    /\ dmGw' = [dmGw EXCEPT ![dmJob.run] = "failed"]
    /\ dmPc' = "idle" /\ dmJob' = NoDream
    /\ UNCHANGED <<dmMem, dmProf, dmBackup, dmTxn, dmFed, dmHurt, dmBounds, lmKept>> /\ DmRest

-----------------------------------------------------------------------------
(* rollback of the last successful run: file by file, then the facts.      *)

LastRun == dmState.runs[Len(dmState.runs)]
RollbackBegins ==
    /\ DmIdle /\ dmState.runs # <<>>
    /\ dmRolls < MaxRollbacks
    /\ dmRolls' = dmRolls + 1 /\ UNCHANGED <<dmRuns, dmFaults>>
    /\ \E snap \in dmBackup[LastRun] : dmState' = snap.state
    /\ dmJob' = [NoDream EXCEPT !.run = LastRun]
    /\ dmPc' = "rollback_memories"
    /\ UNCHANGED <<dmMem, dmProf, dmBackup, dmTxn, dmGw, dmFed, dmHurt, lmKept>> /\ DmRest
RollbackMemories ==
    /\ dmPc = "rollback_memories"
    /\ \E snap \in dmBackup[dmJob.run] : dmMem' = snap.mem /\ dmProf' = snap.prof
    /\ dmPc' = "rollback_facts"
    /\ UNCHANGED <<dmState, dmBackup, dmTxn, dmJob, dmGw, dmFed, dmHurt, dmBounds, lmKept>> /\ DmRest
\* compensate_source, in its own database, and the event of the Run.
RollbackFacts ==
    /\ dmPc = "rollback_facts"
    /\ lmRecord' = Compensated(lmRecord, DreamRef(dmJob.run))
    /\ Enqueues(lmRecord, lmRecord')
    /\ dmPc' = "idle" /\ dmJob' = NoDream
    /\ UNCHANGED <<dmFiles, dmBackup, dmTxn, dmGw, dmFed, dmHurt, dmBounds, lmOthers>> /\ DmRest

-----------------------------------------------------------------------------
(* A death, and _ensure at the next construction of the service.           *)

\* The transaction file is the only mark of what was going on; a rollback has none.
\* Dying in Ensure does it again.
DreamDies ==
    /\ dmPc \notin {"idle", "ensure"}
    /\ DmFault
    /\ dmGw' = [dmGw EXCEPT ![dmJob.run] = IF @ = "running" THEN "interrupted" ELSE @]
    /\ dmHurt' = dmHurt \cup (IF dmPc \in {"rollback_memories", "rollback_facts"} THEN {"died_in_rollback"}
                              ELSE IF dmPc \in {"facts", "memories", "state", "unlink", "undo"} /\ Wrote
                              THEN {"died_in_commit"} ELSE {})
    /\ dmPc' = "ensure" /\ dmJob' = NoDream
    /\ UNCHANGED <<dmFiles, dmBackup, dmTxn, dmFed, lmKept>> /\ DmRest

\* _ensure: the backup of every transaction is restored; the facts are not compensated.
Ensure ==
    /\ dmPc = "ensure"
    /\ IF dmTxn = {} THEN UNCHANGED dmFiles
       ELSE \E r \in dmTxn : \E snap \in dmBackup[r] :
                dmState' = snap.state /\ dmMem' = snap.mem /\ dmProf' = snap.prof
    /\ dmTxn' = {} /\ dmPc' = "idle"
    /\ UNCHANGED <<dmBackup, dmJob, dmGw, dmFed, dmHurt, dmBounds, lmKept>> /\ DmRest

-----------------------------------------------------------------------------
(* The user and the clock.                                                 *)

Says(e) ==
    /\ dmSaid[e] = 0
    /\ dmSaid' = [dmSaid EXCEPT ![e] = dmDay]
    /\ UNCHANGED <<dmDay, dmFiles, dmBackup, dmTxn, dmPc, dmJob, dmGw, dmPaused, dmHand, dmFed, dmHurt,
                   dmBounds, lmKept>>
NextDay ==
    /\ dmDay < MaxDays
    /\ dmDay' = dmDay + 1
    /\ UNCHANGED <<dmSaid, dmFiles, dmBackup, dmTxn, dmPc, dmJob, dmGw, dmPaused, dmHand, dmFed, dmHurt,
                   dmBounds, lmKept>>
\* The user edits the profile outside the managed section.
EditsProfile ==
    /\ dmHand < MaxDmEdits
    /\ dmHand' = dmHand + 1
    /\ dmProf' = [dmProf EXCEPT !.hand = dmHand + 1]
    /\ UNCHANGED <<dmDay, dmSaid, dmState, dmMem, dmBackup, dmTxn, dmPc, dmJob, dmGw, dmPaused, dmFed,
                   dmHurt, dmBounds, lmKept>>

DmInit ==
    /\ dmDay = 1
    /\ dmSaid = [e \in DmEvidence |-> 0]
    /\ dmState = [done |-> {}, runs |-> <<>>, completed |-> 0, attempted |-> 0, status |-> "none"]
    /\ dmMem = {} /\ dmProf = [hand |-> 0, managed |-> {}]
    /\ dmBackup = [r \in 1 .. MaxDreams |-> {}] /\ dmTxn = {}
    /\ dmPc = "idle" /\ dmJob = NoDream
    /\ dmGw = [r \in 1 .. MaxDreams |-> "none"]
    /\ dmPaused = FALSE /\ dmHand = 0
    /\ dmFed = [r \in 1 .. MaxDreams |-> {}] /\ dmHurt = {}
    /\ dmRuns = 0 /\ dmFaults = 0 /\ dmRolls = 0

DmNext ==
    \/ AdvanceCursor \/ Tick
    \/ \E d \in 1 .. dmDay : DreamDay(d) \/ DreamNoop(d)
    \/ \E c \in DmCandidates : Prepare(c)
    \/ AnswerInvalid \/ AnswersFail \/ DreamTimesOut \/ Pause \/ DreamResume
    \/ \E f \in LmIds : CommitFact(f)
    \/ CommitProfile \/ CommitMemories \/ CommitState \/ CommitEnds
    \/ CommitFails \/ UndoFacts \/ UndoFiles \/ CommitFailed
    \/ RollbackBegins \/ RollbackMemories \/ RollbackFacts
    \/ DreamDies \/ Ensure
    \/ \E e \in DmEvidence : Says(e)
    \/ NextDay \/ EditsProfile

DmSpec == LmInit /\ DmInit /\ [][DmNext]_<<dmVars, lmVars>>

-----------------------------------------------------------------------------
DmTypeOK ==
    /\ dmState.done \subseteq DmEvidence
    /\ dmTxn \subseteq 1 .. MaxDreams
    /\ dmPc \in {"idle", "model", "facts", "memories", "state", "unlink", "undo", "restore", "fail",
                 "rollback_memories", "rollback_facts", "ensure"}

SuccessfulRuns == {dmState.runs[n] : n \in DOMAIN dmState.runs}
\* state.json also lists a run whose commit failed; such a run does not count.
CountedRuns == {r \in SuccessfulRuns : dmGw[r] = "succeeded"}
\* Every entry of memories.json comes from a run that counts, by evidence that is
\* processed, and the profile has the active ones.
EntriesAgree ==
    /\ \A m \in dmMem : m.run \in CountedRuns /\ m.ev \subseteq dmState.done
    /\ dmProf.managed = ActiveFacts(dmMem)
\* The evidence state.json calls processed is what runs consumed.
EvidenceAgrees == dmState.done = UNION {dmFed[r] : r \in SuccessfulRuns}

\* Whatever fails, dies or is rolled back, the files of the Dream agree when it is at
\* rest (service.py, _commit, _ensure, rollback), except after a death inside a
\* rollback; for the processed evidence, also except after a failed commit.
DreamFilesAgree ==
    /\ DmIdle /\ dmHurt \subseteq {"died_in_commit", "failed_commit"} => EntriesAgree
    /\ DmIdle /\ dmHurt \subseteq {"died_in_commit"} => EvidenceAgrees

\* A structured fact that only one Dream run vouches for is recalled only while that run
\* counts: not once it is rolled back, and not when its commit failed at whatever fact
\* or file (service.py, rollback and _commit: compensate_source), as long as the process
\* did not die between the first fact and the end of the run or of its undoing.
FactsFollowRuns ==
    DmIdle /\ dmHurt \subseteq {"failed_commit"} =>
        \A i \in LmActive(lmRecord) : \A r \in 1 .. MaxDreams :
            lmRecord[i].refs = {DreamRef(r)} => r \in CountedRuns

\* A Dream run counts in its files and in the structured memory alike, or in neither.
DreamSound == DmTypeOK /\ DreamFilesAgree /\ FactsFollowRuns
=============================================================================
