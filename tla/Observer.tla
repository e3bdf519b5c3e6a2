------------------------------ MODULE Observer ------------------------------
(***************************************************************************)
(* The runtime Observer (gateway/observer.py) of one Run: the Run's events *)
(* are consumed in order by a durable offset, one transaction per event;   *)
(* the terminal event turns the state into evidence or, when the Run       *)
(* drifted from what the user asked, into a correction proposal that a     *)
(* user decides or that expires.  Evidence may become a Skill candidate,   *)
(* which a user approves and the Gateway publishes.                        *)
(*                                                                         *)
(* Two callers observe under one lock: the chain of tasks that the Runtime *)
(* schedules per event, and the recovery pass that runs at start and every *)
(* half second.  The Observer's own outputs are appended to the stream it  *)
(* reads.  Texts, prompts and the model's state are left out; what is kept *)
(* of the state is whether the Run drifted.                                *)
(***************************************************************************)
EXTENDS Naturals, Sequences

CONSTANTS
    MaxObEvents,    \* bound: events of the stream
    MaxObFaults,    \* bound: plugin or model failures
    MaxObDeaths     \* bound: deaths of the Gateway

VARIABLES
    obStream,       \* the Run's canonical events, by kind
    obRow,          \* observer_instances: status, last_event_offset, drift
    obVisible,      \* observer_visible_events marked visible
    obProposal,     \* observer_correction_proposals.status
    obEvidence,     \* events the evidence was derived from
    obChain,        \* events whose observation is scheduled
    obWork,         \* the observation that holds _consume_lock
    obOut,          \* outputs of the finished observation, still to record
    obPaused,       \* maintenance epoch set: "no", "asked", "idle"
    obCall,         \* the correction decision whose follow-up is being started
    obFollowed,     \* the follow-up Run exists
    obSettled,      \* a whole recovery pass ended since the last event or start
    obCand,         \* observer_skill_candidates.status
    obSkill,        \* the Skill on disk: "absent", "staged", "installed"
    obLive,         \* the active Runtime Generation has the Skill
    obStep,         \* where decide_observer_skill_candidate stands
    obUp, obFaults, obDeaths

obVars == << obStream, obRow, obVisible, obProposal, obEvidence, obChain, obWork, obOut, obPaused,
             obCall, obFollowed, obSettled, obCand, obSkill, obLive, obStep, obUp, obFaults, obDeaths >>
obSkills == << obCand, obSkill, obLive, obStep >>
obBounds == << obUp, obFaults, obDeaths >>
obCorrect == << obProposal, obEvidence, obCall, obFollowed >>

\* Kinds of events: _TERMINAL_TYPES, _OBSERVER_MODEL_TYPES, _VISIBLE_TYPES, other
\* events, and the Observer's own outputs.
ObKinds == {"terminal", "milestone", "text", "hidden"}
IsVisible(kind) == kind \in {"terminal", "milestone", "text"}
ModelKind(kind) == kind \in {"terminal", "milestone"}

NoInstance == [status |-> "none", offset |-> 0, drift |-> FALSE]
NoObservation == [by |-> "nobody", source |-> 0, pc |-> "none", out |-> 0]
Rested == obWork = NoObservation

-----------------------------------------------------------------------------
(* The Run. *)
ObEnded == \E n \in DOMAIN obStream : obStream[n] = "terminal"

\* RuntimePool._emit: the event is recorded and, if it is a milestone, one more
\* observation is chained.
ObEmit(kind) ==
    /\ obUp /\ ~ObEnded /\ Len(obStream) < MaxObEvents
    /\ kind # "terminal" => Len(obStream) < MaxObEvents - 2
    /\ obStream' = Append(obStream, kind)
    /\ obChain' = IF ModelKind(kind) THEN Append(obChain, Len(obStream) + 1) ELSE obChain
    /\ obSettled' = FALSE
    /\ UNCHANGED << obRow, obVisible, obCorrect, obWork, obOut, obPaused, obSkills, obBounds >>

-----------------------------------------------------------------------------
(* observe_event and _observe_event, under _consume_lock. *)

\* _schedule_observer: the head of the chain, when its predecessor is done.
ChainObserves ==
    /\ obUp /\ Rested /\ obChain # << >> /\ obOut = 0
    /\ obWork' = [by |-> "chain", source |-> Head(obChain),
                  pc |-> IF obPaused # "no" \/ obRow.status \notin {"none", "active"}
                         THEN "end" ELSE "read", out |-> 0]
    /\ obChain' = Tail(obChain)
    /\ UNCHANGED << obStream, obRow, obVisible, obCorrect, obOut, obPaused, obSettled, obSkills, obBounds >>

\* recover: every active instance is observed up to the last event of its stream.
RecoverObserves ==
    /\ obUp /\ Rested /\ obPaused = "no" /\ obRow.status = "active"
    /\ obWork' = [by |-> "recover", source |-> Len(obStream), pc |-> "read", out |-> 0]
    /\ UNCHANGED << obStream, obRow, obVisible, obCorrect, obChain, obOut, obPaused, obSettled, obSkills,
                    obBounds >>

\* read_stream(after_sequence=last_event_offset)
NextEvent == obRow.offset + 1

\* commit_event: the first one creates the row; the visible event, the state and
\* the offset are one transaction.
CommitEvent(n, drift) ==
    /\ obRow' = [status |-> "active", offset |-> n, drift |-> drift]
    /\ obVisible' = IF IsVisible(obStream[n]) THEN obVisible \cup {n} ELSE obVisible

\* One event: reduced by the model when it is a milestone, committed, and counted
\* as an output.
ObserveNext(drift) ==
    LET n == NextEvent IN
    /\ obWork.pc = "read" /\ n <= obWork.source
    /\ ~ModelKind(obStream[n]) => drift = obRow.drift
    /\ CommitEvent(n, drift)
    /\ obWork' = [obWork EXCEPT !.pc = IF obStream[n] = "terminal" THEN "finalize" ELSE "read",
                                !.out = IF obStream[n] = "milestone" THEN 1 ELSE @]
    /\ UNCHANGED << obStream, obCorrect, obChain, obOut, obPaused, obSettled, obSkills, obBounds >>

\* record_failure: an active instance is marked failed; without a row only the
\* Generation is blamed.
RecordFailure == obRow' = IF obRow.status = "active" THEN [obRow EXCEPT !.status = "failed"] ELSE obRow

\* _reduce raises: a timeout, a failing model, an invalid answer.
ObserverFails ==
    /\ obWork.pc = "read" /\ NextEvent <= obWork.source /\ ModelKind(obStream[NextEvent])
    /\ obFaults < MaxObFaults /\ obFaults' = obFaults + 1
    /\ RecordFailure
    /\ obWork' = NoObservation
    /\ UNCHANGED << obStream, obVisible, obCorrect, obChain, obOut, obPaused, obSettled, obSkills, obUp,
                    obDeaths >>

\* _insert_evidence_in_transaction: derived from the visible events in the store.
RuleEvidence == obEvidence' = obVisible

\* finalize_or_propose
FinalizeOrPropose ==
    /\ obRow' = [obRow EXCEPT !.status = "finalized"]
    /\ IF obRow.drift /\ obEvidence = {}
       THEN /\ obProposal' = IF obProposal = "none" THEN "pending" ELSE obProposal
            /\ UNCHANGED obEvidence
       ELSE /\ IF obEvidence = {} THEN RuleEvidence ELSE UNCHANGED obEvidence
            /\ UNCHANGED obProposal
ObserveTerminal ==
    /\ obWork.pc = "finalize"
    /\ FinalizeOrPropose
    /\ obWork' = [obWork EXCEPT !.pc = "end", !.out = IF obRow.drift THEN 1 ELSE @]
    /\ UNCHANGED << obStream, obVisible, obCall, obFollowed, obChain, obOut, obPaused, obSettled, obSkills, obBounds >>

\* Slip: the pass ends without looking at a terminal event consumed before.
ReconcileNothing ==
    /\ obWork.pc = "read" /\ obWork.source < NextEvent
    /\ UNCHANGED << obRow, obProposal, obEvidence >>
    /\ obWork' = [obWork EXCEPT !.pc = "end"]
    /\ UNCHANGED << obStream, obVisible, obCall, obFollowed, obChain, obOut, obPaused, obSettled,
                    obSkills, obBounds >>

\* Nothing left to read: a terminal event that was committed before a death is
\* finalized now.
ObserveReconciles ==
    /\ obWork.pc = "read" /\ obWork.source < NextEvent
    /\ IF obWork.source > 0 /\ obStream[obWork.source] = "terminal" /\ obRow.status = "active"
       THEN FinalizeOrPropose
       ELSE UNCHANGED << obRow, obProposal, obEvidence >>
    /\ obWork' = [obWork EXCEPT !.pc = "end"]
    /\ UNCHANGED << obStream, obVisible, obCall, obFollowed, obChain, obOut, obPaused, obSettled,
                    obSkills, obBounds >>

\* The lock is released; the recovery pass drops its outputs.
ObserveEnds ==
    /\ obWork.pc = "end"
    /\ obOut' = IF obWork.by = "recover" THEN obOut ELSE obWork.out
    /\ obSettled' = (obSettled \/ (obWork.by = "recover" /\ obWork.source = Len(obStream)))
    /\ obWork' = NoObservation
    /\ UNCHANGED << obStream, obRow, obVisible, obCorrect, obChain, obPaused, obSkills, obBounds >>

\* The chain's task records the outputs as events of the same Run.
RecordOutput ==
    /\ obUp /\ Rested /\ obOut > 0 /\ Len(obStream) < MaxObEvents
    /\ obStream' = Append(obStream, "output")
    /\ obOut' = 0 /\ obSettled' = FALSE
    /\ UNCHANGED << obRow, obVisible, obCorrect, obChain, obWork, obPaused, obSkills, obBounds >>

-----------------------------------------------------------------------------
(* Maintenance: the epoch stops new observations, the barrier waits for the lock. *)
ObserverQuiesce ==
    /\ obUp /\ obPaused = "no" /\ obPaused' = "asked"
    /\ UNCHANGED << obStream, obRow, obVisible, obCorrect, obChain, obWork, obOut, obSettled, obSkills, obBounds >>
ConsumeBarrier ==
    /\ obPaused = "asked" /\ Rested /\ obPaused' = "idle"
    /\ UNCHANGED << obStream, obRow, obVisible, obCorrect, obChain, obWork, obOut, obSettled, obSkills, obBounds >>
ObserverResume ==
    /\ obPaused = "idle" /\ obPaused' = "no"
    /\ UNCHANGED << obStream, obRow, obVisible, obCorrect, obChain, obWork, obOut, obSettled, obSkills, obBounds >>

-----------------------------------------------------------------------------
(* The correction proposal. *)

\* expire_due and _timeout
ExpireProposal ==
    /\ obUp /\ obPaused = "no" /\ obProposal = "pending"
    /\ obProposal' = "timed_out" /\ RuleEvidence
    /\ obRow' = [obRow EXCEPT !.status = "finalized"]
    /\ UNCHANGED << obStream, obVisible, obCall, obFollowed, obChain, obWork, obOut, obPaused, obSettled,
                    obSkills, obBounds >>

\* decide_correction: the first decision inserts the evidence, the same decision
\* again is answered from it, another one is refused.
DecideCorrection(action) ==
    /\ obUp /\ obCall = "none"
    /\ \/ /\ obProposal = "pending"
          /\ obProposal' = action /\ RuleEvidence
          /\ obRow' = [obRow EXCEPT !.status = "finalized"]
       \/ /\ obProposal = action
          /\ UNCHANGED << obProposal, obEvidence, obRow >>
    /\ obCall' = action
    /\ UNCHANGED << obStream, obVisible, obFollowed, obChain, obWork, obOut, obPaused, obSettled, obSkills,
                    obBounds >>

\* decide_observer_correction starts the follow-up Run with the proposal's
\* idempotency key.
StartFollowup ==
    /\ obUp /\ obCall # "none" /\ obCall' = "none"
    /\ obFollowed' = (obFollowed \/ obCall = "adopted")
    /\ UNCHANGED << obStream, obRow, obVisible, obProposal, obEvidence, obChain, obWork, obOut, obPaused,
                    obSettled, obSkills, obBounds >>

-----------------------------------------------------------------------------
(* Skill candidates.  The evidence of enough other Runs of the profile is assumed. *)
ObRest == UNCHANGED << obStream, obRow, obVisible, obCorrect, obChain, obWork, obOut, obPaused, obSettled,
                       obBounds >>

CreateSkillCandidate ==
    /\ obUp /\ obEvidence # {} /\ obCand = "none"
    /\ obCand' = "awaiting_approval"
    /\ UNCHANGED << obSkill, obLive, obStep >> /\ ObRest

DecideSkillCandidate(approved) ==
    /\ obUp /\ obStep = "idle"
    /\ obCand \in {"awaiting_approval", IF approved THEN "approved" ELSE "rejected"}
    /\ obCand' = IF approved THEN "approved" ELSE "rejected"
    /\ obStep' = IF approved THEN "write" ELSE "idle"
    /\ UNCHANGED << obSkill, obLive >> /\ ObRest

\* A target with the same content is taken as written; a staging directory that a
\* dead process left makes mkdir raise.
StageSkill ==
    /\ obStep = "write"
    /\ \/ obSkill = "installed" /\ obStep' = "reload" /\ UNCHANGED obSkill
       \/ obSkill = "absent" /\ obSkill' = "staged" /\ obStep' = "install"
       \/ obSkill = "staged" /\ obStep' = "idle" /\ UNCHANGED obSkill
    /\ UNCHANGED << obCand, obLive >> /\ ObRest
InstallSkill ==
    /\ obStep = "install"
    /\ \/ obSkill' = "installed" /\ obStep' = "reload"
       \/ obSkill' = "absent" /\ obStep' = "idle"      \* an exception cleans the staging up
    /\ UNCHANGED << obCand, obLive >> /\ ObRest

ReloadWithSkill ==
    /\ obStep = "reload"
    /\ \/ obLive' = TRUE /\ obStep' = "publish"
       \/ UNCHANGED obLive /\ obStep' = "idle"
    /\ UNCHANGED << obCand, obSkill >> /\ ObRest
MarkSkillPublished ==
    /\ obStep = "publish"
    /\ obCand' = "published" /\ obStep' = "idle"
    /\ UNCHANGED << obSkill, obLive >> /\ ObRest

-----------------------------------------------------------------------------
ObserverDies ==
    /\ obUp /\ obDeaths < MaxObDeaths
    /\ obUp' = FALSE /\ obDeaths' = obDeaths + 1
    /\ obChain' = << >> /\ obWork' = NoObservation /\ obOut' = 0
    /\ obPaused' = "no" /\ obCall' = "none" /\ obStep' = "idle" /\ obSettled' = FALSE
    /\ UNCHANGED << obStream, obRow, obVisible, obProposal, obEvidence, obFollowed, obCand, obSkill, obLive,
                    obFaults >>
ObserverRestarts ==
    /\ ~obUp /\ obUp' = TRUE
    /\ UNCHANGED << obStream, obRow, obVisible, obCorrect, obChain, obWork, obOut, obPaused, obSettled,
                    obSkills, obFaults, obDeaths >>

ObInit ==
    /\ obStream = << >> /\ obRow = NoInstance /\ obVisible = {}
    /\ obProposal = "none" /\ obEvidence = {} /\ obChain = << >> /\ obWork = NoObservation /\ obOut = 0
    /\ obPaused = "no" /\ obCall = "none" /\ obFollowed = FALSE /\ obSettled = FALSE
    /\ obCand = "none" /\ obSkill = "absent" /\ obLive = FALSE /\ obStep = "idle"
    /\ obUp = TRUE /\ obFaults = 0 /\ obDeaths = 0

ObNext ==
    \/ \E kind \in ObKinds : ObEmit(kind)
    \/ ChainObserves \/ RecoverObserves
    \/ \E drift \in BOOLEAN : ObserveNext(drift)
    \/ ObserverFails \/ ObserveTerminal \/ ObserveReconciles \/ ObserveEnds \/ RecordOutput
    \/ ObserverQuiesce \/ ConsumeBarrier \/ ObserverResume
    \/ ExpireProposal \/ \E a \in {"adopted", "rejected"} : DecideCorrection(a)
    \/ StartFollowup
    \/ CreateSkillCandidate \/ \E ok \in BOOLEAN : DecideSkillCandidate(ok)
    \/ StageSkill \/ InstallSkill \/ ReloadWithSkill \/ MarkSkillPublished
    \/ ObserverDies \/ ObserverRestarts

ObSpec == ObInit /\ [][ObNext]_obVars

-----------------------------------------------------------------------------
TerminalAt == CHOOSE n \in DOMAIN obStream : obStream[n] = "terminal"

\* Whoever observed, died or was paused in between, the evidence of a Run is
\* derived from every visible event of it (observer.py, _observe_event and
\* _insert_evidence_in_transaction).
EvidenceIsComplete ==
    obEvidence # {} =>
        /\ ObEnded
        /\ obEvidence = {n \in 1 .. TerminalAt : IsVisible(obStream[n])}

\* Once a recovery pass has gone over a Run whose last event is its terminal one,
\* the instance is no longer active, even when a process died between the commit of
\* the terminal event and the evidence (observer.py, "Reconcile that exact terminal
\* fact"); not when an output was recorded after the terminal event.
RecoverySettles ==
    obSettled /\ obStream # << >> /\ obStream[Len(obStream)] = "terminal" => obRow.status # "active"

\* A published Skill is on disk and in the active Generation (application.py,
\* decide_observer_skill_candidate).
PublishedIsLive == obCand = "published" => obSkill = "installed" /\ obLive

\* What was observed of a Run and what came of it survive deaths, pauses and
\* recovery passes: whole evidence, settled instances, live Skills.
ObserverSound == EvidenceIsComplete /\ RecoverySettles /\ PublishedIsLive
=============================================================================
