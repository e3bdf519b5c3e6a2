------------------------ MODULE StateControllerProofs ------------------------
(***************************************************************************)
(* Proofs about three groups of tables the StateController owns: the       *)
(* attempts of OperationLedger, the Plugin Generations, and the grants and *)
(* health of ExtensionHooks; and about the maintenance gate beside them.   *)
(*                                                                         *)
(* Ledger, for every set of Operations, metadata, retry policy and set of  *)
(* Approvals.  Every command that writes operation_attempts replaces one   *)
(* Attempt or appends one.  GoodHistory is what each single history must   *)
(* satisfy for that to be safe, Writes what such a write does to it; the   *)
(* theorems about Approvals, checkpoints and observations follow from both.*)
(*                                                                         *)
(* Generations (Gn), for every number of rows, content, threads, Runs and  *)
(* dispatches: GenInv ties what a thread holds between two transactions to *)
(* the rows it was read from.                                              *)
(*                                                                         *)
(* Hooks (Xh), for every set of sources and Runs: XhInv ties the failure   *)
(* streak to the audit log, and a running call to the trace it was opened  *)
(* with.                                                                   *)
(*                                                                         *)
(* Maintenance gate (Mn), for every set of works, participants and         *)
(* members: MnInv says what the gate can be at each step of the            *)
(* coordinator, and what a backup relies on while it copies.               *)
(***************************************************************************)
EXTENDS OperationLedger, Generations, ExtensionHooks, Maintenance,
        SequenceTheorems, FiniteSetTheorems, WellFoundedInduction, TLAPS

(* The inductive core: what holds of one Attempt history. *)
GoodHistory(h) ==
  /\ h \in Seq(Attempts)
  /\ \A i \in 1..Len(h) : WellFormedAttempt(h[i])
  /\ \A i \in 1..Len(h) : h[i].status \in { "prepared", "running" } => i = Len(h)
  /\ \A i \in 1..Len(h) : i < Len(h) /\ h[i].status = "unknown" => h[i].risk
  /\ \A i \in 1..Len(h) :
       h[i].status = "unknown" /\ h[i].res = "retry_authorized" => h[i].risk
  /\ \A i \in 1..Len(h) : h[i].status \in { "prepared", "skipped" } => ~ h[i].started
  /\ h # << >> => Reducible(h)

(* A later version of a history keeps its length and its determined part.  *)
Keeps(h, g) ==
  /\ Len(h) <= Len(g)
  /\ \A i \in 1..Len(h) : h[i].status \in Determined => g[i] = h[i]

-----------------------------------------------------------------------------
(* Replacing a live or UNKNOWN Attempt keeps a history good.               *)
LEMMA UpdateIsGood ==
  ASSUME NEW h, GoodHistory(h), NEW i \in 1..Len(h), NEW new \in Attempts,
         h[i].status \notin Determined,
         WellFormedAttempt(new),
         new.status \in { "prepared", "running" } =>
           h[i].status \in { "prepared", "running" },
         new.status = "unknown" =>
           \/ h[i].status = "running"
           \/ h[i].status = "unknown" /\ (h[i].risk => new.risk),
         new.status = "unknown" /\ new.res = "retry_authorized" => new.risk,
         new.status \in { "prepared", "skipped" } => ~ new.started,
         Reducible([ h EXCEPT ![i] = new ])
  PROVE  /\ GoodHistory([ h EXCEPT ![i] = new ])
         /\ Keeps(h, [ h EXCEPT ![i] = new ])
         /\ [ h EXCEPT ![i] = new ] # << >>
         /\ Len([ h EXCEPT ![i] = new ]) = Len(h)
<1> DEFINE g == [ h EXCEPT ![i] = new ]
<1>1. h \in Seq(Attempts)
  BY DEF GoodHistory
<1>2. /\ g \in Seq(Attempts)
      /\ Len(g) = Len(h)
      /\ \A j \in 1..Len(h) : g[j] = IF j = i THEN new ELSE h[j]
  BY <1>1, ExceptSeq
<1>3. g # << >>
  BY <1>1, <1>2
<1>4. Keeps(h, g)
  BY <1>1, <1>2 DEF Keeps
<1>5. GoodHistory(g)
  <2> HIDE DEF g
  <2>1. \A j \in 1..Len(g) : WellFormedAttempt(g[j])
    BY <1>2 DEF GoodHistory
  <2>2. \A j \in 1..Len(g) : g[j].status \in { "prepared", "running" } => j = Len(g)
    BY <1>2 DEF GoodHistory
  <2>3. \A j \in 1..Len(g) : j < Len(g) /\ g[j].status = "unknown" => g[j].risk
    BY <1>2 DEF GoodHistory
  <2>4. \A j \in 1..Len(g) :
          g[j].status = "unknown" /\ g[j].res = "retry_authorized" => g[j].risk
    BY <1>2 DEF GoodHistory
  <2>5. \A j \in 1..Len(g) : g[j].status \in { "prepared", "skipped" } => ~ g[j].started
    BY <1>2 DEF GoodHistory
  <2>6. Reducible(g)
    BY DEF g
  <2> QED
    BY <1>2, <2>1, <2>2, <2>3, <2>4, <2>5, <2>6 DEF GoodHistory
<1> QED
  BY <1>2, <1>3, <1>4, <1>5

(* So does appending a new PREPARED Attempt: the reducer refuses it while  *)
(* another Attempt is active, and an UNKNOWN one must be authorised.       *)
LEMMA AppendIsGood ==
  ASSUME NEW h, GoodHistory(h), NEW risk \in BOOLEAN,
         h # << >> /\ h[Len(h)].status = "unknown" =>
           h[Len(h)].res = "retry_authorized",
         Reducible(Append(h, NewAttempt(risk)))
  PROVE  /\ GoodHistory(Append(h, NewAttempt(risk)))
         /\ Keeps(h, Append(h, NewAttempt(risk)))
         /\ Append(h, NewAttempt(risk)) # << >>
         /\ Len(Append(h, NewAttempt(risk))) = Len(h) + 1
<1> DEFINE new == NewAttempt(risk)
           g == Append(h, new)
<1>1. h \in Seq(Attempts)
  BY DEF GoodHistory
<1>2. /\ new \in Attempts
      /\ new.status = "prepared"
      /\ ~ new.started
      /\ WellFormedAttempt(new)
      /\ IsActive(new)
  BY DEF NewAttempt, Attempts, AttemptStatus, FailureKinds, Resolutions, None,
         WellFormedAttempt, IsActive
<1> HIDE DEF new
<1>3. /\ g \in Seq(Attempts)
      /\ Len(g) = Len(h) + 1
      /\ \A j \in 1..Len(h) : g[j] = h[j]
      /\ g[Len(h) + 1] = new
  BY <1>1, <1>2, AppendProperties
<1>4. Len(h) \in Nat
  BY <1>1
<1>5. Keeps(h, g)
  BY <1>3, <1>4 DEF Keeps
<1>6. Reducible(g)
  BY DEF new
<1>7. g # << >>
  BY <1>6 DEF Reducible
<1> HIDE DEF g
<1>8. \A j \in 1..Len(h) : ~ IsActive(h[j])
  <2> SUFFICES ASSUME NEW j \in 1..Len(h), IsActive(h[j])
               PROVE  FALSE
    OBVIOUS
  <2>1. j \in 1..Len(g) /\ Len(h) + 1 \in 1..Len(g) /\ j # Len(h) + 1
    BY <1>3, <1>4
  <2> QED
    BY <2>1, <1>2, <1>3, <1>6 DEF Reducible
<1>9. GoodHistory(g)
  <2>0. \A j \in 1..Len(g) : j \in 1..Len(h) \/ j = Len(h) + 1
    BY <1>3, <1>4
  <2>1. \A j \in 1..Len(g) : WellFormedAttempt(g[j])
    BY <1>2, <1>3, <2>0 DEF GoodHistory
  <2>2. \A j \in 1..Len(g) : g[j].status \in { "prepared", "running" } => j = Len(g)
    BY <1>3, <1>8, <2>0 DEF IsActive
  <2>3. \A j \in 1..Len(g) : j < Len(g) /\ g[j].status = "unknown" => g[j].risk
    <3> SUFFICES ASSUME NEW j \in 1..Len(g), j < Len(g), g[j].status = "unknown"
                 PROVE  g[j].risk
      OBVIOUS
    <3>1. j \in 1..Len(h) /\ g[j] = h[j]
      BY <1>3, <1>4
    <3>2. CASE j = Len(h)
      <4>1. h # << >>
        BY <1>1, <3>1
      <4> QED
        BY <3>1, <3>2, <4>1 DEF GoodHistory
    <3>3. CASE j # Len(h)
      <4>1. j < Len(h)
        BY <3>1, <3>3, <1>4
      <4> QED
        BY <3>1, <4>1 DEF GoodHistory
    <3> QED
      BY <3>2, <3>3
  <2>4. \A j \in 1..Len(g) :
          g[j].status = "unknown" /\ g[j].res = "retry_authorized" => g[j].risk
    BY <1>2, <1>3, <2>0 DEF GoodHistory
  <2>5. \A j \in 1..Len(g) : g[j].status \in { "prepared", "skipped" } => ~ g[j].started
    BY <1>2, <1>3, <2>0 DEF GoodHistory
  <2> QED
    BY <1>3, <1>6, <2>1, <2>2, <2>3, <2>4, <2>5 DEF GoodHistory
<1> QED
  BY <1>3, <1>5, <1>7, <1>9 DEF g, new

-----------------------------------------------------------------------------
(* The inductive invariant, and what a command that writes the ledger does. *)
HistoriesGood ==
  /\ \A o \in Ops : GoodHistory(attempts[o])
  /\ \A o \in Ops : ~ Exists(o) => aggregate[o] = NoAggregate

ObservedDetermined ==
  \A o \in Ops : observation[o] # NoObservation => observation[o].shown \in Determined

LedgerInv ==
  /\ TypeOK
  /\ HistoriesGood
  /\ AggregateIsReduction
  /\ RefusedNeverStarted
  /\ CheckpointStaysDetermined
  /\ ObservationAgreesWithLedger
  /\ ObservedDetermined

Writes(o, h) ==
  /\ GoodHistory(h)
  /\ h # << >>
  /\ Keeps(attempts[o], h)
  /\ attempts' = [ attempts EXCEPT ![o] = h ]
  /\ aggregate' = [ aggregate EXCEPT ![o] = reduce_operation(h, MaxAttempts) ]
  /\ Len(h) # Last(o) =>
       /\ Len(h) = Last(o) + 1
       /\ Len(h) <= MaxAttempts
       /\ aggregate[o].status \notin { "completed", "skipped" }

(* update_attempt is a ledger step when the new record is a legal          *)
(* successor of the old one.                                               *)
LEMMA UpdateWrites ==
  ASSUME LedgerInv, NEW o \in Ops, NEW i, NEW allowed, NEW new,
         update_attempt(o, i, allowed, new),
         allowed \cap Determined = {},
         new \in Attempts,
         WellFormedAttempt(new),
         new.status \in { "prepared", "running" } =>
           attempts[o][i].status \in { "prepared", "running" },
         new.status = "unknown" =>
           \/ attempts[o][i].status = "running"
           \/ attempts[o][i].status = "unknown" /\ (attempts[o][i].risk => new.risk),
         new.status = "unknown" /\ new.res = "retry_authorized" => new.risk,
         new.status \in { "prepared", "skipped" } => ~ new.started
  PROVE  Writes(o, [ attempts[o] EXCEPT ![i] = new ])
<1>1. GoodHistory(attempts[o])
  BY DEF LedgerInv, HistoriesGood
<1>2. i \in 1..Len(attempts[o]) /\ attempts[o][i].status \notin Determined
  BY DEF update_attempt, Last
<1>3. Reducible([ attempts[o] EXCEPT ![i] = new ])
  BY DEF update_attempt, aggregate_operation
<1>4. /\ GoodHistory([ attempts[o] EXCEPT ![i] = new ])
      /\ Keeps(attempts[o], [ attempts[o] EXCEPT ![i] = new ])
      /\ [ attempts[o] EXCEPT ![i] = new ] # << >>
      /\ Len([ attempts[o] EXCEPT ![i] = new ]) = Len(attempts[o])
  BY <1>1, <1>2, <1>3, UpdateIsGood
<1> QED
  BY <1>4 DEF Writes, update_attempt, aggregate_operation, Last

(* Facts about a stored Attempt that every action lemma needs.             *)
LEMMA AttemptFacts ==
  ASSUME LedgerInv, NEW o \in Ops, NEW i \in 1..Last(o)
  PROVE  /\ attempts[o][i] \in Attempts
         /\ WellFormedAttempt(attempts[o][i])
         /\ attempts[o][i].status \in { "prepared", "skipped" } => ~ attempts[o][i].started
         /\ attempts[o][i].status = "unknown" /\ attempts[o][i].res = "retry_authorized"
              => attempts[o][i].risk
<1>1. GoodHistory(attempts[o])
  BY DEF LedgerInv, HistoriesGood
<1> QED
  BY <1>1 DEF GoodHistory, Last

-----------------------------------------------------------------------------
(* One lemma per group of commands: each writes the ledger or leaves it.   *)

LEMMA CreateWrites ==
  ASSUME LedgerInv, NEW o \in Ops, Create(o)
  PROVE  \E h : Writes(o, h)
<1> DEFINE h == << NewAttempt(FALSE) >>
<1>1. attempts[o] = << >> /\ GoodHistory(attempts[o]) /\ aggregate[o] = NoAggregate
  BY DEF LedgerInv, HistoriesGood, Create, CreateOperationWithAttempt,
         BeginOperation, Exists
<1>2. h = Append(attempts[o], NewAttempt(FALSE)) /\ Reducible(h)
  BY <1>1 DEF Reducible
<1>3. /\ GoodHistory(h) /\ Keeps(attempts[o], h) /\ h # << >>
      /\ Len(h) = Len(attempts[o]) + 1
  BY <1>1, <1>2, AppendIsGood
<1>4. reduce_operation(h, MaxAttempts) = [ status |-> "prepared", kind |-> None ]
  BY DEF reduce_operation, NewAttempt
<1>5. attempts' = [ attempts EXCEPT ![o] = h ]
  BY DEF Create, CreateOperationWithAttempt, BeginOperation, aggregate_operation
<1>6. aggregate' = [ aggregate EXCEPT ![o] = reduce_operation(h, MaxAttempts) ]
  BY <1>4 DEF Create, CreateOperationWithAttempt, BeginOperation, aggregate_operation
<1>7. Len(h) = 1 /\ 1 <= MaxAttempts /\ aggregate[o].status = None
  BY <1>1, MaxAttemptsAssumption DEF NoAggregate
<1> HIDE DEF h
<1>8. Writes(o, h)
  BY <1>3, <1>5, <1>6, <1>7 DEF Writes, Last, None
<1> QED
  BY <1>8

LEMMA BeginWrites ==
  ASSUME LedgerInv, NEW o \in Ops, NEW risk \in BOOLEAN,
         BeginOperationAttempt(o, risk)
  PROVE  \E h : Writes(o, h)
<1> DEFINE h == Append(attempts[o], NewAttempt(risk))
<1>1. GoodHistory(attempts[o]) /\ attempts[o] \in Seq(Attempts)
  BY DEF LedgerInv, HistoriesGood, GoodHistory
<1>2. /\ Reducible(h)
      /\ attempts' = [ attempts EXCEPT ![o] = h ]
      /\ aggregate' = [ aggregate EXCEPT ![o] = reduce_operation(h, MaxAttempts) ]
  BY DEF BeginOperationAttempt, aggregate_operation
<1>3. /\ attempts[o][Len(attempts[o])].status = "unknown" =>
           attempts[o][Len(attempts[o])].res = "retry_authorized"
      /\ Len(attempts[o]) < MaxAttempts
      /\ aggregate[o].status \notin { "completed", "skipped" }
  BY DEF BeginOperationAttempt, MayBegin
<1>4. /\ GoodHistory(h) /\ Keeps(attempts[o], h) /\ h # << >>
      /\ Len(h) = Len(attempts[o]) + 1
  BY <1>1, <1>2, <1>3, AppendIsGood
<1>5. Len(attempts[o]) \in Nat
  BY <1>1
<1> HIDE DEF h
<1>6. Writes(o, h)
  BY <1>2, <1>3, <1>4, <1>5, MaxAttemptsAssumption DEF Writes, Last
<1> QED
  BY <1>6

(* reconcile() turns an Attempt in doubt into a well-formed one and never  *)
(* touches the record of who took the risk.                                *)
LEMMA ReconciledFacts ==
  ASSUME NEW a \in Attempts, WellFormedAttempt(a),
         a.status \in { "running", "unknown" },
         NEW result \in ReconcileStatus
  PROVE  /\ Reconciled(a, result) \in Attempts
         /\ WellFormedAttempt(Reconciled(a, result))
         /\ Reconciled(a, result).status \notin { "prepared", "running", "skipped" }
         /\ Reconciled(a, result).risk = a.risk
         /\ ~ ( /\ Reconciled(a, result).status = "unknown"
               /\ Reconciled(a, result).res = "retry_authorized" )
<1> USE DEF Attempts, AttemptStatus, FailureKinds, Resolutions, None,
            WellFormedAttempt
<1>1. CASE result = "completed" /\ a.status = "unknown"
  <2>1. Reconciled(a, result) = [ a EXCEPT !.res = "confirmed_succeeded" ]
    BY <1>1 DEF Reconciled
  <2> QED
    BY <1>1, <2>1
<1>2. CASE result = "completed" /\ a.status = "running"
  <2>1. Reconciled(a, result) =
          [ a EXCEPT !.status = "completed", !.kind = None, !.res = None ]
    BY <1>2 DEF Reconciled
  <2> QED
    BY <1>2, <2>1
<1>3. CASE result = "not_applied"
  BY <1>3 DEF Reconciled
<1>4. CASE result = "failed" /\ a.status = "unknown"
  <2>1. Reconciled(a, result) = [ a EXCEPT !.res = "confirmed_failed" ]
    BY <1>4 DEF Reconciled
  <2> QED
    BY <1>4, <2>1
<1>5. CASE result = "failed" /\ a.status = "running"
  <2>1. Reconciled(a, result) =
          [ a EXCEPT !.status = "failed", !.kind = "terminal", !.res = None ]
    BY <1>5 DEF Reconciled
  <2> QED
    BY <1>5, <2>1
<1>6. CASE result = "unknown"
  BY <1>6 DEF Reconciled
<1> QED
  BY <1>1, <1>2, <1>3, <1>4, <1>5, <1>6 DEF ReconcileStatus

LEMMA AttemptStepWrites ==
  ASSUME LedgerInv, NEW o \in Ops, NEW i \in 1..Last(o), AttemptStep(o, i)
  PROVE  \E h : Writes(o, h)
<1> USE DEF Attempts, AttemptStatus, FailureKinds, Resolutions, None,
            WellFormedAttempt, Determined
<1> DEFINE a == attempts[o][i]
<1>0. /\ a \in Attempts
      /\ WellFormedAttempt(a)
      /\ a.status \in { "prepared", "skipped" } => ~ a.started
  BY AttemptFacts
<1>1. CASE StartOperationAttempt(o, i)
  BY <1>0, <1>1, UpdateWrites DEF StartOperationAttempt, update_attempt
<1>2. CASE CompleteOperationAttempt(o, i)
  <2> DEFINE new == [ a EXCEPT !.status = "completed", !.kind = None, !.res = None ]
  <2>1. new \in Attempts /\ WellFormedAttempt(new) /\ new.status = "completed"
    BY <1>0
  <2>2. update_attempt(o, i, { "running", "unknown" }, new)
    BY <1>2 DEF CompleteOperationAttempt
  <2> HIDE DEF new
  <2> QED
    BY <2>1, <2>2, UpdateWrites
<1>3. CASE \E kind \in { "terminal", "retryable" } : FailOperationAttempt(o, i, kind)
  <2>1. PICK kind \in { "terminal", "retryable" } : FailOperationAttempt(o, i, kind)
    BY <1>3
  <2> DEFINE new == [ a EXCEPT !.status = "failed", !.kind = kind ]
  <2>2. new \in Attempts /\ WellFormedAttempt(new) /\ new.status = "failed"
    BY <1>0
  <2>3. update_attempt(o, i, { "prepared", "running" }, new)
    BY <2>1 DEF FailOperationAttempt
  <2> HIDE DEF new
  <2> QED
    BY <2>2, <2>3, UpdateWrites
<1>4. CASE MarkOperationAttemptUnknown(o, i)
  BY <1>0, <1>4, UpdateWrites DEF MarkOperationAttemptUnknown, update_attempt
<1>5. CASE SkipOperationAttempt(o, i)
  BY <1>0, <1>5, UpdateWrites DEF SkipOperationAttempt, update_attempt
<1>6. CASE AbandonOperationAttempt(o, i)
  BY <1>0, <1>6, UpdateWrites DEF AbandonOperationAttempt, update_attempt
<1>7. CASE \E result \in ReconcileStatus : ReconcileOperationAttempt(o, i, result)
  <2>1. PICK result \in ReconcileStatus : ReconcileOperationAttempt(o, i, result)
    BY <1>7
  <2> DEFINE new == Reconciled(a, result)
  <2>2. update_attempt(o, i, { "running", "unknown" }, new)
    BY <2>1 DEF ReconcileOperationAttempt
  <2>3. a.status \in { "running", "unknown" }
    BY <2>2 DEF update_attempt
  <2>4. /\ new \in Attempts
        /\ WellFormedAttempt(new)
        /\ new.status \notin { "prepared", "running", "skipped" }
        /\ new.risk = a.risk
        /\ ~ (new.status = "unknown" /\ new.res = "retry_authorized")
    BY <1>0, <2>1, <2>3, ReconciledFacts
  <2> HIDE DEF new
  <2> QED
    BY <2>2, <2>3, <2>4, UpdateWrites
<1> QED
  BY <1>1, <1>2, <1>3, <1>4, <1>5, <1>6, <1>7 DEF AttemptStep

(* The Operation-level commands are Attempt steps on the latest Attempt.   *)
LEMMA OperationStepWrites ==
  ASSUME LedgerInv, NEW o \in Ops, OperationStep(o)
  PROVE  \E h : Writes(o, h)
<1>1. attempts[o] \in Seq(Attempts) /\ attempts[o] # << >>
  BY DEF OperationStep, StartOperation, CompleteOperation, FailOperation,
         MarkOperationUnknown, AbandonOperation, ReconcileOperation, Exists,
         LedgerInv, HistoriesGood, GoodHistory
<1>2. Last(o) \in 1..Last(o)
  BY <1>1 DEF Last
<1>3. AttemptStep(o, Last(o))
  BY DEF OperationStep, StartOperation, CompleteOperation, FailOperation,
         MarkOperationUnknown, AbandonOperation, ReconcileOperation, AttemptStep
<1> QED
  BY <1>2, <1>3, AttemptStepWrites

LEMMA RecoveryStepWrites ==
  ASSUME LedgerInv, NEW o \in Ops, RecoveryStep(o)
  PROVE  \E h : Writes(o, h)
<1> DEFINE a == attempts[o][Last(o)]
<1>1. /\ attempts[o] \in Seq(Attempts) /\ attempts[o] # << >>
      /\ GoodHistory(attempts[o]) /\ Reducible(attempts[o])
  BY DEF RecoveryStep, RecoverConfirmSucceeded, RecoverRetry, RecoverFail, Exists,
         LedgerInv, HistoriesGood, GoodHistory
<1>2. Last(o) \in 1..Last(o)
  BY <1>1 DEF Last
<1>3. /\ a \in Attempts
      /\ WellFormedAttempt(a)
      /\ a.status \in { "prepared", "skipped" } => ~ a.started
  BY <1>2, AttemptFacts
<1>4. CASE RecoverConfirmSucceeded(o)
  BY <1>2, <1>3, <1>4, UpdateWrites
     DEF RecoverConfirmSucceeded, Latest, update_attempt, Attempts, AttemptStatus,
         FailureKinds, Resolutions, None, WellFormedAttempt, Determined
<1>5. CASE RecoverFail(o)
  BY <1>2, <1>3, <1>5, UpdateWrites
     DEF RecoverFail, Latest, update_attempt, Attempts, AttemptStatus,
         FailureKinds, Resolutions, None, WellFormedAttempt, Determined
<1>6. ASSUME NEW risk \in BOOLEAN, RecoverRetry(o, risk)
      PROVE  \E h : Writes(o, h)
  <2> DEFINE new == [ a EXCEPT !.res = "retry_authorized", !.risk = TRUE ]
             mid == IF a.status = "unknown" THEN [ attempts[o] EXCEPT ![Last(o)] = new ]
                                            ELSE attempts[o]
             h == Append(mid, NewAttempt(risk))
  <2>1. /\ Reducible(h)
        /\ attempts' = [ attempts EXCEPT ![o] = h ]
        /\ aggregate' = [ aggregate EXCEPT ![o] = reduce_operation(h, MaxAttempts) ]
        /\ mid[Len(mid)].status = "unknown" => mid[Len(mid)].res = "retry_authorized"
        /\ Len(mid) < MaxAttempts
        /\ aggregate[o].status \in { "unknown", "failed" }
    BY <1>6 DEF RecoverRetry, MayBegin, aggregate_operation, Latest
  <2>2. /\ GoodHistory(mid) /\ Keeps(attempts[o], mid)
        /\ Len(mid) = Len(attempts[o])
    <3>1. CASE a.status = "unknown"
      <4>1. /\ new \in Attempts /\ WellFormedAttempt(new)
            /\ new.status = "unknown" /\ new.res = "retry_authorized" /\ new.risk
            /\ ~ IsActive(new)
        BY <1>3, <3>1 DEF Attempts, Resolutions, WellFormedAttempt, IsActive, None
      <4> HIDE DEF new
      <4>2. Reducible([ attempts[o] EXCEPT ![Last(o)] = new ])
        BY <1>1, <1>2, <4>1, ExceptSeq DEF Reducible, Last
      <4> QED
        BY <1>1, <1>2, <3>1, <4>1, <4>2, UpdateIsGood DEF Last, Determined
    <3>2. CASE a.status # "unknown"
      BY <1>1, <3>2 DEF Keeps
    <3> QED
      BY <3>1, <3>2
  <2>3. mid \in Seq(Attempts) /\ Len(mid) \in Nat
    BY <2>2 DEF GoodHistory
  <2> HIDE DEF mid
  <2>4. /\ GoodHistory(h) /\ Keeps(mid, h) /\ h # << >> /\ Len(h) = Len(mid) + 1
    BY <2>1, <2>2, AppendIsGood
  <2> HIDE DEF h
  <2>5. Keeps(attempts[o], h)
    BY <2>2, <2>4, <1>1 DEF Keeps
  <2>6. Writes(o, h)
    BY <2>1, <2>2, <2>3, <2>4, <2>5, MaxAttemptsAssumption DEF Writes, Last
  <2> QED
    BY <2>6
<1> QED
  BY <1>4, <1>5, <1>6 DEF RecoveryStep

(* A refusal writes the ledger together with the Approval.                 *)
LEMMA RefuseWrites ==
  ASSUME LedgerInv, NEW p \in Approvals, approval[p].status = "pending",
         NEW status, Refuse(p, status)
  PROVE  /\ approval[p].op \in Ops
         /\ approval[p].no \in 1..Last(approval[p].op)
         /\ attempts'[approval[p].op][approval[p].no].status = "skipped"
         /\ ~ attempts'[approval[p].op][approval[p].no].started
         /\ \E h : Writes(approval[p].op, h)
<1> DEFINE o == approval[p].op
           i == approval[p].no
           a == attempts[o][i]
           new == [ a EXCEPT !.status = "skipped" ]
<1>1. o \in Ops
  BY DEF LedgerInv, TypeOK, NoApproval, None
<1>2. /\ update_attempt(o, i, { "prepared" }, new)
      /\ i \in 1..Last(o) /\ a.status = "prepared"
  BY DEF Refuse, update_attempt
<1>3. /\ a \in Attempts
      /\ WellFormedAttempt(a)
      /\ ~ a.started
  BY <1>1, <1>2, AttemptFacts
<1>4. new \in Attempts /\ WellFormedAttempt(new) /\ ~ new.started /\ new.status = "skipped"
  BY <1>2, <1>3 DEF Attempts, AttemptStatus, WellFormedAttempt
<1> HIDE DEF new
<1> HIDE DEF o, i, a
<1>5. Writes(o, [ attempts[o] EXCEPT ![i] = new ])
  <2>1. { "prepared" } \cap Determined = {}
    BY DEF Determined
  <2>2. update_attempt(o, i, { "prepared" }, new)
    BY <1>2
  <2> QED
    BY <1>1, <1>4, <2>1, <2>2, UpdateWrites
<1>6. attempts \in [ Ops -> Seq(Attempts) ]
  BY DEF LedgerInv, TypeOK
<1>7. attempts'[o][i] = new
  BY <1>1, <1>2, <1>5, <1>6, ExceptSeq DEF Writes, Last
<1> QED
  BY <1>1, <1>2, <1>4, <1>5, <1>7 DEF o, i, a

-----------------------------------------------------------------------------
(* The reducer maps a well-typed history to a well-typed aggregate.        *)
LEMMA ReductionType ==
  ASSUME NEW h \in Seq(Attempts), h # << >>
  PROVE  reduce_operation(h, MaxAttempts) \in Aggregates
<1>1. h[Len(h)] \in Attempts
  OBVIOUS
<1> QED
  BY <1>1 DEF reduce_operation, Aggregates, Attempts, AttemptStatus, FailureKinds, None

(* What every write to the ledger preserves, whatever the command.         *)
LEMMA WritePreserves ==
  ASSUME LedgerInv, NEW o \in Ops, NEW h, Writes(o, h),
         UNCHANGED << due, checkpoint, observation >>
  PROVE  /\ attempts' \in [ Ops -> Seq(Attempts) ]
         /\ aggregate' \in [ Ops -> Aggregates \cup { NoAggregate } ]
         /\ \A q \in Ops : \A i \in 1..Len(attempts'[q]) : WellFormedAttempt(attempts'[q][i])
         /\ HistoriesGood'
         /\ \A q \in Ops : Keeps(attempts[q], attempts'[q])
         /\ AggregateIsReduction'
         /\ CheckpointStaysDetermined'
         /\ ObservationAgreesWithLedger'
<1>1. /\ attempts \in [ Ops -> Seq(Attempts) ]
      /\ aggregate \in [ Ops -> Aggregates \cup { NoAggregate } ]
  BY DEF LedgerInv, TypeOK
<1>2. /\ h \in Seq(Attempts) /\ GoodHistory(h) /\ h # << >>
      /\ Keeps(attempts[o], h)
      /\ attempts' = [ attempts EXCEPT ![o] = h ]
      /\ aggregate' = [ aggregate EXCEPT ![o] = reduce_operation(h, MaxAttempts) ]
  BY DEF Writes, GoodHistory
<1>3. reduce_operation(h, MaxAttempts) \in Aggregates
  BY <1>2, ReductionType
<1>4. /\ attempts' \in [ Ops -> Seq(Attempts) ]
      /\ aggregate' \in [ Ops -> Aggregates \cup { NoAggregate } ]
  BY <1>1, <1>2, <1>3
<1>5. \A q \in Ops : GoodHistory(attempts'[q])
  BY <1>1, <1>2 DEF LedgerInv, HistoriesGood
<1>6. \A q \in Ops : attempts'[q] = << >> => aggregate'[q] = NoAggregate
  BY <1>1, <1>2 DEF LedgerInv, HistoriesGood, Exists
<1>7. HistoriesGood'
  BY <1>5, <1>6 DEF HistoriesGood, Exists
<1>8. \A q \in Ops : Keeps(attempts[q], attempts'[q])
  BY <1>1, <1>2 DEF Keeps
<1>9. AggregateIsReduction'
  BY <1>1, <1>2 DEF LedgerInv, AggregateIsReduction, Exists
<1>10. \A q \in Ops : \A i \in 1..Len(attempts[q]) :
         /\ i \in 1..Len(attempts'[q])
         /\ attempts[q][i].status \in Determined => attempts'[q][i] = attempts[q][i]
  BY <1>1, <1>4, <1>8 DEF Keeps
<1>11. CheckpointStaysDetermined'
  <2>1. checkpoint' = checkpoint /\ (checkpoint # NoAttempt => checkpoint.op \in Ops)
    BY DEF LedgerInv, TypeOK
  <2>2. CheckpointStaysDetermined
    BY DEF LedgerInv
  <2> QED
    BY <1>10, <2>1, <2>2 DEF CheckpointStaysDetermined, Last
<1>12. ObservationAgreesWithLedger'
  <2>1. /\ observation' = observation
        /\ \A q \in Ops : observation[q] # NoObservation =>
             attempts[q][observation[q].no].status \in Determined
    BY DEF LedgerInv, ObservationAgreesWithLedger, ObservedDetermined
  <2>2. ObservationAgreesWithLedger
    BY DEF LedgerInv
  <2> QED
    BY <1>10, <2>1, <2>2 DEF ObservationAgreesWithLedger, Last
<1>13. \A q \in Ops : \A i \in 1..Len(attempts'[q]) : WellFormedAttempt(attempts'[q][i])
  BY <1>5 DEF GoodHistory
<1> QED
  BY <1>4, <1>7, <1>8, <1>9, <1>11, <1>12, <1>13

(* An Approval that was already refused stays so.                          *)
LEMMA RefusedKept ==
  ASSUME LedgerInv, NEW p \in Approvals,
         approval[p].status \in { "denied", "timeout" },
         \A q \in Ops : Keeps(attempts[q], attempts'[q]),
         attempts' \in [ Ops -> Seq(Attempts) ]
  PROVE  /\ approval[p].no \in 1..Len(attempts'[approval[p].op])
         /\ attempts'[approval[p].op][approval[p].no].status = "skipped"
         /\ ~ attempts'[approval[p].op][approval[p].no].started
<1>1. approval[p].op \in Ops
  BY DEF LedgerInv, TypeOK, NoApproval, None
<1>2. /\ approval[p].no \in 1..Last(approval[p].op)
      /\ attempts[approval[p].op][approval[p].no].status = "skipped"
      /\ ~ attempts[approval[p].op][approval[p].no].started
  BY DEF LedgerInv, RefusedNeverStarted
<1>3. attempts \in [ Ops -> Seq(Attempts) ]
  BY DEF LedgerInv, TypeOK
<1> QED
  BY <1>1, <1>2, <1>3 DEF Keeps, Last, Determined

-----------------------------------------------------------------------------
(* Initially nothing exists.                                               *)
LEMMA LedgerInvInit == Init => LedgerInv
<1> SUFFICES ASSUME Init PROVE LedgerInv
  OBVIOUS
<1>1. \A o \in Ops : attempts[o] = << >> /\ Len(attempts[o]) = 0
  BY DEF Init
<1>2. TypeOK
  BY <1>1 DEF Init, TypeOK, Last
<1>3. HistoriesGood
  BY <1>1 DEF Init, HistoriesGood, GoodHistory
<1>4. AggregateIsReduction /\ RefusedNeverStarted /\ CheckpointStaysDetermined
      /\ ObservationAgreesWithLedger
  BY <1>1 DEF Init, AggregateIsReduction, RefusedNeverStarted, NoApproval, None,
              CheckpointStaysDetermined, ObservationAgreesWithLedger, Exists
<1>5. ObservedDetermined
  BY DEF Init, ObservedDetermined
<1> QED
  BY <1>2, <1>3, <1>4, <1>5 DEF LedgerInv

(* A command that only writes operation_attempts and operation_ledger.     *)
LEMMA LedgerOnlyStep ==
  ASSUME LedgerInv, NEW o \in Ops, NEW h, Writes(o, h), Same
  PROVE  LedgerInv'
<1>1. UNCHANGED << due, checkpoint, observation >> /\ approval' = approval
  BY DEF Same
<1>2. /\ attempts' \in [ Ops -> Seq(Attempts) ]
      /\ aggregate' \in [ Ops -> Aggregates \cup { NoAggregate } ]
      /\ \A q \in Ops : \A i \in 1..Len(attempts'[q]) : WellFormedAttempt(attempts'[q][i])
      /\ HistoriesGood'
      /\ \A q \in Ops : Keeps(attempts[q], attempts'[q])
      /\ AggregateIsReduction' /\ CheckpointStaysDetermined'
      /\ ObservationAgreesWithLedger'
  BY <1>1, WritePreserves
<1>3. TypeOK'
  BY <1>1, <1>2 DEF LedgerInv, TypeOK, Last
<1>4. RefusedNeverStarted'
  BY <1>1, <1>2, RefusedKept DEF RefusedNeverStarted, Last
<1>5. ObservedDetermined'
  BY <1>1 DEF LedgerInv, ObservedDetermined
<1> QED
  BY <1>2, <1>3, <1>4, <1>5 DEF LedgerInv

(* A command that leaves the Attempts alone and refuses no Approval.       *)
LEMMA QuietStep ==
  ASSUME LedgerInv, TypeOK', UNCHANGED << attempts, aggregate >>,
         \A p \in Approvals : approval'[p].status \in { "denied", "timeout" } =>
           approval'[p] = approval[p],
         CheckpointStaysDetermined', ObservationAgreesWithLedger', ObservedDetermined'
  PROVE  LedgerInv'
<1>1. HistoriesGood' /\ AggregateIsReduction'
  BY DEF LedgerInv, HistoriesGood, AggregateIsReduction, Exists
<1>2. RefusedNeverStarted'
  BY DEF LedgerInv, RefusedNeverStarted, Last
<1> QED
  BY <1>1, <1>2 DEF LedgerInv

(* A refusal: the Approval and its Attempt change together.                *)
LEMMA RefusePreserves ==
  ASSUME LedgerInv, NEW p \in Approvals, approval[p].status = "pending",
         NEW status \in { "denied", "timeout" }, Refuse(p, status)
  PROVE  LedgerInv'
<1>1. /\ approval[p].op \in Ops
      /\ approval[p].no \in 1..Last(approval[p].op)
      /\ attempts'[approval[p].op][approval[p].no].status = "skipped"
      /\ ~ attempts'[approval[p].op][approval[p].no].started
      /\ \E h : Writes(approval[p].op, h)
  BY RefuseWrites
<1>2. /\ UNCHANGED << due, checkpoint, observation >>
      /\ approval' = [ approval EXCEPT ![p].status = status ]
  BY DEF Refuse
<1>3. PICK h : Writes(approval[p].op, h)
  BY <1>1
<1>4. /\ attempts' \in [ Ops -> Seq(Attempts) ]
      /\ aggregate' \in [ Ops -> Aggregates \cup { NoAggregate } ]
      /\ \A q \in Ops : \A i \in 1..Len(attempts'[q]) : WellFormedAttempt(attempts'[q][i])
      /\ HistoriesGood'
      /\ \A q \in Ops : Keeps(attempts[q], attempts'[q])
      /\ AggregateIsReduction' /\ CheckpointStaysDetermined'
      /\ ObservationAgreesWithLedger'
  BY <1>1, <1>2, <1>3, WritePreserves
<1>5. /\ approval \in [ Approvals ->
           [ status : ApprovalStatus, op : Ops, no : Nat, expired : BOOLEAN ]
             \cup { NoApproval } ]
      /\ attempts \in [ Ops -> Seq(Attempts) ]
  BY DEF LedgerInv, TypeOK
<1>6. approval[p] \in [ status : ApprovalStatus, op : Ops, no : Nat, expired : BOOLEAN ]
  BY <1>5 DEF NoApproval, None
<1>7. /\ approval'[p].op = approval[p].op /\ approval'[p].no = approval[p].no
      /\ approval'[p] \in [ status : ApprovalStatus, op : Ops, no : Nat, expired : BOOLEAN ]
      /\ \A q \in Approvals \ {p} : approval'[q] = approval[q]
      /\ approval' \in [ Approvals ->
           [ status : ApprovalStatus, op : Ops, no : Nat, expired : BOOLEAN ]
             \cup { NoApproval } ]
  BY <1>2, <1>5, <1>6 DEF ApprovalStatus
<1>8. TypeOK'
  BY <1>2, <1>4, <1>7 DEF LedgerInv, TypeOK, Last
<1>9. RefusedNeverStarted'
  <2> SUFFICES ASSUME NEW q \in Approvals, approval'[q].status \in { "denied", "timeout" }
               PROVE  /\ approval'[q].no \in 1..Len(attempts'[approval'[q].op])
                      /\ attempts'[approval'[q].op][approval'[q].no].status = "skipped"
                      /\ ~ attempts'[approval'[q].op][approval'[q].no].started
    BY DEF RefusedNeverStarted, Last
  <2>1. CASE q = p
    <3>1. approval[p].no \in 1..Len(attempts'[approval[p].op])
      BY <1>1, <1>4, <1>5 DEF Keeps, Last
    <3> QED
      BY <1>1, <1>7, <2>1, <3>1
  <2>2. CASE q # p
    BY <1>4, <1>7, <2>2, RefusedKept
  <2> QED
    BY <2>1, <2>2
<1>10. ObservedDetermined'
  BY <1>2 DEF LedgerInv, ObservedDetermined
<1> QED
  BY <1>4, <1>8, <1>9, <1>10 DEF LedgerInv

LEMMA ApprovalPreserves ==
  ASSUME LedgerInv, NEW p \in Approvals, ApprovalStep(p)
  PROVE  LedgerInv'
<1>0. /\ TypeOK /\ CheckpointStaysDetermined /\ ObservationAgreesWithLedger
      /\ ObservedDetermined
  BY DEF LedgerInv
<1>1. ASSUME UNCHANGED << attempts, aggregate, due, checkpoint, observation >>,
             approval' \in [ Approvals ->
               [ status : ApprovalStatus, op : Ops, no : Nat, expired : BOOLEAN ]
                 \cup { NoApproval } ],
             \A q \in Approvals : approval'[q].status \in { "denied", "timeout" } =>
               approval'[q] = approval[q]
      PROVE  LedgerInv'
  <2>1. TypeOK'
    BY <1>0, <1>1 DEF TypeOK, Last
  <2>2. CheckpointStaysDetermined' /\ ObservationAgreesWithLedger' /\ ObservedDetermined'
    BY <1>0, <1>1 DEF CheckpointStaysDetermined, ObservationAgreesWithLedger,
                      ObservedDetermined, Last
  <2> QED
    BY <1>1, <2>1, <2>2, QuietStep
<1>2. CASE \E o \in Ops : \E i \in 1..Last(o) : CreateApproval(p, o, i)
  <2>0. PICK o \in Ops : \E i \in 1..Last(o) : CreateApproval(p, o, i)
    BY <1>2
  <2>1. PICK i \in 1..Last(o) : CreateApproval(p, o, i)
    BY <2>0
  <2>2. i \in Nat
    BY <1>0 DEF TypeOK, Last
  <2>3. /\ approval' = [ approval EXCEPT ![p] =
             [ status |-> "pending", op |-> o, no |-> i, expired |-> FALSE ] ]
        /\ UNCHANGED << attempts, aggregate, due, checkpoint, observation >>
    BY <2>1 DEF CreateApproval
  <2> QED
    BY <1>0, <1>1, <2>2, <2>3 DEF TypeOK, ApprovalStatus
<1>3. CASE ApprovalDue(p)
  <2>1. /\ approval[p].status = "pending"
        /\ approval' = [ approval EXCEPT ![p].expired = TRUE ]
        /\ UNCHANGED << attempts, aggregate, due, checkpoint, observation >>
    BY <1>3 DEF ApprovalDue
  <2>2. approval[p] \in [ status : ApprovalStatus, op : Ops, no : Nat, expired : BOOLEAN ]
    BY <1>0, <2>1 DEF TypeOK, NoApproval, None
  <2>3. /\ approval'[p].status = "pending"
        /\ \A q \in Approvals \ {p} : approval'[q] = approval[q]
        /\ approval' \in [ Approvals ->
             [ status : ApprovalStatus, op : Ops, no : Nat, expired : BOOLEAN ]
               \cup { NoApproval } ]
    BY <1>0, <2>1, <2>2 DEF TypeOK
  <2> QED
    BY <1>1, <2>1, <2>3
<1>4. CASE DecideApproval(p, TRUE)
  <2>1. /\ approval[p].status = "pending"
        /\ approval' = [ approval EXCEPT ![p].status = "approved" ]
        /\ UNCHANGED << attempts, aggregate, due, checkpoint, observation >>
    BY <1>4 DEF DecideApproval
  <2>2. approval[p] \in [ status : ApprovalStatus, op : Ops, no : Nat, expired : BOOLEAN ]
    BY <1>0, <2>1 DEF TypeOK, NoApproval, None
  <2>3. /\ approval'[p].status = "approved"
        /\ \A q \in Approvals \ {p} : approval'[q] = approval[q]
        /\ approval' \in [ Approvals ->
             [ status : ApprovalStatus, op : Ops, no : Nat, expired : BOOLEAN ]
               \cup { NoApproval } ]
    BY <1>0, <2>1, <2>2 DEF TypeOK, ApprovalStatus
  <2> QED
    BY <1>1, <2>1, <2>3
<1>5. CASE DecideApproval(p, FALSE)
  BY <1>5, RefusePreserves DEF DecideApproval
<1>6. CASE ExpireApproval(p)
  BY <1>6, RefusePreserves DEF ExpireApproval
<1> QED
  BY <1>2, <1>3, <1>4, <1>5, <1>6 DEF ApprovalStep

(* Checkpoints and observations.                                           *)
LEMMA EvidencePreserves ==
  ASSUME LedgerInv, NEW o \in Ops, EvidenceStep(o)
  PROVE  LedgerInv'
<1>0. /\ TypeOK /\ CheckpointStaysDetermined /\ ObservationAgreesWithLedger
      /\ ObservedDetermined
  BY DEF LedgerInv
<1>1. CASE \E i \in 1..Last(o) : CreateSafeCheckpoint(o, i)
  <2>1. PICK i \in 1..Last(o) : CreateSafeCheckpoint(o, i)
    BY <1>1
  <2>2. i \in Nat /\ attempts[o][i] \in Attempts
    BY <1>0 DEF TypeOK, Last
  <2>3. /\ checkpoint' = [ op |-> o, no |-> i ]
        /\ attempts[o][i].status \in Determined
        /\ UNCHANGED << attempts, aggregate, due, approval, observation >>
    BY <2>1, <2>2 DEF CreateSafeCheckpoint, Attempts, AttemptStatus, Determined
  <2>4. TypeOK'
    BY <1>0, <2>2, <2>3 DEF TypeOK, Last
  <2>5. CheckpointStaysDetermined' /\ ObservationAgreesWithLedger' /\ ObservedDetermined'
    BY <1>0, <2>3 DEF CheckpointStaysDetermined, ObservationAgreesWithLedger,
                      ObservedDetermined, Last
  <2> QED
    BY <2>3, <2>4, <2>5, QuietStep
<1>2. CASE \E i \in 1..Last(o) : materialize_tool_observation(o, i)
  <2>1. PICK i \in 1..Last(o) : materialize_tool_observation(o, i)
    BY <1>2
  <2>2. i \in Nat /\ attempts[o][i] \in Attempts
    BY <1>0 DEF TypeOK, Last
  <2> DEFINE seen == [ state |-> "materialized", no |-> i, shown |-> attempts[o][i].status ]
  <2>3. /\ observation' = [ observation EXCEPT ![o] = seen ]
        /\ attempts[o][i].status \in Determined
        /\ UNCHANGED << attempts, aggregate, due, approval, checkpoint >>
    BY <2>1 DEF materialize_tool_observation
  <2>4. TypeOK'
    BY <1>0, <2>2, <2>3 DEF TypeOK, Last, Attempts
  <2>5. \A q \in Ops : observation'[q] = IF q = o THEN seen ELSE observation[q]
    BY <1>0, <2>3 DEF TypeOK
  <2>6. CheckpointStaysDetermined' /\ ObservationAgreesWithLedger' /\ ObservedDetermined'
    BY <1>0, <2>3, <2>5 DEF CheckpointStaysDetermined, ObservationAgreesWithLedger,
                            ObservedDetermined, Last
  <2> QED
    BY <2>3, <2>4, <2>6, QuietStep
<1>3. CASE mark_tool_observation_published(o)
  <2>1. /\ observation' = [ observation EXCEPT ![o].state = "published" ]
        /\ observation[o].state = "materialized"
        /\ UNCHANGED << attempts, aggregate, due, approval, checkpoint >>
    BY <1>3 DEF mark_tool_observation_published
  <2>2. /\ observation[o] # NoObservation
        /\ observation[o] \in
             [ state : { "materialized", "published" }, no : Nat, shown : AttemptStatus ]
    BY <1>0, <2>1 DEF TypeOK, NoObservation, None
  <2>3. \A q \in Ops : /\ observation'[q].no = observation[q].no
                       /\ observation'[q].shown = observation[q].shown
                       /\ q # o => observation'[q] = observation[q]
    BY <1>0, <2>1, <2>2 DEF TypeOK, NoObservation
  <2>4. TypeOK'
    BY <1>0, <2>1, <2>2 DEF TypeOK, Last
  <2>5. CheckpointStaysDetermined' /\ ObservationAgreesWithLedger' /\ ObservedDetermined'
    BY <1>0, <2>1, <2>2, <2>3 DEF CheckpointStaysDetermined, ObservationAgreesWithLedger,
                                  ObservedDetermined, Last
  <2> QED
    BY <2>1, <2>4, <2>5, QuietStep
<1> QED
  BY <1>1, <1>2, <1>3 DEF EvidenceStep

(* The commands of one Operation that write the ledger and nothing else.   *)
OperationCommand(o) ==
  \/ Create(o)
  \/ \E risk \in BOOLEAN : BeginOperationAttempt(o, risk)
  \/ \E i \in 1..Last(o) : AttemptStep(o, i)
  \/ OperationStep(o)
  \/ RecoveryStep(o)

LEMMA CommandWrites ==
  ASSUME LedgerInv, NEW o \in Ops, OperationCommand(o)
  PROVE  Same /\ \E h : Writes(o, h)
<1>1. Same
  BY DEF OperationCommand, Create, CreateOperationWithAttempt, BeginOperation,
         BeginOperationAttempt, AttemptStep, OperationStep, RecoveryStep,
         StartOperationAttempt, CompleteOperationAttempt, FailOperationAttempt,
         MarkOperationAttemptUnknown, SkipOperationAttempt, AbandonOperationAttempt,
         ReconcileOperationAttempt, StartOperation, CompleteOperation, FailOperation,
         MarkOperationUnknown, AbandonOperation, ReconcileOperation,
         RecoverConfirmSucceeded, RecoverRetry, RecoverFail
<1>2. \E h : Writes(o, h)
  BY CreateWrites, BeginWrites, AttemptStepWrites, OperationStepWrites,
     RecoveryStepWrites DEF OperationCommand
<1> QED
  BY <1>1, <1>2

(* Every step of the ledger, sorted by what it may touch.                  *)
LEMMA NextCases ==
  ASSUME Next
  PROVE  \/ \E o \in Ops : OperationCommand(o) \/ RetryDue(o) \/ EvidenceStep(o)
         \/ \E p \in Approvals : ApprovalStep(p)
BY DEF Next, OperationCommand

LEMMA LedgerInvStep == LedgerInv /\ [Next]_vars => LedgerInv'
<1> SUFFICES ASSUME LedgerInv, [Next]_vars PROVE LedgerInv'
  OBVIOUS
<1>1. CASE UNCHANGED vars
  <2>1. /\ TypeOK' /\ CheckpointStaysDetermined' /\ ObservationAgreesWithLedger'
        /\ ObservedDetermined'
    BY <1>1 DEF LedgerInv, vars, TypeOK, CheckpointStaysDetermined,
                ObservationAgreesWithLedger, ObservedDetermined, Last
  <2> QED
    BY <1>1, <2>1, QuietStep DEF vars
<1>2. ASSUME NEW o \in Ops, OperationCommand(o) PROVE LedgerInv'
  BY <1>2, CommandWrites, LedgerOnlyStep
<1>3. ASSUME NEW o \in Ops, RetryDue(o) PROVE LedgerInv'
  <2>1. TypeOK'
    BY <1>3 DEF LedgerInv, RetryDue, TypeOK, Last
  <2>2. CheckpointStaysDetermined' /\ ObservationAgreesWithLedger' /\ ObservedDetermined'
    BY <1>3 DEF LedgerInv, RetryDue, CheckpointStaysDetermined,
                ObservationAgreesWithLedger, ObservedDetermined, Last
  <2> QED
    BY <1>3, <2>1, <2>2, QuietStep DEF RetryDue
<1>4. ASSUME NEW o \in Ops, EvidenceStep(o) PROVE LedgerInv'
  BY <1>4, EvidencePreserves
<1>5. ASSUME NEW p \in Approvals, ApprovalStep(p) PROVE LedgerInv'
  BY <1>5, ApprovalPreserves
<1> QED
  BY <1>1, <1>2, <1>3, <1>4, <1>5, NextCases

-----------------------------------------------------------------------------
(* Every reachable state of the ledger satisfies the inductive invariant.  *)
THEOREM LedgerInvariance == Spec => []LedgerInv
  BY LedgerInvInit, LedgerInvStep, PTL DEF Spec

(* Type correctness, with the record validators of Agent/state.py.         *)
THEOREM TypeCorrect == Spec => []TypeOK
<1>1. LedgerInv => TypeOK
  BY DEF LedgerInv
<1> QED
  BY <1>1, LedgerInvariance, PTL

(* operation_ledger is the reduction of operation_attempts, for every      *)
(* order of commands.                                                      *)
THEOREM LedgerIsReduction == Spec => []AggregateIsReduction
<1>1. LedgerInv => AggregateIsReduction
  BY DEF LedgerInv
<1> QED
  BY <1>1, LedgerInvariance, PTL

(* No older request of an Operation is live beside a newer one.            *)
THEOREM SingleLiveAttempt == Spec => []OnlyLatestIsLive
<1>1. LedgerInv => OnlyLatestIsLive
  BY DEF LedgerInv, HistoriesGood, GoodHistory, OnlyLatestIsLive, Last
<1> QED
  BY <1>1, LedgerInvariance, PTL

(* Only a human's recorded decision puts a request after one whose effect  *)
(* is unknown.                                                             *)
THEOREM UnknownNeedsHuman == Spec => []UnknownRetriedOnlyByHuman
<1>1. LedgerInv => UnknownRetriedOnlyByHuman
  BY DEF LedgerInv, HistoriesGood, GoodHistory, UnknownRetriedOnlyByHuman, Last
<1> QED
  BY <1>1, LedgerInvariance, PTL

(* A denied or expired Approval is the end of its Attempt.                 *)
THEOREM RefusalIsFinal == Spec => []RefusedNeverStarted
<1>1. LedgerInv => RefusedNeverStarted
  BY DEF LedgerInv
<1> QED
  BY <1>1, LedgerInvariance, PTL

(* Both decisions of a human at once, as the run checks them.              *)
THEOREM HumansDecide == Spec => []HumanDecides
<1>1. UnknownRetriedOnlyByHuman /\ RefusedNeverStarted => HumanDecides
  BY DEF HumanDecides
<1> QED
  BY <1>1, UnknownNeedsHuman, RefusalIsFinal, PTL

(* SafeCheckpoints and observations never outlive the facts they record.   *)
THEOREM EvidenceIsStable == Spec => []EvidenceStable
<1>1. LedgerInv => EvidenceStable
  BY DEF LedgerInv, EvidenceStable
<1> QED
  BY <1>1, LedgerInvariance, PTL

-----------------------------------------------------------------------------
(* What one step may do to the histories.                                  *)
StepIsEarned ==
  \A o \in Ops :
    /\ Keeps(attempts[o], attempts'[o])
    /\ Len(attempts'[o]) # Last(o) =>
         /\ Len(attempts'[o]) = Last(o) + 1
         /\ Len(attempts'[o]) <= MaxAttempts
         /\ aggregate[o].status \notin { "completed", "skipped" }

LEMMA WriteIsEarned ==
  ASSUME LedgerInv, NEW o \in Ops, NEW h, Writes(o, h)
  PROVE  StepIsEarned
<1>1. attempts \in [ Ops -> Seq(Attempts) ]
  BY DEF LedgerInv, TypeOK
<1>2. \A q \in Ops : attempts'[q] = IF q = o THEN h ELSE attempts[q]
  BY <1>1 DEF Writes
<1> QED
  BY <1>1, <1>2 DEF Writes, StepIsEarned, Keeps, Last

LEMMA QuietIsEarned ==
  ASSUME LedgerInv, attempts' = attempts
  PROVE  StepIsEarned
BY DEF LedgerInv, TypeOK, StepIsEarned, Keeps, Last

LEMMA NextIsEarned == LedgerInv /\ [Next]_vars => StepIsEarned
<1> SUFFICES ASSUME LedgerInv, [Next]_vars PROVE StepIsEarned
  OBVIOUS
<1>1. CASE UNCHANGED vars
  BY <1>1, QuietIsEarned DEF vars
<1>2. ASSUME NEW o \in Ops, OperationCommand(o) PROVE StepIsEarned
  BY <1>2, CommandWrites, WriteIsEarned
<1>3. ASSUME NEW o \in Ops, RetryDue(o) \/ EvidenceStep(o) PROVE StepIsEarned
  BY <1>3, QuietIsEarned DEF RetryDue, EvidenceStep, CreateSafeCheckpoint,
     materialize_tool_observation, mark_tool_observation_published
<1>4. ASSUME NEW p \in Approvals, ApprovalStep(p) PROVE StepIsEarned
  <2>1. CASE attempts' = attempts
    BY <2>1, QuietIsEarned
  <2>2. CASE approval[p].status = "pending" /\ \E status : Refuse(p, status)
    BY <2>2, RefuseWrites, WriteIsEarned
  <2> QED
    BY <1>4, <2>1, <2>2 DEF ApprovalStep, CreateApproval, ApprovalDue,
       DecideApproval, ExpireApproval
<1> QED
  BY <1>1, <1>2, <1>3, <1>4, NextCases

(* A determined Attempt is never rewritten and no Attempt is dropped.      *)
THEOREM AttemptsAreFinal == Spec => DeterminedNeverRewritten
<1>1. LedgerInv /\ [Next]_vars =>
        [ \A o \in Ops : \A i \in 1..Last(o) :
            /\ i <= Len(attempts'[o])
            /\ attempts[o][i].status \in Determined =>
                 attempts'[o][i] = attempts[o][i] ]_vars
  <2> SUFFICES ASSUME LedgerInv, [Next]_vars, NEW o \in Ops, NEW i \in 1..Last(o)
               PROVE  /\ i <= Len(attempts'[o])
                      /\ attempts[o][i].status \in Determined =>
                           attempts'[o][i] = attempts[o][i]
    OBVIOUS
  <2>1. Keeps(attempts[o], attempts'[o]) /\ LedgerInv'
    BY NextIsEarned, LedgerInvStep DEF StepIsEarned
  <2>2. Len(attempts[o]) \in Nat /\ Len(attempts'[o]) \in Nat
    BY <2>1 DEF LedgerInv, TypeOK
  <2> QED
    BY <2>1, <2>2 DEF Keeps, Last
<1> QED
  BY <1>1, LedgerInvariance, PTL DEF Spec, DeterminedNeverRewritten

(* Attempts are gained one at a time, within the retry policy, and never   *)
(* by a settled Operation.                                                 *)
THEOREM RetriesAreBounded == Spec => NewAttemptIsEarned
<1>1. LedgerInv /\ [Next]_vars =>
        [ \A o \in Ops : Len(attempts'[o]) # Last(o) =>
            /\ Len(attempts'[o]) = Last(o) + 1
            /\ Len(attempts'[o]) <= MaxAttempts
            /\ aggregate[o].status \notin { "completed", "skipped" } ]_vars
  BY NextIsEarned DEF StepIsEarned
<1> QED
  BY <1>1, LedgerInvariance, PTL DEF Spec, NewAttemptIsEarned

-----------------------------------------------------------------------------
(* The Plugin Generations.                                                 *)
Live(g) == g \in GenIds /\ gens[g].status \in { "active", "retired", "quarantined" }
Written(g) == g \in GenIds /\ gens[g].status \notin { "free", "none" }

\* What was ever the head is a live row, and the other way round.
GnHistory ==
  /\ \A i \in DOMAIN acts : Live(acts[i])
  /\ \A g \in GenIds : Live(g) => \E i \in DOMAIN acts : acts[i] = g

\* A planned row has its key; a row that lists files lists files of its semantics.
GnRows ==
  /\ \A g \in GenIds : gens[g].status # "free" => gens[g].parent = 0 \/ Live(gens[g].parent)
  /\ \A g \in GenIds : Written(g) => Semantics(gens[g].json) = gens[g].sem
  /\ \A g \in GenIds : gens[g].fenced => Live(g)

Cleared(t) ==
  LET g == job[t].gid IN
  gens[g].manner.by = "reload" /\ NeedsApproval(gens[g].parent, job[t].src) => g \in approved

\* What a thread holds between two steps still fits the rows.
JobFits(t) ==
  /\ job[t].pc \in { "planned", "cleared", "built" } =>
       /\ job[t].gid \in GenIds /\ gens[job[t].gid].status # "free"
       /\ Semantics(job[t].src) = gens[job[t].gid].sem
  /\ job[t].pc \in { "cleared", "built" } => Cleared(t)
  /\ job[t].pc = "built" => gens[job[t].gid].dir = job[t].src
  /\ job[t].bad # 0 => Live(job[t].bad)
  /\ job[t].pc \in { "fallback", "mark" } => job[t].bad # 0
  /\ job[t].pc = "fallback" => job[t].plug \in Plugins

GnJobs ==
  /\ boot # "up" => \A t \in Threads : job[t] = NoJob
  /\ \A t \in Threads : JobFits(t)

\* What is relied on is a live row, whole and not fenced.
GnHeld ==
  /\ \A g \in GenIds : Referenced(g) => Live(g)
  /\ HeldIsWhole
  /\ \A r \in Runs : run[r] = "new" => runRef[r] = 0

GenInv == GenTypeOK /\ HeadsFormChain /\ ExecutableApproved /\ GnHistory /\ GnRows /\ GnJobs /\ GnHeld

-----------------------------------------------------------------------------
\* A nonempty set of numbers below n has a highest member.
LEMMA GnHighest ==
  ASSUME NEW n \in Nat, NEW F \in SUBSET (1..n), F # {}
  PROVE  \E i \in F : \A k \in F : k <= i
<1> DEFINE R == {ss \in Nat \X Nat : ss[1] < ss[2]}
           T == {m \in Nat : n - m \in F}
<1>1. IsWellFoundedOn(R, Nat)
  BY NatLessThanWellFounded DEF OpToRel
<1>2. T \subseteq Nat /\ T # {}
  <2>1. PICK i \in F : TRUE
    OBVIOUS
  <2>2. n - i \in Nat /\ n - (n - i) = i
    OBVIOUS
  <2> QED BY <2>1, <2>2
<1>3. PICK m \in T : \A y \in T : ~ (<< y, m >> \in R)
  <2> HIDE DEF R, T
  <2> QED BY <1>1, <1>2, WFMin, Zenon
<1>4. \A k \in F : k <= n - m
  <2> SUFFICES ASSUME NEW k \in F PROVE k <= n - m
    OBVIOUS
  <2>1. n - k \in Nat /\ n - (n - k) = k
    OBVIOUS
  <2>2. n - k \in T
    BY <2>1
  <2>3. ~ (n - k < m)
    BY <2>1, <2>2, <1>3
  <2> QED BY <2>1, <2>3
<1> QED BY <1>4

LEMMA GnSemantics ==
  ASSUME NEW c \in Content
  PROVE  /\ Semantics(c) \in Content
         /\ Semantics(c) = Semantics(Nothing) => c = Nothing
         /\ Nothing \in Content /\ Semantics(Nothing) = Nothing
BY GenAssumption DEF Semantics, Content, Nothing

LEMMA GnDisableSet ==
  ASSUME NEW c \in Content, NEW p \in Plugins
  PROVE  DisableSet(c, p) \in SUBSET Plugins
<1> DEFINE Fit(S) == p \in S /\ DependantsOf(c, S) \subseteq S
           All == { q \in Plugins : \A T \in SUBSET Plugins : Fit(T) => q \in T }
<1>1. All \in SUBSET Plugins /\ Fit(All)
  BY DEF DependantsOf
<1>2. \A T \in SUBSET Plugins : Fit(T) => All \subseteq T
  OBVIOUS
<1>3. \E S \in SUBSET Plugins :
        /\ p \in S
        /\ DependantsOf(c, S) \subseteq S
        /\ \A T \in SUBSET Plugins :
              (p \in T /\ DependantsOf(c, T) \subseteq T) => S \subseteq T
  BY <1>1, <1>2
<1> QED
  BY <1>3, Zenon DEF DisableSet

-----------------------------------------------------------------------------
\* Rows are filled in once and stay.
Grows ==
  /\ gens' \in [ GenIds -> GenRecord ]
  /\ \A g \in GenIds :
       /\ gens[g].status # "free" =>
            /\ gens'[g].status # "free"
            /\ gens'[g].parent = gens[g].parent /\ gens'[g].manner = gens[g].manner
            /\ gens'[g].sem = gens[g].sem
       /\ Written(g) => gens'[g].json = gens[g].json /\ gens'[g].status \notin { "free", "none" }
       /\ Live(g) => gens'[g].status \in { "active", "retired", "quarantined" }

LEMMA GnRests == GenInv /\ UNCHANGED gens => Grows
BY DEF GenInv, GenTypeOK, Grows, Written, Live

LEMMA GnHistoryKept ==
  ASSUME GenInv, Grows, UNCHANGED << head, acts >>,
         \A g \in GenIds : Live(g)' => Live(g)
  PROVE  HeadsFormChain' /\ GnHistory'
<1>1. acts \in Seq(GenIds)
  BY DEF GenInv, GenTypeOK
<1>2. \A i \in DOMAIN acts : Live(acts[i]) /\ acts[i] \in GenIds
  BY DEF GenInv, GnHistory, Live
<1>3. HeadsFormChain'
  BY <1>2 DEF GenInv, HeadsFormChain, Grows, Live
<1>4. GnHistory'
  BY <1>2 DEF GenInv, GnHistory, Grows, Live
<1> QED BY <1>3, <1>4

LEMMA GnApprovedKept ==
  ASSUME GenInv, Grows, UNCHANGED acts, approved \subseteq approved'
  PROVE  ExecutableApproved'
<1>1. acts \in Seq(GenIds)
  BY DEF GenInv, GenTypeOK
<1>a. \A i \in 1..Len(acts) : acts[i] \in GenIds /\ acts[i] # 0 /\ Live(acts[i])
  <2>1. \A i \in 1..Len(acts) : Live(acts[i])
    BY <1>1 DEF GenInv, GnHistory
  <2> QED BY <2>1 DEF Live, GenIds
<1>2. \A i \in 1..Len(acts) :
        /\ acts[i] \in GenIds /\ Live(acts[i]) /\ acts[i] # 0
        /\ gens'[acts[i]].json = gens[acts[i]].json
        /\ gens'[acts[i]].manner = gens[acts[i]].manner
  BY <1>a DEF Live, Grows, Written
<1>3. SUFFICES ASSUME NEW i \in 2..Len(acts),
                      gens'[acts[i]].manner.by = "reload",
                      NeedsApproval(acts[i - 1], gens[acts[i]].json)'
               PROVE  acts[i] \in approved'
  BY DEF ExecutableApproved
<1>4. i \in 1..Len(acts) /\ i - 1 \in 1..Len(acts)
  BY <1>1
<1>5. NeedsApproval(acts[i - 1], gens[acts[i]].json)
  BY <1>2, <1>3, <1>4 DEF NeedsApproval, Old, Semantics
<1> QED
  BY <1>2, <1>3, <1>4, <1>5 DEF GenInv, ExecutableApproved

LEMMA GnJobKept ==
  ASSUME GenInv, Grows, approved \subseteq approved', NEW t \in Threads,
         job'[t] = job[t],
         job[t].pc = "built" => gens'[job[t].gid].dir = gens[job[t].gid].dir
  PROVE  JobFits(t)'
<1> DEFINE g == job[t].gid
<1>1. JobFits(t)
  BY DEF GenInv, GnJobs
<1>2. job[t].pc \in { "cleared", "built" } => Cleared(t)'
  <2> SUFFICES ASSUME job[t].pc \in { "cleared", "built" } PROVE Cleared(t)'
    OBVIOUS
  <2>1. g \in GenIds /\ gens[g].status # "free"
    BY <1>1 DEF JobFits
  <2>2. gens'[g].parent = gens[g].parent /\ gens'[g].manner = gens[g].manner
    BY <2>1 DEF Grows
  <2>3. gens[g].parent # 0 => Live(gens[g].parent)
    BY <2>1 DEF GenInv, GnRows
  <2>4. gens[g].parent # 0 => gens'[gens[g].parent].json = gens[gens[g].parent].json
    BY <2>3 DEF Grows, Live, Written
  <2>5. Cleared(t)
    BY <1>1 DEF JobFits
  <2>6. gens'[g].manner.by = "reload" => gens[g].manner.by = "reload"
    BY <2>2
  <2>7. Old(gens[g].parent)' = Old(gens[g].parent)
    BY <2>2, <2>4 DEF Old
  <2>8. NeedsApproval(gens[g].parent, job[t].src)' => NeedsApproval(gens[g].parent, job[t].src)
    BY <2>2, <2>7 DEF NeedsApproval, Semantics
  <2> QED
    BY <2>5, <2>6, <2>8 DEF Cleared
<1> QED
  BY <1>1, <1>2 DEF JobFits, Grows, Live

LEMMA GnHeldKept ==
  ASSUME GenInv, Grows, UNCHANGED << head, run, runRef, cronRef, sessRef >>,
         \A g \in GenIds : Referenced(g) \/ g = head =>
            gens'[g].dir = gens[g].dir /\ gens'[g].fenced = gens[g].fenced
  PROVE  GnHeld'
<1>1. \A g \in GenIds : Referenced(g)' <=> Referenced(g)
  BY DEF Referenced
<1>2. \A g \in GenIds : Referenced(g) => Live(g)
  BY DEF GenInv, GnHeld
<1>3. \A g \in GenIds : g = head => Live(g)
  BY DEF GenInv, HeadsFormChain, GnHistory, GenTypeOK, GenIds
<1>4. \A g \in GenIds : Referenced(g)' => Live(g)'
  BY <1>1, <1>2 DEF Live, Grows
<1>5. HeldIsWhole'
  BY <1>1, <1>2, <1>3 DEF GenInv, GnHeld, HeldIsWhole, SnapshotWhole, Live, Grows, Written
<1> QED
  BY <1>4, <1>5 DEF GenInv, GnHeld

-----------------------------------------------------------------------------
(* Steps of the owners, of users and of the process: no row, head or decision changes. *)
LEMMA GnOwnersKeep ==
  ASSUME GenInv, GenTypeOK', UNCHANGED << gens, head, acts, approved >>,
         UNCHANGED job \/ job' = [t \in Threads |-> NoJob],
         boot' # "up" => boot' = boot \/ job' = [t \in Threads |-> NoJob],
         \A g \in GenIds : Referenced(g)' => Referenced(g) \/ g = head,
         \A r \in Runs : run'[r] = "new" => runRef'[r] = 0
  PROVE  GenInv'
<1>1. Grows
  BY GnRests
<1>2. HeadsFormChain' /\ GnHistory'
  BY <1>1, GnHistoryKept DEF Live
<1>3. ExecutableApproved'
  BY <1>1, GnApprovedKept
<1>4. GnRows'
  BY DEF GenInv, GnRows, Live, Written, Semantics
<1>5. GnJobs'
  <2>1. CASE UNCHANGED job
    <3>1. \A t \in Threads : JobFits(t)'
      BY <1>1, <2>1, GnJobKept
    <3> QED BY <2>1, <3>1 DEF GenInv, GnJobs
  <2>2. CASE job' = [t \in Threads |-> NoJob]
    BY <2>2 DEF GnJobs, JobFits, NoJob
  <2> QED BY <2>1, <2>2
<1>6. GnHeld'
  <2>1. \A g \in GenIds : g = head => Live(g)
    BY DEF GenInv, HeadsFormChain, GnHistory, GenTypeOK, GenIds
  <2>2. \A g \in GenIds : Referenced(g)' => Live(g)'
    BY <2>1 DEF GenInv, GnHeld, Live
  <2>3. HeldIsWhole'
    BY DEF GenInv, GnHeld, HeldIsWhole, SnapshotWhole
  <2> QED BY <2>2, <2>3 DEF GnHeld
<1> QED BY <1>2, <1>3, <1>4, <1>5, <1>6 DEF GenInv

LEMMA GnEditKeeps == GenInv /\ (\E p \in Plugins, v \in Versions \cup {Absent} : Edit(p, v)) => GenInv'
<1> SUFFICES ASSUME GenInv, NEW p \in Plugins, NEW v \in Versions \cup {Absent}, Edit(p, v) PROVE GenInv'
  OBVIOUS
<1>1. GenTypeOK'
  BY DEF GenInv, GenTypeOK, Edit, Content
<1> QED BY <1>1, GnOwnersKeep DEF Edit, Referenced, GenInv, GnHeld

LEMMA GnSetEnabledKeeps == GenInv /\ (\E p \in Plugins, on \in BOOLEAN : SetEnabled(p, on)) => GenInv'
<1> SUFFICES ASSUME GenInv, NEW p \in Plugins, NEW on \in BOOLEAN, SetEnabled(p, on) PROVE GenInv'
  OBVIOUS
<1>1. GenTypeOK'
  BY DEF GenInv, GenTypeOK, SetEnabled, Content
<1> QED BY <1>1, GnOwnersKeep DEF SetEnabled, Referenced, GenInv, GnHeld

LEMMA GnReportSuccessKeeps == GenInv /\ (\E r \in Runs, p \in Plugins : ReportSuccess(r, p)) => GenInv'
<1> SUFFICES ASSUME GenInv, NEW r \in Runs, NEW p \in Plugins, ReportSuccess(r, p) PROVE GenInv'
  OBVIOUS
<1>1. 0 \in 0..Threshold /\ runRef[r] \in GenIds
  BY GenAssumption DEF ReportSuccess, GenInv, GenTypeOK, GenIds
<1>2. GenTypeOK'
  BY <1>1 DEF GenInv, GenTypeOK, ReportSuccess
<1> QED BY <1>2, GnOwnersKeep DEF ReportSuccess, Referenced, GenInv, GnHeld

LEMMA GnCreateRunKeeps == GenInv /\ (\E r \in Runs : CreateRun(r)) => GenInv'
<1> SUFFICES ASSUME GenInv, NEW r \in Runs, CreateRun(r) PROVE GenInv'
  OBVIOUS
<1>1. GenTypeOK'
  BY DEF GenInv, GenTypeOK, CreateRun, Stages
<1> QED BY <1>1, GnOwnersKeep DEF CreateRun, Referenced, GenInv, GnHeld, GenTypeOK

LEMMA GnBindDispatchKeeps == GenInv /\ (\E r \in Runs : BindDispatch(r)) => GenInv'
<1> SUFFICES ASSUME GenInv, NEW r \in Runs, BindDispatch(r) PROVE GenInv'
  OBVIOUS
<1>1. GenTypeOK'
  BY DEF GenInv, GenTypeOK, BindDispatch
<1> QED BY <1>1, GnOwnersKeep DEF BindDispatch, Referenced, GenInv, GnHeld, GenTypeOK

LEMMA GnCreateCronRunKeeps == GenInv /\ (\E r \in Runs : CreateCronRun(r)) => GenInv'
<1> SUFFICES ASSUME GenInv, NEW r \in Runs, CreateCronRun(r) PROVE GenInv'
  OBVIOUS
<1>1. GenTypeOK'
  BY DEF GenInv, GenTypeOK, CreateCronRun, Stages
<1> QED BY <1>1, GnOwnersKeep DEF CreateCronRun, Referenced, GenInv, GnHeld, GenTypeOK

LEMMA GnStartRuntimeKeeps == GenInv /\ (\E r \in Runs : StartRuntime(r)) => GenInv'
<1> SUFFICES ASSUME GenInv, NEW r \in Runs, StartRuntime(r) PROVE GenInv'
  OBVIOUS
<1> DEFINE s == SessionOf[r]
<1>a. s \in Sessions /\ 0 \in 0..MaxGens
  BY GenAssumption DEF Sessions
<1>b. /\ run[r] = "bound" /\ UNCHANGED << tree, disabled, gens, head, acts, approved, streak, quar, job,
                      runRef, cronRef, boot, edits, crashes >>
      /\ \E x \in { "starting", "ended" } : run' = [run EXCEPT ![r] = x]
      /\ \E x \in { 0, runRef[r], sessRef[s] } : sessRef' = [sessRef EXCEPT ![s] = x]
      /\ \E x \in { 0, runRef[r] } : cache' = [cache EXCEPT ![s] = x]
  BY DEF StartRuntime
<1>1. GenTypeOK'
  BY <1>a, <1>b DEF GenInv, GenTypeOK, Stages
<1>2. \A g \in GenIds : Referenced(g)' => Referenced(g)
  BY <1>a, <1>b DEF Referenced, GenInv, GenTypeOK, GenIds
<1> QED BY <1>1, <1>2, <1>b, GnOwnersKeep DEF GenInv, GnHeld, GenTypeOK

LEMMA GnStartedKeeps == GenInv /\ (\E r \in Runs : Started(r)) => GenInv'
<1> SUFFICES ASSUME GenInv, NEW r \in Runs, Started(r) PROVE GenInv'
  OBVIOUS
<1>1. GenTypeOK'
  BY DEF GenInv, GenTypeOK, Started, Stages
<1> QED BY <1>1, GnOwnersKeep DEF Started, Referenced, GenInv, GnHeld, GenTypeOK

LEMMA GnEndRunKeeps == GenInv /\ (\E r \in Runs : EndRun(r)) => GenInv'
<1> SUFFICES ASSUME GenInv, NEW r \in Runs, EndRun(r) PROVE GenInv'
  OBVIOUS
<1>a. 0 \in 0..MaxGens
  BY GenAssumption
<1>1. GenTypeOK'
  BY <1>a DEF GenInv, GenTypeOK, EndRun, Stages
<1>2. \A g \in GenIds : Referenced(g)' => Referenced(g)
  BY DEF EndRun, Referenced, GenInv, GenTypeOK, GenIds
<1> QED BY <1>1, <1>2, GnOwnersKeep DEF EndRun, GenInv, GnHeld, GenTypeOK

LEMMA GnReleaseRunKeeps == GenInv /\ (\E r \in Runs : ReleaseRun(r)) => GenInv'
<1> SUFFICES ASSUME GenInv, NEW r \in Runs, ReleaseRun(r) PROVE GenInv'
  OBVIOUS
<1>a. 0 \in 0..MaxGens
  BY GenAssumption
<1>1. GenTypeOK'
  BY <1>a DEF GenInv, GenTypeOK, ReleaseRun, Stages
<1>2. \A g \in GenIds : Referenced(g)' => Referenced(g)
  BY DEF ReleaseRun, Referenced, GenInv, GenTypeOK, GenIds
<1> QED BY <1>1, <1>2, GnOwnersKeep DEF ReleaseRun, GenInv, GnHeld, GenTypeOK

LEMMA GnReapKeeps == GenInv /\ (\E s \in Sessions : Reap(s)) => GenInv'
<1> SUFFICES ASSUME GenInv, NEW s \in Sessions, Reap(s) PROVE GenInv'
  OBVIOUS
<1>a. 0 \in 0..MaxGens
  BY GenAssumption
<1>1. GenTypeOK'
  BY <1>a DEF GenInv, GenTypeOK, Reap
<1>2. \A g \in GenIds : Referenced(g)' => Referenced(g)
  BY DEF Reap, Referenced, GenInv, GenTypeOK, GenIds
<1> QED BY <1>1, <1>2, GnOwnersKeep DEF Reap, GenInv, GnHeld, GenTypeOK

LEMMA GnNoJobs ==
  /\ NoJob \in Job /\ Nothing \in Content /\ 0 \in 0..MaxGens
  /\ NoReload \in Manner
BY GenAssumption DEF NoJob, Job, Nothing, Content, NoReload, Manner

LEMMA GnGenCrashKeeps == GenInv /\ GenCrash => GenInv'
<1> SUFFICES ASSUME GenInv, GenCrash PROVE GenInv'
  OBVIOUS
<1>1. GenTypeOK'
  BY GnNoJobs DEF GenInv, GenTypeOK, GenCrash, Stages
<1> QED BY <1>1, GnOwnersKeep DEF GenCrash, Referenced, GenInv, GnHeld, GenTypeOK

LEMMA GnReconcileReferencesKeeps == GenInv /\ ReconcileReferences => GenInv'
<1> SUFFICES ASSUME GenInv, ReconcileReferences PROVE GenInv'
  OBVIOUS
<1>1. GenTypeOK'
  BY GnNoJobs DEF GenInv, GenTypeOK, ReconcileReferences, Stages
<1>2. \A g \in GenIds : Referenced(g)' => Referenced(g)
  BY DEF ReconcileReferences, Referenced, GenInv, GenTypeOK, GenIds
<1> QED BY <1>1, <1>2, GnOwnersKeep DEF ReconcileReferences, GenInv, GnHeld, GenTypeOK

-----------------------------------------------------------------------------
(* Steps of the threads.                                                   *)
LEMMA GnThreadKeeps ==
  ASSUME GenInv, GenTypeOK', Grows, GnRows',
         UNCHANGED << head, acts, boot, run, runRef, cronRef, sessRef >>,
         approved \subseteq approved',
         \A g \in GenIds : Live(g)' => Live(g),
         \A g \in GenIds : Referenced(g) \/ g = head =>
            gens'[g].dir = gens[g].dir /\ gens'[g].fenced = gens[g].fenced,
         NEW t \in Threads, boot = "up" \/ job[t] # NoJob, JobFits(t)',
         \A u \in Threads \ {t} : job'[u] = job[u],
         \A u \in Threads \ {t} : job[u].pc = "built" =>
            gens'[job[u].gid].dir = gens[job[u].gid].dir
  PROVE  GenInv'
<1>1. HeadsFormChain' /\ GnHistory'
  BY GnHistoryKept
<1>2. ExecutableApproved'
  BY GnApprovedKept
<1>3. \A u \in Threads : JobFits(u)'
  <2> SUFFICES ASSUME NEW u \in Threads, u # t PROVE JobFits(u)'
    OBVIOUS
  <2> QED BY GnJobKept
<1>4. GnJobs'
  BY <1>3 DEF GenInv, GnJobs
<1>5. GnHeld'
  BY GnHeldKept
<1> QED BY <1>1, <1>2, <1>4, <1>5 DEF GenInv

LEMMA GnPlanned ==
  ASSUME GenInv, NEW parent \in 0..MaxGens, parent # 0 => Live(parent),
         NEW manner \in Manner, NEW sem \in Content,
         NEW g \in IdFor(parent, manner, sem), gens' = Planned(g, parent, manner, sem)
  PROVE  /\ Grows /\ GnRows' /\ g \in GenIds
         /\ gens'[g].status # "free"
         /\ gens'[g].parent = parent /\ gens'[g].manner = manner /\ gens'[g].sem = sem
         /\ \A h \in GenIds : gens[h].status # "free" => gens'[h] = gens[h]
         /\ \A h \in GenIds : Live(h)' => Live(h)
<1>1. g \in GenIds
  BY DEF IdFor, Slot
<1>2. gens \in [ GenIds -> GenRecord ]
  BY DEF GenInv, GenTypeOK
<1>3. CASE gens[g].status # "free"
  <2>1. gens' = gens
    BY <1>3 DEF Planned
  <2>2. HasKey(g, parent, manner, sem)
    BY <1>3 DEF IdFor, Slot
  <2>3. Grows
    BY <2>1, GnRests
  <2>4. GnRows'
    BY <2>1 DEF GenInv, GnRows, Written, Live, Semantics
  <2> QED BY <1>1, <2>1, <2>2, <2>3, <2>4 DEF HasKey, Live
<1>4. CASE gens[g].status = "free"
  <2> DEFINE entry == [FreeGen EXCEPT !.parent = parent, !.manner = manner, !.sem = sem, !.status = "none"]
  <2>1. gens' = [gens EXCEPT ![g] = entry]
    BY <1>4 DEF Planned
  <2>2. entry \in GenRecord
    BY GnNoJobs DEF GenRecord, FreeGen
  <2>3. /\ entry.parent = parent /\ entry.manner = manner /\ entry.sem = sem
        /\ entry.status = "none" /\ entry.fenced = FALSE
    BY DEF FreeGen
  <2> HIDE DEF entry
  <2>4. gens'[g] = entry /\ \A h \in GenIds : h # g => gens'[h] = gens[h]
    BY <1>1, <1>2, <2>1
  <2>5. Grows
    BY <1>2, <1>4, <2>1, <2>2, <2>4 DEF Grows, Live, Written
  <2>6. GnRows'
    BY <1>4, <2>3, <2>4 DEF GenInv, GnRows, Written, Live, Semantics
  <2> QED BY <1>1, <1>4, <2>3, <2>4, <2>5, <2>6 DEF Live
<1> QED BY <1>3, <1>4

LEMMA GnHeadLives == GenInv /\ head # 0 => Live(head) /\ head \in GenIds
BY DEF GenInv, HeadsFormChain, GnHistory, GenTypeOK, Live

\* A planned row changes nothing that is relied on or built.
LEMMA GnPlanKeeps ==
  ASSUME GenInv, GenTypeOK', UNCHANGED << head, acts, approved, boot, run, runRef, cronRef,
  sessRef >>,
         NEW parent \in 0..MaxGens, parent # 0 => Live(parent),
         NEW manner \in Manner, NEW sem \in Content,
         NEW g \in IdFor(parent, manner, sem), gens' = Planned(g, parent, manner, sem),
         NEW t \in Threads, boot = "up" \/ job[t] # NoJob, JobFits(t)',
         \A u \in Threads \ {t} : job'[u] = job[u]
  PROVE  GenInv'
<1>1. /\ Grows /\ GnRows'
      /\ \A h \in GenIds : gens[h].status # "free" => gens'[h] = gens[h]
      /\ \A h \in GenIds : Live(h)' => Live(h)
  BY GnPlanned
<1>2. \A h \in GenIds : Referenced(h) \/ h = head => gens'[h] = gens[h]
  BY <1>1, GnHeadLives DEF GenInv, GnHeld, Live, GenIds
<1>3. \A u \in Threads : job[u].pc = "built" => gens'[job[u].gid] = gens[job[u].gid]
  BY <1>1 DEF GenInv, GnJobs, JobFits
<1> QED BY <1>1, <1>2, <1>3, GnThreadKeeps

LEMMA GnPlanReloadKeeps == GenInv /\ (\E t \in Threads : PlanReload(t)) => GenInv'
<1> SUFFICES ASSUME GenInv, NEW t \in Threads, PlanReload(t) PROVE GenInv'
  OBVIOUS
<1> DEFINE src == Discovered
<1>1. src \in Content /\ Semantics(src) \in Content
  BY GnSemantics DEF GenInv, GenTypeOK, Discovered, Content
<1> HIDE DEF src
<1>2. PICK g \in IdFor(head, NoReload, Semantics(src)) :
        /\ gens' = Planned(g, head, NoReload, Semantics(src))
        /\ job' = [job EXCEPT ![t] = [NoJob EXCEPT !.pc = "planned", !.gid = g, !.src = src]]
  BY DEF PlanReload, src
<1>3. UNCHANGED <<tree, disabled, head, acts, approved, streak, quar,
                  run, runRef, cronRef, sessRef, cache, boot, edits, crashes>> /\ boot = "up"
  BY DEF PlanReload, Reloads
<1>4. head \in 0..MaxGens /\ (head # 0 => Live(head)) /\ NoReload \in Manner
  BY GnHeadLives, GnNoJobs DEF GenInv, GenTypeOK
<1>5. /\ Grows /\ g \in GenIds /\ gens'[g].status # "free" /\ gens'[g].sem = Semantics(src)
  BY <1>1, <1>2, <1>4, GnPlanned
<1>6. /\ job'[t] \in Job /\ job' \in [ Threads -> Job ]
      /\ job'[t].pc = "planned" /\ job'[t].gid = g /\ job'[t].src = src /\ job'[t].bad = 0
      /\ \A u \in Threads \ {t} : job'[u] = job[u]
  <2>1. g \in 0..MaxGens
    BY <1>5, GenAssumption DEF GenIds
  <2>2. job \in [ Threads -> Job ]
    BY DEF GenInv, GenTypeOK
  <2> QED BY <1>1, <1>2, <2>1, <2>2, GnNoJobs DEF Job, NoJob
<1>7. JobFits(t)'
  BY <1>5, <1>6 DEF JobFits, Semantics
<1>8. GenTypeOK'
  BY <1>3, <1>5, <1>6 DEF GenInv, GenTypeOK, Grows
<1> QED BY <1>1, <1>2, <1>3, <1>4, <1>6, <1>7, <1>8, GnPlanKeeps

LEMMA GnWithRow ==
  ASSUME GenInv, NEW g \in GenIds, gens[g].status # "free",
         NEW c \in Content, Semantics(c) = gens[g].sem, gens' = WithRow(g, c)
  PROVE  /\ Grows /\ GnRows'
         /\ \A h \in GenIds : Live(h)' => Live(h)
         /\ \A h \in GenIds : gens'[h].dir = gens[h].dir /\ gens'[h].fenced = gens[h].fenced
         /\ \A h \in GenIds : gens'[h].parent = gens[h].parent /\ gens'[h].manner = gens[h].manner
         /\ \A h \in GenIds : gens'[h].sem = gens[h].sem
         /\ \A h \in GenIds : gens[h].status # "free" => gens'[h].status # "free"
<1>1. gens \in [ GenIds -> GenRecord ]
  BY DEF GenInv, GenTypeOK
<1>2. CASE gens[g].status = "none"
  <2> DEFINE entry == [gens[g] EXCEPT !.json = c, !.status = "preparing"]
  <2>1. gens' = [gens EXCEPT ![g] = entry]
    BY <1>2 DEF WithRow
  <2>2. entry \in GenRecord /\ entry.json = c /\ entry.status = "preparing"
    BY <1>1 DEF GenRecord
  <2>3. /\ entry.dir = gens[g].dir /\ entry.fenced = gens[g].fenced /\ entry.parent = gens[g].parent
        /\ entry.manner = gens[g].manner /\ entry.sem = gens[g].sem
    BY <1>1 DEF GenRecord
  <2> HIDE DEF entry
  <2>4. gens'[g] = entry /\ \A h \in GenIds : h # g => gens'[h] = gens[h]
    BY <1>1, <2>1
  <2>5. Grows
    BY <1>1, <1>2, <2>1, <2>2, <2>3, <2>4 DEF Grows, Live, Written
  <2>6. GnRows'
    BY <1>2, <2>2, <2>3, <2>4 DEF GenInv, GnRows, Written, Live, Semantics
  <2> QED BY <1>2, <2>2, <2>3, <2>4, <2>5, <2>6 DEF Live
<1>3. CASE gens[g].status # "none"
  <2>1. gens' = gens
    BY <1>3 DEF WithRow
  <2>2. GnRows'
    BY <2>1 DEF GenInv, GnRows, Written, Live, Semantics
  <2> QED BY <2>1, <2>2, GnRests DEF Live
<1> QED BY <1>2, <1>3

LEMMA GnDecideReloadKeeps == GenInv /\ (\E t \in Threads, consent \in BOOLEAN : DecideReload(t, consent)) => GenInv'
<1> SUFFICES ASSUME GenInv, NEW t \in Threads, NEW consent \in BOOLEAN, DecideReload(t, consent)
             PROVE  GenInv'
  OBVIOUS
<1>0. PICK g, c : g = job[t].gid /\ c = job[t].src
  OBVIOUS
<1>1. /\ g \in GenIds /\ gens[g].status # "free" /\ c \in Content /\ Semantics(c) = gens[g].sem
      /\ job[t] \in Job /\ job \in [ Threads -> Job ] /\ job[t] # NoJob
      /\ (job[t].bad # 0 => Live(job[t].bad))
  BY <1>0 DEF DecideReload, GenInv, GenTypeOK, GnJobs, JobFits, Job, NoJob
<1>2. /\ job[t].pc = "planned"
      /\ UNCHANGED <<tree, disabled, head, acts, streak, quar,
                      run, runRef, cronRef, sessRef, cache, boot, edits, crashes>>
  BY DEF DecideReload
<1>3. /\ gens' = gens \/ gens' = WithRow(g, c)
      /\ \/ job' = [job EXCEPT ![t] = NoJob] /\ approved' = approved
         \/ /\ job' = [job EXCEPT ![t].pc = "cleared"]
            /\ \/ approved' = approved \cup {g}
               \/ approved' = approved /\ (NeedsApproval(gens[g].parent, c) => g \in approved)
  BY <1>0 DEF DecideReload, Approve, Fail
<1>4. /\ Grows /\ GnRows'
      /\ \A h \in GenIds : Live(h)' => Live(h)
      /\ \A h \in GenIds : gens'[h].dir = gens[h].dir /\ gens'[h].fenced = gens[h].fenced
      /\ \A h \in GenIds : gens'[h].parent = gens[h].parent /\ gens'[h].manner = gens[h].manner
      /\ \A h \in GenIds : gens'[h].sem = gens[h].sem
      /\ \A h \in GenIds : gens[h].status # "free" => gens'[h].status # "free"
  <2>1. CASE gens' = gens
    <3>1. GnRows'
      BY <2>1 DEF GenInv, GnRows, Written, Live, Semantics
    <3> QED BY <2>1, <3>1, GnRests DEF Live
  <2>2. CASE gens' = WithRow(g, c)
    BY <1>1, <2>2, GnWithRow
  <2> QED BY <1>3, <2>1, <2>2
<1>5. approved \subseteq approved' /\ approved' \subseteq GenIds
  BY <1>1, <1>3 DEF GenInv, GenTypeOK
<1>6. job' \in [ Threads -> Job ] /\ (\A u \in Threads \ {t} : job'[u] = job[u])
  BY <1>1, <1>3, GnNoJobs DEF Job
<1>7. JobFits(t)'
  <2>1. CASE job' = [job EXCEPT ![t] = NoJob]
    <3>1. job'[t] = NoJob
      BY <1>1, <2>1
    <3> QED BY <3>1 DEF JobFits, NoJob
  <2>2. CASE job' = [job EXCEPT ![t].pc = "cleared"] /\ (NeedsApproval(gens[g].parent, c) => g \in approved')
    <3>1. job'[t].pc = "cleared" /\ job'[t].gid = g /\ job'[t].src = c /\ job'[t].bad = job[t].bad
      BY <1>0, <1>1, <2>2 DEF Job
    <3>2. gens[g].parent # 0 => Live(gens[g].parent)
      BY <1>1 DEF GenInv, GnRows
    <3>3. gens'[g].parent = gens[g].parent
          /\ (gens[g].parent # 0 => gens'[gens[g].parent].json = gens[gens[g].parent].json)
      BY <1>1, <1>4, <3>2 DEF Grows, Written, Live
    <3>4. Old(gens[g].parent)' = Old(gens[g].parent)
      BY <3>3 DEF Old
    <3>5. NeedsApproval(gens[g].parent, c)' => NeedsApproval(gens[g].parent, c)
      BY <3>3, <3>4 DEF NeedsApproval, Semantics
    <3>6. Cleared(t)'
      <4>1. gens'[g].manner = gens[g].manner
        BY <1>1, <1>4
      <4> QED BY <2>2, <3>1, <3>5, <4>1 DEF Cleared
    <3> QED BY <1>1, <1>4, <3>1, <3>6 DEF JobFits, Live, Grows, Semantics
  <2> QED BY <1>3, <2>1, <2>2
<1>8. GenTypeOK'
  BY <1>2, <1>4, <1>5, <1>6 DEF GenInv, GenTypeOK, Grows
<1>9. \A u \in Threads : job[u].pc = "built" => gens'[job[u].gid].dir = gens[job[u].gid].dir
  BY <1>4 DEF GenInv, GnJobs, JobFits
<1> QED BY <1>1, <1>2, <1>4, <1>5, <1>6, <1>7, <1>8, <1>9, GnThreadKeeps

LEMMA GnMaterializeKeeps == GenInv /\ (\E t \in Threads, ok \in BOOLEAN : Materialize(t, ok)) => GenInv'
<1> SUFFICES ASSUME GenInv, NEW t \in Threads, NEW ok \in BOOLEAN, Materialize(t, ok) PROVE GenInv'
  OBVIOUS
<1>0. PICK g, c : g = job[t].gid /\ c = job[t].src
  OBVIOUS
<1> DEFINE d == IF gens[g].dir = Nothing THEN c ELSE gens[g].dir
<1>1. /\ g \in GenIds /\ gens[g].status # "free" /\ c \in Content /\ Semantics(c) = gens[g].sem
      /\ job[t] \in Job /\ job \in [ Threads -> Job ] /\ job[t] # NoJob /\ Cleared(t)
      /\ (job[t].bad # 0 => Live(job[t].bad))
  BY <1>0 DEF Materialize, GenInv, GenTypeOK, GnJobs, JobFits, Job, NoJob
<1>2. gens \in [ GenIds -> GenRecord ]
  BY DEF GenInv, GenTypeOK
<1>3. /\ job[t].pc = "cleared"
      /\ UNCHANGED <<tree, disabled, head, acts, approved, streak, quar,
                      run, runRef, cronRef, sessRef, cache, boot, edits, crashes>>
  BY DEF Materialize
<1>4. \/ gens' = gens /\ job' = [job EXCEPT ![t] = NoJob]
      \/ /\ gens' = [gens EXCEPT ![g].dir = d]
         /\ \/ job' = [job EXCEPT ![t] = NoJob]
            \/ (job' = [job EXCEPT ![t].pc = "built"] /\ d = c)
  BY <1>0 DEF Materialize, Fail, SmokeTest
<1>5. d \in Content
  BY <1>1, <1>2 DEF GenRecord
<1> HIDE DEF d
<1>6. /\ gens' \in [ GenIds -> GenRecord ]
      /\ \A h \in GenIds :
            /\ gens'[h].parent = gens[h].parent /\ gens'[h].manner = gens[h].manner
            /\ gens'[h].sem = gens[h].sem /\ gens'[h].json = gens[h].json
            /\ gens'[h].status = gens[h].status /\ gens'[h].fenced = gens[h].fenced
            /\ gens'[h].dir # gens[h].dir => h = g /\ gens[g].dir = Nothing /\ c # Nothing
  BY <1>1, <1>2, <1>4, <1>5 DEF GenRecord, d
<1>7. Grows
  BY <1>6 DEF Grows, Live, Written
<1>8. GnRows'
  <2>1. \A h \in GenIds : (Live(h)' <=> Live(h)) /\ (Written(h)' <=> Written(h))
    BY <1>6 DEF Live, Written
  <2>2. \A h \in GenIds : gens[h].parent # 0 /\ Live(gens[h].parent) => Live(gens[h].parent)'
    BY <1>6 DEF Live
  <2>3. \A h \in GenIds : Semantics(gens[h].json)' = Semantics(gens[h].json)
    BY <1>6 DEF Semantics
  <2> QED BY <1>6, <2>1, <2>2, <2>3 DEF GenInv, GnRows
<1>9. \A h \in GenIds : Live(h)' => Live(h)
  BY <1>6 DEF Live
\* a directory that is relied on, or was tested, is filled already
<1>10. gens[g].dir = Nothing /\ c # Nothing => Semantics(gens[g].dir) # gens[g].sem
  BY <1>1, GnSemantics
<1>11. \A h \in GenIds : Referenced(h) \/ h = head => gens'[h].dir = gens[h].dir
  <2> SUFFICES ASSUME NEW h \in GenIds, Referenced(h) \/ h = head PROVE gens'[h].dir = gens[h].dir
    OBVIOUS
  <2>1. Written(h) /\ gens[h].dir = gens[h].json
    BY GnHeadLives DEF GenInv, GnHeld, HeldIsWhole, SnapshotWhole, Live, Written, GenIds
  <2>2. Semantics(gens[h].dir) = gens[h].sem
    BY <2>1 DEF GenInv, GnRows
  <2> QED BY <1>6, <1>10, <2>2
<1>12. \A u \in Threads : job[u].pc = "built" => gens'[job[u].gid].dir = gens[job[u].gid].dir
  <2> SUFFICES ASSUME NEW u \in Threads, job[u].pc = "built"
               PROVE  gens'[job[u].gid].dir = gens[job[u].gid].dir
    OBVIOUS
  <2>1. job[u].gid \in GenIds /\ Semantics(gens[job[u].gid].dir) = gens[job[u].gid].sem
    BY DEF GenInv, GnJobs, JobFits
  <2> QED BY <1>6, <1>10, <2>1
<1>13. job' \in [ Threads -> Job ] /\ (\A u \in Threads \ {t} : job'[u] = job[u])
  BY <1>1, <1>4, GnNoJobs DEF Job
<1>14. JobFits(t)'
  <2>1. CASE job' = [job EXCEPT ![t] = NoJob]
    <3>1. job'[t] = NoJob
      BY <1>1, <2>1
    <3> QED BY <3>1 DEF JobFits, NoJob
  <2>2. CASE job' = [job EXCEPT ![t].pc = "built"] /\ d = c /\ gens' = [gens EXCEPT ![g].dir = d]
    <3>1. job'[t].pc = "built" /\ job'[t].gid = g /\ job'[t].src = c /\ job'[t].bad = job[t].bad
      BY <1>0, <1>1, <2>2 DEF Job
    <3>2. gens'[g].dir = c
      BY <1>1, <1>2, <2>2 DEF GenRecord
    <3>3. Old(gens[g].parent)' = Old(gens[g].parent)
      <4>1. gens[g].parent \in 0..MaxGens /\ (gens[g].parent # 0 => gens[g].parent \in GenIds)
        BY <1>1, <1>2 DEF GenInv, GnRows, Live, GenRecord
      <4> QED BY <1>6, <1>1, <4>1 DEF Old
    <3>4. Cleared(t)'
      <4>1. NeedsApproval(gens[g].parent, c)' => NeedsApproval(gens[g].parent, c)
        <5>1. gens'[g].parent = gens[g].parent
          BY <1>1, <1>6
        <5> QED BY <3>3, <5>1 DEF NeedsApproval, Semantics
      <4>2. gens'[g].manner = gens[g].manner
        BY <1>1, <1>6
      <4>3. NeedsApproval(gens[g].parent, c) /\ gens[g].manner.by = "reload" => g \in approved
        BY <1>0, <1>1 DEF Cleared
      <4> QED BY <1>3, <3>1, <4>1, <4>2, <4>3 DEF Cleared
    <3> QED BY <1>1, <1>6, <3>1, <3>2, <3>4 DEF JobFits, Live, Semantics
  <2> QED BY <1>4, <2>1, <2>2
<1>15. GenTypeOK'
  BY <1>3, <1>6, <1>13 DEF GenInv, GenTypeOK
<1> QED BY <1>0, <1>1, <1>3, <1>6, <1>7, <1>8, <1>9, <1>11, <1>12, <1>13, <1>14, <1>15, GnThreadKeeps

LEMMA GnRollbackKeeps ==
  ASSUME GenInv, NEW t \in Threads, boot = "up" \/ job[t] # NoJob, NEW p \in Plugins,
         NEW from \in GenIds, NEW bad \in 0..MaxGens, bad # 0 => Live(bad),
         PlanRollback(t, p, from, bad),
         UNCHANGED <<tree, disabled, head, acts, approved, streak, quar,
                     run, runRef, cronRef, sessRef, cache, boot, edits, crashes>>
  PROVE  GenInv'
<1>0. gens \in [ GenIds -> GenRecord ] /\ job \in [ Threads -> Job ]
  BY DEF GenInv, GenTypeOK
<1>1. head # 0 /\ head \in GenIds /\ Live(head)
  BY GnHeadLives DEF PlanRollback
<1>2. PICK c, m :
        /\ c = [Old(head) EXCEPT ![p] = gens[from].json[p]]
        /\ m = [by |-> "rollback", plugs |-> {p}, from |-> from]
  OBVIOUS
<1>3. c \in Content /\ Semantics(c) \in Content
  <2>1. gens[from].json \in Content /\ Old(head) \in Content
    BY <1>0, <1>1 DEF GenRecord, Old
  <2> QED BY <1>2, <2>1, GnSemantics DEF Content
<1>4. m \in Manner /\ m.by = "rollback"
  <2>1. from \in 0..MaxGens
    BY GenAssumption DEF GenIds
  <2> QED BY <1>2, <2>1 DEF Manner
<1>5. PICK g \in IdFor(head, m, Semantics(c)) :
        /\ gens' = Planned(g, head, m, Semantics(c))
        /\ job' = [job EXCEPT ![t] = [pc |-> "cleared", gid |-> g, src |-> c,
                                      sources |-> {head, from}, bad |-> bad, plug |-> p]]
  BY <1>2 DEF PlanRollback
<1>6. head \in 0..MaxGens
  BY DEF GenInv, GenTypeOK
<1>7. /\ Grows /\ g \in GenIds /\ gens'[g].status # "free" /\ gens'[g].sem = Semantics(c)
      /\ gens'[g].manner = m
      /\ \A h \in GenIds : Live(h) => Live(h)'
  <2>1. (head # 0 => Live(head)) /\ m \in Manner /\ Semantics(c) \in Content
    BY <1>1, <1>3, <1>4
  <2>2. /\ Grows /\ g \in GenIds /\ gens'[g].status # "free" /\ gens'[g].sem = Semantics(c)
        /\ gens'[g].manner = m
    BY <1>5, <1>6, <2>1, GnPlanned
  <2> QED BY <2>2 DEF Grows, Live
<1>8. /\ job'[t] \in Job /\ job' \in [ Threads -> Job ]
      /\ job'[t].pc = "cleared" /\ job'[t].gid = g /\ job'[t].src = c /\ job'[t].bad = bad
      /\ \A u \in Threads \ {t} : job'[u] = job[u]
  <2>1. g \in 0..MaxGens
    BY <1>7, GenAssumption DEF GenIds
  <2>2. {head, from} \in SUBSET GenIds
    BY <1>1
  <2> QED BY <1>0, <1>3, <1>5, <2>1, <2>2 DEF Job
<1>9. JobFits(t)'
  <2>1. Cleared(t)'
    BY <1>4, <1>7, <1>8 DEF Cleared
  <2>2. bad # 0 => Live(bad)'
    BY <1>7 DEF Live
  <2>3. Semantics(job'[t].src) = gens'[g].sem
    BY <1>7, <1>8
  <2> QED BY <1>7, <1>8, <2>1, <2>2, <2>3 DEF JobFits, Live, Semantics
<1>10. GenTypeOK'
  BY <1>7, <1>8 DEF GenInv, GenTypeOK, Grows
<1> QED BY <1>1, <1>3, <1>4, <1>5, <1>6, <1>8, <1>9, <1>10, GnPlanKeeps

LEMMA GnOperatorRollbackKeeps == GenInv /\ (\E p \in Plugins, from \in GenIds : OperatorRollback(p, from)) => GenInv'
<1> SUFFICES ASSUME GenInv, NEW p \in Plugins, NEW from \in GenIds, OperatorRollback(p, from)
             PROVE  GenInv'
  OBVIOUS
<1>1. 0 \in 0..MaxGens /\ "api" \in Threads
  BY GenAssumption DEF Threads
<1> QED BY <1>1, GnRollbackKeeps DEF OperatorRollback

\* Marking a retired row quarantined disturbs nothing.
LEMMA GnQuarantines ==
  ASSUME GenInv, NEW g \in GenIds,
         gens' = gens \/ (gens[g].status = "retired" /\ gens' = [gens EXCEPT ![g].status = "quarantined"])
  PROVE  /\ Grows /\ GnRows'
         /\ \A h \in GenIds : Live(h)' <=> Live(h)
         /\ \A h \in GenIds : gens'[h].dir = gens[h].dir /\ gens'[h].fenced = gens[h].fenced
<1>1. gens \in [ GenIds -> GenRecord ]
  BY DEF GenInv, GenTypeOK
<1>2. gens' \in [ GenIds -> GenRecord ]
  <2>1. CASE gens' = [gens EXCEPT ![g].status = "quarantined"]
    <3>1. [gens[g] EXCEPT !.status = "quarantined"] \in GenRecord
      BY <1>1 DEF GenRecord
    <3> QED BY <1>1, <2>1, <3>1
  <2> QED BY <1>1, <2>1
<1>3. \A h \in GenIds :
        /\ gens'[h].parent = gens[h].parent /\ gens'[h].manner = gens[h].manner
        /\ gens'[h].sem = gens[h].sem /\ gens'[h].json = gens[h].json
        /\ gens'[h].dir = gens[h].dir /\ gens'[h].fenced = gens[h].fenced
        /\ gens'[h].status = gens[h].status
           \/ (gens[h].status = "retired" /\ gens'[h].status = "quarantined")
  <2>0. CASE gens' = gens
    BY <2>0, Zenon
  <2> SUFFICES ASSUME gens[g].status = "retired", gens' = [gens EXCEPT ![g].status = "quarantined"]
               PROVE  \A h \in GenIds :
                        /\ gens'[h].parent = gens[h].parent /\ gens'[h].manner = gens[h].manner
                        /\ gens'[h].sem = gens[h].sem /\ gens'[h].json = gens[h].json
                        /\ gens'[h].dir = gens[h].dir /\ gens'[h].fenced = gens[h].fenced
                        /\ gens'[h].status = gens[h].status
                           \/ (gens[h].status = "retired" /\ gens'[h].status = "quarantined")
    BY <2>0
  <2>1. \A h \in GenIds : h # g => gens'[h] = gens[h]
    BY <1>1
  <2>2. gens'[g] = [gens[g] EXCEPT !.status = "quarantined"]
    BY <1>1
  <2>3. gens[g] \in GenRecord
    BY <1>1
  <2>4. /\ gens'[g].parent = gens[g].parent /\ gens'[g].manner = gens[g].manner
        /\ gens'[g].sem = gens[g].sem /\ gens'[g].json = gens[g].json
        /\ gens'[g].dir = gens[g].dir /\ gens'[g].fenced = gens[g].fenced
        /\ gens'[g].status = "quarantined"
    BY <2>2, <2>3 DEF GenRecord
  <2> QED BY <2>1, <2>4, Zenon
<1>4. Grows
  BY <1>2, <1>3 DEF Grows, Live, Written
<1>5. \A h \in GenIds : (Live(h)' <=> Live(h)) /\ (Written(h)' <=> Written(h))
  BY <1>3 DEF Live, Written
<1>6. GnRows'
  <2>1. \A h \in GenIds : Live(gens[h].parent) => Live(gens[h].parent)'
    BY <1>3 DEF Live
  <2>2. \A h \in GenIds : Semantics(gens[h].json)' = Semantics(gens[h].json)
    BY <1>3 DEF Semantics
  <2> QED BY <1>3, <1>5, <2>1, <2>2 DEF GenInv, GnRows
<1> QED BY <1>3, <1>4, <1>5, <1>6

LEMMA GnReportFailureKeeps == GenInv /\ (\E r \in Runs, p \in Plugins : ReportFailure(r, p)) => GenInv'
<1> SUFFICES ASSUME GenInv, NEW r \in Runs, NEW p \in Plugins, ReportFailure(r, p) PROVE GenInv'
  OBVIOUS
<1>0. PICK g : g = runRef[r]
  OBVIOUS
<1>a. gens \in [ GenIds -> GenRecord ] /\ job \in [ Threads -> Job ] /\ "observer" \in Threads
  BY DEF GenInv, GenTypeOK, Threads
<1>1. g \in GenIds /\ g \in 0..MaxGens /\ Live(g)
  <2>1. g \in 0..MaxGens /\ g # 0
    BY <1>0 DEF ReportFailure, GenInv, GenTypeOK
  <2>2. g \in GenIds
    BY <2>1 DEF GenIds
  <2>3. Referenced(g)
    BY <1>0 DEF Referenced
  <2> QED BY <2>1, <2>2, <2>3 DEF GenInv, GnHeld
<1>2. /\ UNCHANGED <<tree, disabled, head, acts, approved,
                      run, runRef, cronRef, sessRef, cache, boot, edits, crashes>>
      /\ boot = "up"
      /\ streak[g][p] + 1 <= Threshold
      /\ streak' = [streak EXCEPT ![g][p] = streak[g][p] + 1]
  BY <1>0 DEF ReportFailure
<1>3. \/ UNCHANGED << quar, gens, job >>
      \/ /\ quar' = quar \cup {<< g, p >>}
         /\ gens' = gens \/ (gens[g].status = "retired" /\ gens' = [gens EXCEPT ![g].status = "quarantined"])
         /\ job' = [job EXCEPT !["observer"] = [NoJob EXCEPT !.pc = "fallback", !.bad = g, !.plug = p]]
  BY <1>0 DEF ReportFailure
<1>4. streak' \in [ GenIds -> [ Plugins -> 0..Threshold ] ]
  <2>1. streak[g][p] \in 0..Threshold /\ streak \in [ GenIds -> [ Plugins -> 0..Threshold ] ]
    BY <1>1 DEF GenInv, GenTypeOK, Grows
  <2>2. streak[g][p] + 1 \in 0..Threshold
    BY <1>2, <2>1, GenAssumption
  <2> QED BY <1>1, <1>2, <2>1, <2>2
<1>5. /\ Grows /\ GnRows'
      /\ \A h \in GenIds : Live(h)' <=> Live(h)
      /\ \A h \in GenIds : gens'[h].dir = gens[h].dir /\ gens'[h].fenced = gens[h].fenced
  BY <1>1, <1>3, GnQuarantines
<1>9. \A u \in Threads : job[u].pc = "built" => gens'[job[u].gid].dir = gens[job[u].gid].dir
  BY <1>5 DEF GenInv, GnJobs, JobFits
<1>10. CASE job' = job
  <2>1. JobFits("observer")'
    BY <1>a, <1>2, <1>5, <1>9, <1>10, GnJobKept
  <2>2. GenTypeOK'
    BY <1>2, <1>3, <1>4, <1>5, <1>1, <1>10 DEF GenInv, GenTypeOK, Grows
  <2> QED BY <1>a, <1>2, <1>5, <1>9, <1>10, <2>1, <2>2, GnThreadKeeps
<1>11. CASE job' = [job EXCEPT !["observer"] = [NoJob EXCEPT !.pc = "fallback", !.bad = g, !.plug = p]]
  <2>1. /\ job' \in [ Threads -> Job ] /\ \A u \in Threads \ {"observer"} : job'[u] = job[u]
        /\ job'["observer"].pc = "fallback" /\ job'["observer"].bad = g /\ job'["observer"].plug = p
    BY <1>a, <1>1, <1>11, GnNoJobs DEF Job, NoJob
  <2>2. g # 0 /\ Live(g)'
    BY <1>1, <1>5 DEF GenIds
  <2>3. JobFits("observer")'
    BY <2>1, <2>2 DEF JobFits, Live
  <2>4. GenTypeOK'
    BY <1>2, <1>3, <1>4, <1>5, <1>1, <2>1 DEF GenInv, GenTypeOK, Grows
  <2> QED BY <1>a, <1>2, <1>5, <1>9, <2>1, <2>3, <2>4, GnThreadKeeps
<1> QED BY <1>3, <1>10, <1>11

LEMMA GnMarkQuarantinedKeeps == GenInv /\ MarkQuarantined => GenInv'
<1> SUFFICES ASSUME GenInv, MarkQuarantined PROVE GenInv'
  OBVIOUS
<1>0. PICK g : g = job["observer"].bad
  OBVIOUS
<1>a. gens \in [ GenIds -> GenRecord ] /\ job \in [ Threads -> Job ] /\ "observer" \in Threads
  BY DEF GenInv, GenTypeOK, Threads
<1>1. g \in GenIds /\ job["observer"].pc = "mark" /\ job["observer"] # NoJob
  BY <1>0, <1>a DEF MarkQuarantined, GenInv, GnJobs, JobFits, Live, NoJob
<1>2. /\ UNCHANGED <<tree, disabled, head, acts, approved, streak, quar,
                      run, runRef, cronRef, sessRef, cache, boot, edits, crashes>>
      /\ gens' = gens \/ (gens[g].status = "retired" /\ gens' = [gens EXCEPT ![g].status = "quarantined"])
      /\ job' = [job EXCEPT !["observer"] = NoJob]
  BY <1>0 DEF MarkQuarantined, Fail
<1>5. /\ Grows /\ GnRows'
      /\ \A h \in GenIds : Live(h)' <=> Live(h)
      /\ \A h \in GenIds : gens'[h].dir = gens[h].dir /\ gens'[h].fenced = gens[h].fenced
  BY <1>1, <1>2, GnQuarantines
<1>9. \A u \in Threads : job[u].pc = "built" => gens'[job[u].gid].dir = gens[job[u].gid].dir
  BY <1>5 DEF GenInv, GnJobs, JobFits
<1>10. /\ job' \in [ Threads -> Job ] /\ \A u \in Threads \ {"observer"} : job'[u] = job[u]
       /\ job'["observer"] = NoJob
  BY <1>a, <1>2, GnNoJobs
<1>11. JobFits("observer")'
  BY <1>10 DEF JobFits, NoJob
<1>12. GenTypeOK'
  BY <1>2, <1>5, <1>10 DEF GenInv, GenTypeOK, Grows
<1> QED BY <1>a, <1>1, <1>2, <1>5, <1>9, <1>10, <1>11, <1>12, GnThreadKeeps

LEMMA GnChooseFallbackKeeps == GenInv /\ ChooseFallback => GenInv'
<1> SUFFICES ASSUME GenInv, ChooseFallback PROVE GenInv'
  OBVIOUS
<1>0. PICK p, bad : p = job["observer"].plug /\ bad = job["observer"].bad
  OBVIOUS
<1>a. gens \in [ GenIds -> GenRecord ] /\ job \in [ Threads -> Job ] /\ "observer" \in Threads
  BY DEF GenInv, GenTypeOK, Threads
<1>1. /\ p \in Plugins /\ bad \in GenIds /\ bad # 0 /\ Live(bad) /\ bad \in 0..MaxGens
      /\ job["observer"] # NoJob
  <2>1. p \in Plugins /\ bad # 0 /\ Live(bad) /\ job["observer"].pc = "fallback"
    BY <1>0, <1>a DEF ChooseFallback, GenInv, GnJobs, JobFits
  <2>2. bad \in GenIds /\ bad \in 0..MaxGens
    BY <1>0, <1>a, <2>1 DEF Live, Job
  <2> QED BY <2>1, <2>2 DEF NoJob
<1>2. UNCHANGED <<tree, disabled, head, acts, approved, streak, quar,
                  run, runRef, cronRef, sessRef, cache, boot, edits, crashes>>
  BY DEF ChooseFallback
<1>3. CASE /\ Fallbacks(p, bad) # {}
           /\ PlanRollback("observer", p, acts[CHOOSE i \in Fallbacks(p, bad) : \A k \in Fallbacks(p, bad) : k <= i], bad)
  <2>1. acts \in Seq(GenIds)
    BY DEF GenInv, GenTypeOK
  <2>2. Len(acts) \in Nat /\ Fallbacks(p, bad) \in SUBSET (1..Len(acts))
    BY <2>1 DEF Fallbacks
  <2>3. \E i \in Fallbacks(p, bad) : \A k \in Fallbacks(p, bad) : k <= i
    BY <1>3, <2>2, GnHighest
  <2>4. (CHOOSE i \in Fallbacks(p, bad) : \A k \in Fallbacks(p, bad) : k <= i) \in 1..Len(acts)
    BY <2>2, <2>3
  <2>5. acts[CHOOSE i \in Fallbacks(p, bad) : \A k \in Fallbacks(p, bad) : k <= i] \in GenIds
    BY <2>1, <2>4
  <2> QED BY <1>a, <1>1, <1>2, <1>3, <2>5, GnRollbackKeeps
<1>4. CASE PlanDisable("observer", p, bad)
  <2>1. PICK S, c, m :
          /\ S = DisableSet(Old(bad), p)
          /\ c = [q \in Plugins |-> IF q \in S THEN Absent ELSE Old(bad)[q]]
          /\ m = [by |-> "disable", plugs |-> S, from |-> 0]
    OBVIOUS
  <2>2. Old(bad) \in Content
    BY <1>a, <1>1 DEF Old, GenRecord
  <2>3. S \in SUBSET Plugins /\ c \in Content /\ m \in Manner /\ m.by = "disable"
    <3>1. S \in SUBSET Plugins
      BY <1>1, <2>1, <2>2, GnDisableSet
    <3>2. c \in Content
      BY <2>1, <2>2 DEF Content
    <3> QED BY <2>1, <3>1, <3>2, GnNoJobs DEF Manner
  <2>4. Semantics(c) \in Content
    BY <2>3, GnSemantics
  <2>5. PICK g \in IdFor(bad, m, Semantics(c)) :
          /\ gens' = Planned(g, bad, m, Semantics(c))
          /\ job' = [job EXCEPT !["observer"] = [pc |-> "cleared", gid |-> g, src |-> c,
                                        sources |-> {bad}, bad |-> bad, plug |-> p]]
    BY <1>4, <2>1 DEF PlanDisable
  <2>6. /\ Grows /\ g \in GenIds /\ gens'[g].status # "free" /\ gens'[g].sem = Semantics(c)
        /\ gens'[g].manner = m /\ Live(bad)'
    BY <1>1, <2>3, <2>4, <2>5, GnPlanned DEF Grows, Live
  <2>7. /\ job'["observer"] \in Job /\ job' \in [ Threads -> Job ]
        /\ job'["observer"].pc = "cleared" /\ job'["observer"].gid = g
        /\ job'["observer"].src = c /\ job'["observer"].bad = bad
        /\ \A u \in Threads \ {"observer"} : job'[u] = job[u]
    <3>1. g \in 0..MaxGens
      BY <2>6, GenAssumption DEF GenIds
    <3>2. {bad} \in SUBSET GenIds
      BY <1>1
    <3> QED BY <1>a, <1>1, <2>3, <2>5, <3>1, <3>2 DEF Job
  <2>8. JobFits("observer")'
    <3>1. Cleared("observer")'
      BY <2>3, <2>6, <2>7 DEF Cleared
    <3>2. Semantics(job'["observer"].src) = gens'[g].sem
      BY <2>6, <2>7
    <3> QED BY <2>6, <2>7, <3>1, <3>2 DEF JobFits, Live, Semantics
  <2>9. GenTypeOK'
    BY <1>2, <2>6, <2>7 DEF GenInv, GenTypeOK, Grows
  <2> QED BY <1>a, <1>1, <1>2, <2>3, <2>4, <2>5, <2>7, <2>8, <2>9, GnPlanKeeps
<1>5. CASE job' = [job EXCEPT !["observer"].pc = "mark"] /\ UNCHANGED gens
  <2>1. /\ job' \in [ Threads -> Job ] /\ \A u \in Threads \ {"observer"} : job'[u] = job[u]
        /\ job'["observer"].pc = "mark" /\ job'["observer"].bad = bad
    BY <1>0, <1>a, <1>5 DEF Job
  <2>2. Grows
    BY <1>5, GnRests
  <2>3. GnRows'
    BY <1>5 DEF GenInv, GnRows, Live, Written, Semantics
  <2>4. JobFits("observer")'
    BY <1>1, <1>5, <2>1 DEF JobFits, Live
  <2>5. GenTypeOK'
    BY <1>2, <1>5, <2>1 DEF GenInv, GenTypeOK
  <2> QED BY <1>a, <1>1, <1>2, <1>5, <2>1, <2>2, <2>3, <2>4, <2>5, GnThreadKeeps DEF Live
<1> QED BY <1>0, <1>3, <1>4, <1>5 DEF ChooseFallback

LEMMA GnActivateKeeps == GenInv /\ (\E t \in Threads : Activate(t)) => GenInv'
<1> SUFFICES ASSUME GenInv, NEW t \in Threads, Activate(t) PROVE GenInv'
  OBVIOUS
<1>0. PICK g, c : g = job[t].gid /\ c = job[t].src
  OBVIOUS
<1>a. gens \in [ GenIds -> GenRecord ] /\ job \in [ Threads -> Job ] /\ acts \in Seq(GenIds)
  BY DEF GenInv, GenTypeOK
<1>1. /\ g \in GenIds /\ gens[g].status # "free" /\ c \in Content /\ Semantics(c) = gens[g].sem
      /\ job[t] \in Job /\ job[t] # NoJob /\ Cleared(t) /\ gens[g].dir = c
      /\ (job[t].bad # 0 => Live(job[t].bad))
  BY <1>0, <1>a DEF Activate, GenInv, GnJobs, JobFits, Job, NoJob
<1>2. UNCHANGED <<tree, disabled, approved, streak, quar,
                   run, runRef, cronRef, sessRef, cache, boot, edits, crashes>> /\ job[t].pc = "built"
  BY DEF Activate
<1>3. /\ job' \in [ Threads -> Job ] /\ \A u \in Threads \ {t} : job'[u] = job[u]
      /\ \/ job'[t] = NoJob
         \/ job'[t].pc = "mark" /\ job'[t].bad = job[t].bad /\ job[t].bad # 0
  <2>1. \/ job' = [job EXCEPT ![t] = NoJob]
        \/ job[t].bad # 0 /\ job' = [job EXCEPT ![t].pc = "mark"]
    BY DEF Activate, Fail
  <2>2. CASE job' = [job EXCEPT ![t] = NoJob]
    BY <1>a, <2>2, GnNoJobs
  <2>3. CASE job[t].bad # 0 /\ job' = [job EXCEPT ![t].pc = "mark"]
    <3>1. [job[t] EXCEPT !.pc = "mark"] \in Job
      BY <1>1 DEF Job
    <3>2. job' = [job EXCEPT ![t] = [job[t] EXCEPT !.pc = "mark"]]
      BY <2>3
    <3>3. job'[t] = [job[t] EXCEPT !.pc = "mark"] /\ job' \in [ Threads -> Job ]
      BY <1>a, <3>1, <3>2
    <3>4. job'[t].pc = "mark" /\ job'[t].bad = job[t].bad
      BY <1>1, <3>3 DEF Job
    <3> QED BY <1>a, <2>3, <3>2, <3>3, <3>4
  <2> QED BY <2>1, <2>2, <2>3
<1>4. CASE UNCHANGED <<gens, head, acts>>
  <2>1. Grows
    BY <1>4, GnRests
  <2>2. GnRows'
    BY <1>4 DEF GenInv, GnRows, Live, Written, Semantics
  <2>3. JobFits(t)'
    BY <1>1, <1>3, <1>4 DEF JobFits, Live, NoJob
  <2>4. GenTypeOK'
    BY <1>2, <1>3, <1>4 DEF GenInv, GenTypeOK
  <2> QED BY <1>1, <1>2, <1>3, <1>4, <2>1, <2>2, <2>3, <2>4, GnThreadKeeps DEF Live
<1>5. CASE CanActivate(g, c) /\ ActivateHead(g, c)
  <2>1. gens[g].parent = head /\ (gens[g].status # "none" => gens[g].json = c)
    BY <1>5 DEF CanActivate
  <2>2. /\ head' = g /\ acts' = Append(acts, g)
        /\ gens' = [h \in GenIds |->
              IF h = g THEN [gens[h] EXCEPT !.json = c, !.status = "active"]
              ELSE IF h = head /\ gens[h].status = "active" THEN [gens[h] EXCEPT !.status = "retired"]
              ELSE gens[h]]
    BY <1>5 DEF ActivateHead
  <2>3. /\ gens' \in [ GenIds -> GenRecord ]
        /\ \A h \in GenIds :
              /\ gens'[h].parent = gens[h].parent /\ gens'[h].manner = gens[h].manner
              /\ gens'[h].sem = gens[h].sem /\ gens'[h].dir = gens[h].dir
              /\ gens'[h].fenced = gens[h].fenced
              /\ h # g => gens'[h].json = gens[h].json
              /\ h # g => \/ gens'[h].status = gens[h].status
                         \/ (gens[h].status = "active" /\ gens'[h].status = "retired")
        /\ gens'[g].json = c /\ gens'[g].status = "active"
    <3> SUFFICES ASSUME NEW h \in GenIds
                 PROVE  /\ gens'[h] \in GenRecord
                        /\ gens'[h].parent = gens[h].parent /\ gens'[h].manner = gens[h].manner
                        /\ gens'[h].sem = gens[h].sem /\ gens'[h].dir = gens[h].dir
                        /\ gens'[h].fenced = gens[h].fenced
                        /\ h # g => gens'[h].json = gens[h].json
                        /\ h # g => \/ gens'[h].status = gens[h].status
                                   \/ (gens[h].status = "active" /\ gens'[h].status = "retired")
                        /\ h = g => gens'[h].json = c /\ gens'[h].status = "active"
      BY <1>1, <2>2
    <3>1. gens[h] \in GenRecord
      BY <1>a
    <3>2. CASE h = g
      <4>1. gens'[h] = [gens[h] EXCEPT !.json = c, !.status = "active"]
        BY <2>2, <3>2
      <4> QED BY <1>1, <3>1, <3>2, <4>1 DEF GenRecord
    <3>3. CASE h # g /\ h = head /\ gens[h].status = "active"
      <4>1. gens'[h] = [gens[h] EXCEPT !.status = "retired"]
        BY <2>2, <3>3
      <4> QED BY <3>1, <3>3, <4>1 DEF GenRecord
    <3>4. CASE h # g /\ ~ (h = head /\ gens[h].status = "active")
      <4>1. gens'[h] = gens[h]
        BY <2>2, <3>4
      <4> QED BY <3>1, <3>4, <4>1, Zenon
    <3> QED BY <3>2, <3>3, <3>4
  \* g was never the head: its parent would have a second successor
  <2>4. \A i \in 1..Len(acts) : acts[i] # g
    <3> SUFFICES ASSUME NEW i \in 1..Len(acts), acts[i] = g PROVE FALSE
      OBVIOUS
    <3>1. head = acts[Len(acts)] /\ Len(acts) \in 1..Len(acts)
      BY <1>a DEF GenInv, HeadsFormChain
    <3>2. gens[acts[i]].parent = (IF i = 1 THEN 0 ELSE acts[i - 1])
      BY <1>a DEF GenInv, HeadsFormChain
    <3>3. head # 0
      BY SMTT(30), <1>a, <3>1 DEF GenIds
    <3>4. i # 1 /\ acts[i - 1] = acts[Len(acts)] /\ i - 1 \in 1..Len(acts)
      BY <1>a, <2>1, <3>1, <3>2, <3>3
    <3>5. i - 1 = Len(acts)
      BY <1>a, <3>1, <3>4 DEF GenInv, HeadsFormChain
    <3> QED BY <1>a, <3>5
  <2>5. ~ Live(g) /\ gens[g].fenced = FALSE /\ g # head
    <3>1. ~ Live(g)
      BY <1>a, <1>1, <2>4 DEF GenInv, GnHistory
    <3> QED BY <1>1, <1>a, <3>1, GnHeadLives DEF GenInv, GnRows, GenRecord, GenIds
  <2>6. /\ Len(acts') = Len(acts) + 1 /\ acts' \in Seq(GenIds)
        /\ acts'[Len(acts) + 1] = g
        /\ \A i \in 1..Len(acts) : acts'[i] = acts[i]
    <3> DEFINE s == acts
    <3>1. s \in Seq(GenIds) /\ acts' = Append(s, g)
      BY <1>a, <2>2
    <3> HIDE DEF s
    <3>2. /\ Len(Append(s, g)) = Len(s) + 1 /\ Append(s, g) \in Seq(GenIds)
          /\ Append(s, g)[Len(s) + 1] = g
          /\ \A i \in 1..Len(s) : Append(s, g)[i] = s[i]
      BY <1>1, <3>1
    <3> QED BY <3>1, <3>2 DEF s
  <2>7. Grows
    BY <2>1, <2>3, <2>5 DEF Grows, Live, Written
  <2>8. \A h \in GenIds : (Live(h)' <=> Live(h) \/ h = g) /\ (Written(h)' <=> Written(h) \/ h = g)
    BY <1>1, <2>3 DEF Live, Written
  <2>9. GenTypeOK'
    <3>1. g \in 0..MaxGens
      BY <1>1, GenAssumption DEF GenIds
    <3> QED BY <1>2, <1>3, <2>2, <2>3, <2>6, <3>1 DEF GenInv, GenTypeOK
  <2>10. GnRows'
    <3>1. \A h \in GenIds : Live(gens[h].parent) => Live(gens[h].parent)'
      BY <2>3, <2>8 DEF Live
    <3>2. \A h \in GenIds : h # g => Semantics(gens[h].json)' = Semantics(gens[h].json)
      BY <2>3 DEF Semantics
    <3>3. Semantics(gens'[g].json) = gens'[g].sem
      BY SMTT(40), <1>1, <2>3
    <3> QED BY <1>1, <2>3, <2>8, <3>1, <3>2, <3>3 DEF GenInv, GnRows, Semantics
  <2>11. HeadsFormChain'
    <3>1. head' = acts'[Len(acts')] /\ acts' # << >>
      <4>1. acts' # << >>
        <5>1. Len(acts') # 0 /\ Len(<< >>) = 0
          BY <1>a, <2>6
        <5> QED BY <5>1
      <4> QED BY <2>2, <2>6, <4>1
    <3>2. \A i \in 1..Len(acts) : gens'[acts'[i]].parent = (IF i = 1 THEN 0 ELSE acts'[i - 1])
      <4> SUFFICES ASSUME NEW i \in 1..Len(acts)
                   PROVE  gens'[acts'[i]].parent = (IF i = 1 THEN 0 ELSE acts'[i - 1])
        OBVIOUS
      <4>1. acts[i] \in GenIds /\ gens[acts[i]].parent = (IF i = 1 THEN 0 ELSE acts[i - 1])
        BY <1>a DEF GenInv, HeadsFormChain
      <4>2. i # 1 => i - 1 \in 1..Len(acts)
        BY <1>a
      <4>3. acts'[i] = acts[i] /\ gens'[acts[i]].parent = gens[acts[i]].parent
        BY <1>1, <2>3, <2>6, <4>1
      <4>4. i # 1 => acts'[i - 1] = acts[i - 1]
        BY <2>6, <4>2
      <4> QED BY <4>1, <4>3, <4>4
    <3>3. gens'[acts'[Len(acts) + 1]].parent = (IF Len(acts) + 1 = 1 THEN 0 ELSE acts'[(Len(acts) + 1) - 1])
      <4>1. gens'[g].parent = head
        BY <1>1, <2>1, <2>3
      <4>2. head = (IF acts = << >> THEN 0 ELSE acts[Len(acts)])
        BY DEF GenInv, HeadsFormChain
      <4>3. CASE acts = << >>
        BY <2>6, <4>1, <4>2, <4>3
      <4>4. CASE acts # << >>
        <5>1. Len(acts) \in 1..Len(acts) /\ (Len(acts) + 1) - 1 = Len(acts) /\ Len(acts) + 1 # 1
          BY <1>a, <4>4
        <5> QED BY <2>6, <4>1, <4>2, <4>4, <5>1
      <4> QED BY <4>3, <4>4
    <3>4. \A i \in 1..(Len(acts) + 1) : i \in 1..Len(acts) \/ i = Len(acts) + 1
      BY <1>a
    <3>5. \A i, k \in 1..Len(acts) : acts[i] = acts[k] => i = k
      BY <1>a DEF GenInv, HeadsFormChain
    <3>6. \A i, k \in 1..(Len(acts) + 1) : acts'[i] = acts'[k] => i = k
      BY <2>4, <2>6, <3>4, <3>5
    <3>7. \A i \in 1..(Len(acts) + 1) : gens'[acts'[i]].parent = (IF i = 1 THEN 0 ELSE acts'[i - 1])
      BY <3>2, <3>3, <3>4
    <3>8. DOMAIN acts' = 1..(Len(acts) + 1)
      BY <2>6
    <3> QED BY <3>1, <3>6, <3>7, <3>8 DEF HeadsFormChain
  <2>12. GnHistory'
    <3>1. DOMAIN acts' = 1..(Len(acts) + 1) /\ DOMAIN acts = 1..Len(acts)
      BY <1>a, <2>6
    <3>2. \A i \in 1..(Len(acts) + 1) : i \in 1..Len(acts) \/ i = Len(acts) + 1
      BY <1>a
    <3>3. \A i \in 1..Len(acts) : acts[i] \in GenIds /\ Live(acts[i])
      BY <1>a DEF GenInv, GnHistory
    <3>4. \A i \in DOMAIN acts' : acts'[i] \in GenIds /\ gens'[acts'[i]].status \in { "active", "retired", "quarantined" }
      BY <1>1, <2>3, <2>6, <2>7, <3>1, <3>2, <3>3 DEF Grows
    <3>5. \A h \in GenIds : Live(h)' => \E i \in DOMAIN acts' : acts'[i] = h
      <4> SUFFICES ASSUME NEW h \in GenIds, Live(h)' PROVE \E i \in DOMAIN acts' : acts'[i] = h
        OBVIOUS
      <4>1. CASE h = g
        <5>1. Len(acts) + 1 \in 1..(Len(acts) + 1)
          BY <1>a
        <5> QED BY <2>6, <3>1, <4>1, <5>1
      <4>2. CASE h # g
        <5>1. PICK i \in 1..Len(acts) : acts[i] = h
          BY <2>8, <3>1, <4>2 DEF GenInv, GnHistory
        <5>2. i \in 1..(Len(acts) + 1)
          BY <1>a
        <5> QED BY <2>6, <3>1, <5>1, <5>2
      <4> QED BY <4>1, <4>2
    <3> QED BY <3>4, <3>5 DEF GnHistory, Live
  <2>13. ExecutableApproved'
    <3>1. SUFFICES ASSUME NEW i \in 2..Len(acts'), gens'[acts'[i]].manner.by = "reload",
                          NeedsApproval(acts[i - 1], gens[acts[i]].json)'
                   PROVE  acts'[i] \in approved'
      BY DEF ExecutableApproved
    <3>2. i \in 2..Len(acts) \/ i = Len(acts) + 1
      BY <1>a, <2>6
    <3>3. i - 1 \in 1..Len(acts) /\ acts'[i - 1] = acts[i - 1] /\ acts[i - 1] \in GenIds /\ acts[i - 1] # g
      <4>1. i - 1 \in 1..Len(acts)
        BY <1>a, <2>6
      <4>2. acts[i - 1] \in GenIds
        BY <1>a, <4>1
      <4>3. acts'[i - 1] = acts[i - 1]
        BY <2>6, <4>1
      <4>4. acts[i - 1] # g
        BY <2>4, <4>1
      <4> QED BY <4>1, <4>2, <4>3, <4>4
    <3>4. Old(acts[i - 1])' = Old(acts[i - 1])
      BY <2>3, <3>3 DEF Old
    <3>5. CASE i \in 2..Len(acts)
      <4>1. i \in 1..Len(acts) /\ acts'[i] = acts[i] /\ acts[i] \in GenIds /\ acts[i] # g
        <5>1. i \in 1..Len(acts)
          BY <1>a, <3>5
        <5>2. acts[i] \in GenIds
          BY <1>a, <5>1
        <5>3. acts'[i] = acts[i]
          BY <2>6, <5>1
        <5>4. acts[i] # g
          BY <2>4, <5>1
        <5> QED BY <5>1, <5>2, <5>3, <5>4
      <4>2. gens'[acts[i]].json = gens[acts[i]].json /\ gens'[acts[i]].manner = gens[acts[i]].manner
        BY <2>3, <4>1
      <4>3. NeedsApproval(acts[i - 1], gens[acts[i]].json)
        BY <3>1, <3>3, <3>4, <4>1, <4>2 DEF NeedsApproval, Semantics
      <4> QED BY <1>2, <3>1, <3>5, <4>1, <4>2, <4>3 DEF GenInv, ExecutableApproved
    <3>6. CASE i = Len(acts) + 1
      <4>1. acts'[i] = g /\ acts[i - 1] = head /\ gens[g].parent = head
        <5>1. head = (IF acts = << >> THEN 0 ELSE acts[Len(acts)]) /\ i - 1 = Len(acts) /\ acts # << >>
          BY <1>a, <3>3, <3>6 DEF GenInv, HeadsFormChain
        <5> QED BY <2>1, <2>6, <3>6, <5>1
      <4>2. gens'[g].json = c /\ gens'[g].manner = gens[g].manner
        BY <1>1, <2>3
      <4>3. NeedsApproval(gens[g].parent, c)
        BY <3>1, <3>3, <3>4, <4>1, <4>2 DEF NeedsApproval, Semantics
      <4> QED BY <1>0, <1>1, <1>2, <3>1, <4>1, <4>2, <4>3 DEF Cleared
    <3> QED BY <3>2, <3>5, <3>6
  <2>14. GnJobs'
    <3>1. \A u \in Threads : JobFits(u)'
      <4> SUFFICES ASSUME NEW u \in Threads PROVE JobFits(u)'
        OBVIOUS
      <4>1. CASE u = t
        BY <1>1, <1>3, <2>7, <4>1 DEF JobFits, Live, NoJob, Grows
      <4>2. CASE u # t
        <5>1. job[u].pc = "built" => gens'[job[u].gid].dir = gens[job[u].gid].dir
          BY <2>3 DEF GenInv, GnJobs, JobFits
        <5> QED BY <1>2, <1>3, <2>7, <4>2, <5>1, GnJobKept
      <4> QED BY <4>1, <4>2
    <3> QED BY <1>1, <1>2, <3>1 DEF GenInv, GnJobs
  <2>15. GnHeld'
    <3>1. \A h \in GenIds : Referenced(h)' <=> Referenced(h)
      BY <1>2 DEF Referenced
    <3>2. \A h \in GenIds : Referenced(h) => Live(h) /\ h # g
      BY <2>5 DEF GenInv, GnHeld
    <3>3. \A h \in GenIds : Referenced(h)' => Live(h)'
      BY <2>8, <3>1, <3>2
    <3>4. \A h \in GenIds : Referenced(h) => gens[h].dir = gens[h].json /\ ~ gens[h].fenced
      BY DEF GenInv, GnHeld, HeldIsWhole, SnapshotWhole
    <3>5. \A h \in GenIds : Referenced(h)' => gens'[h].dir = gens'[h].json /\ ~ gens'[h].fenced
      BY <2>3, <3>1, <3>2, <3>4
    <3>6. gens'[g].dir = gens'[g].json /\ ~ gens'[g].fenced
      BY <1>1, <2>3, <2>5
    <3>7. HeldIsWhole'
      BY <2>2, <3>5, <3>6 DEF HeldIsWhole, SnapshotWhole
    <3> QED BY <1>2, <3>3, <3>7 DEF GenInv, GnHeld
  <2> QED BY <2>9, <2>10, <2>11, <2>12, <2>13, <2>14, <2>15 DEF GenInv
<1> QED BY <1>0, <1>4, <1>5 DEF Activate, Fail

-----------------------------------------------------------------------------
(* The start of the process and the collection of old generations.         *)
LEMMA GnGcFenceKeeps == GenInv /\ (\E g \in GenIds : GcFence(g)) => GenInv'
<1> SUFFICES ASSUME GenInv, NEW g \in GenIds, GcFence(g) PROVE GenInv'
  OBVIOUS
<1>1. /\ gens[g].status \in {"retired", "quarantined"} /\ ~ Referenced(g) /\ g # head /\ boot = "gc"
      /\ gens' = [gens EXCEPT ![g].fenced = TRUE]
      /\ UNCHANGED <<tree, disabled, head, acts, approved, streak, quar, job,
                     run, runRef, cronRef, sessRef, cache, boot, edits, crashes>>
  BY DEF GcFence
<1>2. gens \in [ GenIds -> GenRecord ]
  BY DEF GenInv, GenTypeOK
<1>3. \A h \in GenIds : h # g => gens'[h] = gens[h]
  BY <1>1, <1>2
<1>4. /\ gens'[g] \in GenRecord /\ gens'[g].parent = gens[g].parent /\ gens'[g].manner = gens[g].manner
      /\ gens'[g].sem = gens[g].sem /\ gens'[g].json = gens[g].json
      /\ gens'[g].dir = gens[g].dir /\ gens'[g].status = gens[g].status
  <2>1. gens'[g] = [gens[g] EXCEPT !.fenced = TRUE] /\ gens[g] \in GenRecord
    BY <1>1, <1>2
  <2> QED BY <2>1 DEF GenRecord
<1>5. gens' \in [ GenIds -> GenRecord ]
  BY <1>1, <1>2, <1>3, <1>4
<1>6. Grows
  BY <1>3, <1>4, <1>5 DEF Grows, Live, Written
<1>7. \A h \in GenIds : (Live(h)' <=> Live(h)) /\ (Written(h)' <=> Written(h))
  BY <1>3, <1>4 DEF Live, Written
<1>8. GnRows'
  <2>1. \A h \in GenIds : /\ gens'[h].parent = gens[h].parent /\ gens'[h].sem = gens[h].sem
                          /\ gens'[h].json = gens[h].json /\ gens'[h].status = gens[h].status
                          /\ gens'[h].fenced => h = g \/ gens[h].fenced
    BY <1>3, <1>4
  <2>2. \A h \in GenIds : Live(gens[h].parent) => Live(gens[h].parent)'
    BY <1>7, <2>1 DEF Live
  <2>3. \A h \in GenIds : Semantics(gens[h].json)' = Semantics(gens[h].json)
    BY <2>1 DEF Semantics
  <2>4. Live(g)
    BY <1>1 DEF Live
  <2> QED BY <1>7, <2>1, <2>2, <2>3, <2>4 DEF GenInv, GnRows
<1>9. HeadsFormChain' /\ GnHistory'
  BY <1>1, <1>6, <1>7, GnHistoryKept
<1>10. ExecutableApproved'
  BY <1>1, <1>6, GnApprovedKept
<1>11. GnJobs'
  <2>1. \A t \in Threads : JobFits(t)'
    BY <1>1 DEF GenInv, GnJobs, JobFits, NoJob
  <2> QED BY <1>1, <2>1 DEF GenInv, GnJobs
<1>12. GnHeld'
  BY <1>1, <1>3, <1>6, GnHeldKept
<1>13. GenTypeOK'
  BY <1>1, <1>5 DEF GenInv, GenTypeOK
<1> QED BY <1>8, <1>9, <1>10, <1>11, <1>12, <1>13 DEF GenInv

LEMMA GnGcRemoveKeeps == GenInv /\ (\E g \in GenIds : GcRemove(g)) => GenInv'
<1> SUFFICES ASSUME GenInv, NEW g \in GenIds, GcRemove(g) PROVE GenInv'
  OBVIOUS
<1>1. /\ gens[g].fenced /\ boot = "gc"
      /\ gens' = [gens EXCEPT ![g].dir = Nothing]
      /\ UNCHANGED <<tree, disabled, head, acts, approved, streak, quar, job,
                     run, runRef, cronRef, sessRef, cache, boot, edits, crashes>>
  BY DEF GcRemove
<1>2. gens \in [ GenIds -> GenRecord ]
  BY DEF GenInv, GenTypeOK
<1>3. \A h \in GenIds : h # g => gens'[h] = gens[h]
  BY <1>1, <1>2
<1>4. /\ gens'[g] \in GenRecord /\ gens'[g].parent = gens[g].parent /\ gens'[g].manner = gens[g].manner
      /\ gens'[g].sem = gens[g].sem /\ gens'[g].json = gens[g].json
      /\ gens'[g].fenced = gens[g].fenced /\ gens'[g].status = gens[g].status
  <2>1. gens'[g] = [gens[g] EXCEPT !.dir = Nothing] /\ gens[g] \in GenRecord
    BY <1>1, <1>2
  <2> QED BY <2>1, GnNoJobs DEF GenRecord
<1>5. gens' \in [ GenIds -> GenRecord ]
  BY <1>1, <1>2, <1>3, <1>4
<1>6. Grows
  BY <1>3, <1>4, <1>5 DEF Grows, Live, Written
<1>7. \A h \in GenIds : (Live(h)' <=> Live(h)) /\ (Written(h)' <=> Written(h))
  BY <1>3, <1>4 DEF Live, Written
<1>8. GnRows'
  <2>1. \A h \in GenIds : /\ gens'[h].parent = gens[h].parent /\ gens'[h].sem = gens[h].sem
                          /\ gens'[h].json = gens[h].json /\ gens'[h].status = gens[h].status
                          /\ gens'[h].fenced = gens[h].fenced
    BY <1>3, <1>4
  <2>2. \A h \in GenIds : Live(gens[h].parent) => Live(gens[h].parent)'
    BY <1>7, <2>1 DEF Live
  <2>3. \A h \in GenIds : Semantics(gens[h].json)' = Semantics(gens[h].json)
    BY <2>1 DEF Semantics
  <2> QED BY <1>7, <2>1, <2>2, <2>3 DEF GenInv, GnRows
<1>9. HeadsFormChain' /\ GnHistory'
  BY <1>1, <1>6, <1>7, GnHistoryKept
<1>10. ExecutableApproved'
  BY <1>1, <1>6, GnApprovedKept
<1>11. GnJobs'
  <2>1. \A t \in Threads : JobFits(t)'
    BY <1>1 DEF GenInv, GnJobs, JobFits, NoJob
  <2> QED BY <1>1, <2>1 DEF GenInv, GnJobs
<1>12. ~ Referenced(g) /\ g # head
  BY <1>1 DEF GenInv, GnHeld, HeldIsWhole
<1>13. GnHeld'
  BY <1>1, <1>3, <1>6, <1>12, GnHeldKept
<1>14. GenTypeOK'
  BY <1>1, <1>5 DEF GenInv, GenTypeOK
<1> QED BY <1>8, <1>9, <1>10, <1>11, <1>13, <1>14 DEF GenInv

LEMMA GnEnsureInitialKeeps == GenInv /\ EnsureInitial => GenInv'
<1> SUFFICES ASSUME GenInv, EnsureInitial PROVE GenInv'
  OBVIOUS
<1>1. /\ boot = "boot" /\ boot' = "gc"
      /\ UNCHANGED <<tree, disabled, approved, streak, quar, job,
                     run, runRef, cronRef, sessRef, cache, edits, crashes>>
  BY DEF EnsureInitial
<1>2. gens \in [ GenIds -> GenRecord ]
  BY DEF GenInv, GenTypeOK
<1>3. CASE head # 0
  <2>1. gens' = [gens EXCEPT ![head].dir = gens[head].json] /\ UNCHANGED <<head, acts>>
    BY <1>3 DEF EnsureInitial
  <2>2. head \in GenIds /\ gens[head].dir = gens[head].json
    BY <1>3, GnHeadLives DEF GenInv, GnHeld, HeldIsWhole, SnapshotWhole
  <2>3. gens' = gens
    <3>1. [gens[head] EXCEPT !.dir = gens[head].json] = gens[head]
      BY <1>2, <2>2 DEF GenRecord
    <3> QED BY <1>2, <2>1, <2>2, <3>1
  <2>4. GenTypeOK'
    BY <1>1, <2>1, <2>3 DEF GenInv, GenTypeOK
  <2>5. job' = [t \in Threads |-> NoJob]
    <3>1. job \in [ Threads -> Job ] /\ \A t \in Threads : job[t] = NoJob
      BY <1>1 DEF GenInv, GnJobs, GenTypeOK
    <3> QED BY <1>1, <3>1
  <2>6. \A g \in GenIds : Referenced(g)' => Referenced(g)
    BY <1>1 DEF Referenced
  <2> QED BY <1>1, <2>1, <2>3, <2>4, <2>5, <2>6, GnOwnersKeep DEF GenInv, GnHeld
<1>4. CASE head = 0
  <2>0. PICK c : c = Discovered
    OBVIOUS
  <2>1. PICK g \in Slot :
          /\ gens' = [gens EXCEPT ![g] = [FreeGen EXCEPT !.sem = Semantics(c),
                         !.json = c, !.dir = c, !.status = "active"]]
          /\ head' = g
          /\ acts' = Append(acts, g)
    BY <1>4, <2>0 DEF EnsureInitial
  <2>2. g \in GenIds /\ gens[g].status = "free" /\ g # 0 /\ g \in 0..MaxGens
    <3>1. g \in GenIds /\ gens[g].status = "free"
      BY DEF Slot
    <3> QED BY <3>1, GenAssumption DEF GenIds
  <2>3. c \in Content /\ Semantics(c) \in Content
    BY <2>0, GnSemantics DEF GenInv, GenTypeOK, Discovered, Content
  <2>4. acts = << >>
    <3>1. acts # << >> => Len(acts) \in 1..Len(acts) /\ acts[Len(acts)] \in GenIds
      BY DEF GenInv, GenTypeOK
    <3> QED BY <1>4, <3>1 DEF GenInv, HeadsFormChain, GenIds
  <2>5. acts' = << g >>
    BY <2>1, <2>4
  <2>6. /\ \A h \in GenIds : h # g => gens'[h] = gens[h]
        /\ gens'[g] = [FreeGen EXCEPT !.sem = Semantics(c), !.json = c, !.dir = c, !.status = "active"]
    BY <1>2, <2>1, <2>2
  <2>7. /\ gens'[g] \in GenRecord /\ gens'[g].parent = 0 /\ gens'[g].sem = Semantics(c)
        /\ gens'[g].json = c /\ gens'[g].dir = c /\ gens'[g].status = "active" /\ gens'[g].fenced = FALSE
    BY <2>3, <2>6, GnNoJobs DEF FreeGen, GenRecord
  <2>8. gens' \in [ GenIds -> GenRecord ]
    BY <1>2, <2>1, <2>6, <2>7
  <2>9. \A h \in GenIds : ~ Live(h)
    BY <2>4 DEF GenInv, GnHistory
  <2>10. \A h \in GenIds : ~ Referenced(h)
    BY <2>9 DEF GenInv, GnHeld
  <2>11. GenTypeOK'
    BY <1>1, <2>1, <2>2, <2>5, <2>8 DEF GenInv, GenTypeOK
  <2>12. HeadsFormChain'
    BY <2>1, <2>5, <2>7 DEF HeadsFormChain
  <2>13. ExecutableApproved'
    BY <2>5 DEF ExecutableApproved
  <2>14. GnHistory'
    <3>1. \A h \in GenIds : Live(h)' => h = g
      BY <2>6, <2>9 DEF Live
    <3>2. Live(g)'
      BY <2>2, <2>7 DEF Live
    <3>3. DOMAIN acts' = {1} /\ acts'[1] = g
      BY <2>5
    <3> QED BY <3>1, <3>2, <3>3 DEF GnHistory, Live
  <2>15. GnRows'
    <3>1. \A h \in GenIds : gens'[h].status # "free" => gens'[h].parent = 0
      BY ZenonT(60), <2>6, <2>7, <2>9 DEF GenInv, GnRows, Live
    <3>2. \A h \in GenIds : Written(h)' => Semantics(gens'[h].json) = gens'[h].sem
      BY <2>6, <2>7 DEF GenInv, GnRows, Written
    <3>3. \A h \in GenIds : gens'[h].fenced => Live(h)'
      BY <2>6, <2>7, <2>9 DEF GenInv, GnRows
    <3> QED BY <3>1, <3>2, <3>3 DEF GnRows, Semantics
  <2>16. GnJobs'
    BY <1>1 DEF GenInv, GnJobs, JobFits, NoJob
  <2>17. GnHeld'
    <3>1. \A h \in GenIds : ~ Referenced(h)'
      BY <1>1, <2>10 DEF Referenced
    <3>2. HeldIsWhole'
      BY <2>1, <2>7, <3>1 DEF HeldIsWhole, SnapshotWhole
    <3> QED BY <1>1, <3>1, <3>2 DEF GenInv, GnHeld
  <2> QED BY <2>11, <2>12, <2>13, <2>14, <2>15, <2>16, <2>17 DEF GenInv
<1> QED BY <1>3, <1>4

-----------------------------------------------------------------------------
LEMMA GnInitial == GenInit => GenInv
<1> SUFFICES ASSUME GenInit PROVE GenInv
  OBVIOUS
<1>1. FreeGen \in GenRecord
  BY GnNoJobs DEF FreeGen, GenRecord
<1>2. GenTypeOK
  <2>1. 0 \in 0..Threshold
    BY GenAssumption
  <2> QED BY <1>1, <2>1, GnNoJobs, GenAssumption DEF GenInit, GenTypeOK, Content, Stages
<1>3. HeadsFormChain /\ ExecutableApproved
  BY DEF GenInit, HeadsFormChain, ExecutableApproved
<1>4. GnHistory /\ GnRows
  BY DEF GenInit, GnHistory, GnRows, Live, Written, FreeGen
<1>5. GnJobs
  BY DEF GenInit, GnJobs, JobFits, NoJob
<1>6. GnHeld
  BY DEF GenInit, GnHeld, HeldIsWhole, Referenced, GenIds
<1> QED BY <1>2, <1>3, <1>4, <1>5, <1>6 DEF GenInv

LEMMA GnStutterKeeps == GenInv /\ UNCHANGED genVars => GenInv'
<1> SUFFICES ASSUME GenInv, UNCHANGED genVars PROVE GenInv'
  OBVIOUS
<1>1. GenTypeOK'
  BY DEF genVars, GenInv, GenTypeOK
<1> QED BY <1>1, GnOwnersKeep DEF genVars, Referenced, GenInv, GnHeld

LEMMA GnNextKeeps == GenInv /\ [GenNext]_genVars => GenInv'
BY GnEditKeeps, GnSetEnabledKeeps, GnPlanReloadKeeps, GnDecideReloadKeeps, GnMaterializeKeeps,
   GnActivateKeeps, GnOperatorRollbackKeeps, GnReportFailureKeeps, GnReportSuccessKeeps,
   GnChooseFallbackKeeps, GnMarkQuarantinedKeeps, GnCreateRunKeeps, GnBindDispatchKeeps,
   GnCreateCronRunKeeps, GnStartRuntimeKeeps, GnStartedKeeps, GnEndRunKeeps, GnReleaseRunKeeps,
   GnReapKeeps, GnGenCrashKeeps, GnEnsureInitialKeeps, GnGcFenceKeeps, GnGcRemoveKeeps,
   GnReconcileReferencesKeeps, GnStutterKeeps DEF GenNext

(* For any threads that load, reload and fall back, any Runs and any crash: *)
(* the conjuncts of GenInv hold of the rows, heads and approvals that       *)
(* activation, reload and collection write (Agent/resources.py).            *)
THEOREM GenerationsInvariant == GenSpec => []GenInv
<1> HIDE DEF GenInv
<1> QED BY GnInitial, GnNextKeeps, PTL DEF GenSpec

(* Heads form one chain of approved generations, and what a Run, a dispatch,*)
(* a Runtime or the profile relies on is whole on disk and not fenced: the  *)
(* collector of old generations never takes what something still refers to. *)
THEOREM HeldGenerationsWhole == GenSpec => []GenerationsSound
<1>1. GenInv => GenerationsSound
  BY DEF GenInv, GnHeld, GenerationsSound
<1> QED BY <1>1, GenerationsInvariant, PTL

(* A Run keeps the generation it was bound to until it is over, whatever is *)
(* activated meanwhile, and a Cron Run takes the one its dispatch recorded. *)
THEOREM RunsKeepGeneration == GenSpec => BindingKept
<1> DEFINE Kept == \A r \in Runs :
          /\ (runRef[r] # 0 /\ run'[r] \notin {"ended", "done"}) => runRef'[r] = runRef[r]
          /\ (r \in CronRuns /\ runRef'[r] # 0 /\ runRef[r] = 0) => runRef'[r] = cronRef[r]
<1>1. GenInv /\ [GenNext]_genVars => [Kept]_genVars
  <2> SUFFICES ASSUME GenInv, GenNext PROVE Kept
    OBVIOUS
  <2>1. /\ run \in [ Runs -> Stages ] /\ runRef \in [ Runs -> 0..MaxGens ]
        /\ cronRef \in [ Runs -> 0..MaxGens ]
        /\ \A r \in Runs : run[r] = "new" => runRef[r] = 0
    BY DEF GenInv, GenTypeOK, GnHeld
  <2>2. CASE UNCHANGED runRef
    BY <2>2
  <2>3. CASE \E r \in Runs : CreateRun(r)
    BY <2>1, <2>3 DEF CreateRun
  <2>4. CASE \E r \in Runs : CreateCronRun(r)
    BY <2>1, <2>4 DEF CreateCronRun
  <2>5. CASE \E r \in Runs : ReleaseRun(r)
    BY <2>1, <2>5 DEF ReleaseRun
  <2>6. CASE ReconcileReferences
    BY <2>1, <2>6 DEF ReconcileReferences
  <2> QED
    BY <2>2, <2>3, <2>4, <2>5, <2>6 DEF GenNext, Edit, SetEnabled, PlanReload, DecideReload,
       Materialize,
       Activate, OperatorRollback, ReportFailure, ReportSuccess, ChooseFallback, MarkQuarantined,
       BindDispatch, StartRuntime, Started, EndRun, Reap, GenCrash, EnsureInitial, GcFence, GcRemove
<1> HIDE DEF Kept, GenInv
<1>2. GenSpec => [][Kept]_genVars
  BY <1>1, GenerationsInvariant, PTL DEF GenSpec
<1> QED BY <1>2 DEF BindingKept, Kept

-----------------------------------------------------------------------------
(* Extension hooks.                                                        *)
Marks == { "success", "exception", "reenable" }

\* Failures of log up to n that no success and no re-enabling has ended: the open row.
Ended(log, i, n) == \E m \in i..n : log[m] \in { "success", "reenable" }
OpenRow(log, n) == { i \in 1..n : log[i] = "exception" /\ ~ Ended(log, i, n) }

\* Three failures with no success between them and no re-enabling since.
ThreeInARow(log, n) ==
  \E i, j, k \in 1..n :
    /\ i < j /\ j < k
    /\ log[i] = "exception" /\ log[j] = "exception" /\ log[k] = "exception"
    /\ \A m \in i..k : log[m] # "success"
    /\ \A m \in i..n : log[m] # "reenable"

\* An active source has fewer than three failures in its open row, and its streak counts them.
XhStreaks ==
  \A s \in XhLawful : xhHealth[s].status = "active" =>
    LET n == Len(xhAudit[s]) entry == OpenRow(xhAudit[s], Len(xhAudit[s])) IN
    /\ xhHealth[s].streak \in 0..2
    /\ xhHealth[s].streak = 0 => entry = {}
    /\ xhHealth[s].streak = 1 => \A i, j \in entry : i = j
    /\ ~ ThreeInARow(xhAudit[s], n)

\* What a running handler was started on.
XhCalls ==
  \A r \in XhRuns :
    /\ xhCall[r] # NoCall => xhTrace[r].source \in XhLawful
    /\ xhCall[r].st = "idle" => xhCall[r] = NoCall
    /\ xhCall[r].st = "running" =>
         /\ xhCall[r].since <= Len(xhAudit[xhTrace[r].source])
         /\ ~ ThreeInARow(xhAudit[xhTrace[r].source], xhCall[r].since)

\* What a trace allows is in the row of the grant it was opened with.
XhTraces ==
  \A r \in XhRuns : xhTrace[r].modify \/ xhTrace[r].invoke =>
    /\ xhTrace[r].source \in XhLawful
    /\ xhTrace[r].version \in 1..Len(xhGrants[xhTrace[r].source])
    /\ LET entry == xhGrants[xhTrace[r].source][xhTrace[r].version] IN
       /\ entry.decision = "grant"
       /\ xhTrace[r].modify => entry.modify
       /\ xhTrace[r].invoke => entry.invoke /\ entry.contract = xhTrace[r].contract

XhPowers ==
  \A r \in XhRuns :
    /\ xhCall[r].patch \/ "patch" \in xhCall[r].did => xhTrace[r].modify
    /\ "tool" \in xhCall[r].did => xhTrace[r].invoke

XhInv == XhTypeOK /\ XhStreaks /\ XhCalls /\ XhTraces /\ XhPowers

-----------------------------------------------------------------------------
LEMMA XhLogGrows ==
  ASSUME NEW S, NEW log \in Seq(S), NEW x \in S
  PROVE  /\ Append(log, x) \in Seq(S) /\ Len(Append(log, x)) = Len(log) + 1
         /\ Append(log, x)[Len(log) + 1] = x /\ Len(log) \in Nat
         /\ \A i \in 1..Len(log) : Append(log, x)[i] = log[i]
OBVIOUS

\* What was written stays as it was.
LEMMA XhPastStays ==
  ASSUME NEW log \in Seq(Marks), NEW x \in Marks, NEW n \in 0..Len(log)
  PROVE  ThreeInARow(Append(log, x), n) <=> ThreeInARow(log, n)
<1> DEFINE new == Append(log, x)
<1>1. \A i \in 1..n : new[i] = log[i]
  <2>1. \A i \in 1..n : i \in 1..Len(log)
    OBVIOUS
  <2>2. \A i \in 1..Len(log) : new[i] = log[i]
    BY XhLogGrows
  <2> HIDE DEF new
  <2> QED BY <2>1, <2>2
<1>2. \A i, k \in 1..n : \A m \in i..k : m \in 1..n
  OBVIOUS
<1>3. \A i \in 1..n : \A m \in i..n : m \in 1..n
  OBVIOUS
<1>4. PICK now : now = new
  OBVIOUS
<1> HIDE DEF new
<1>5. ThreeInARow(now, n) => ThreeInARow(log, n)
  BY <1>1, <1>2, <1>3, <1>4 DEF ThreeInARow
<1>6. ThreeInARow(log, n) => ThreeInARow(now, n)
  BY SMTT(40), <1>1, <1>2, <1>3, <1>4 DEF ThreeInARow
<1> QED BY <1>4, <1>5, <1>6 DEF new

\* An ended row: a success or a re-enabling was written last.
LEMMA XhRowEnds ==
  ASSUME NEW log \in Seq(Marks), NEW x \in { "success", "reenable" }
  PROVE  /\ OpenRow(Append(log, x), Len(log) + 1) = {}
         /\ ThreeInARow(Append(log, x), Len(log) + 1) => x = "success" /\ ThreeInARow(log, Len(log))
<1> DEFINE new == Append(log, x)
           n == Len(log)
<1>1. n \in Nat /\ new[n + 1] = x /\ \A i \in 1..n : new[i] = log[i]
  BY XhLogGrows
<1> HIDE DEF new, n
<1>2. \A i \in 1..(n + 1) : n + 1 \in i..(n + 1)
  BY <1>1
<1>3. OpenRow(new, n + 1) = {}
  BY <1>1, <1>2 DEF OpenRow, Ended
<1>4. ThreeInARow(new, n + 1) => x = "success" /\ ThreeInARow(log, n)
  <2> SUFFICES ASSUME ThreeInARow(new, n + 1) PROVE x = "success" /\ ThreeInARow(log, n)
    OBVIOUS
  <2>1. PICK i, j, k \in 1..(n + 1) :
          /\ i < j /\ j < k
          /\ new[i] = "exception" /\ new[j] = "exception" /\ new[k] = "exception"
          /\ \A m \in i..k : new[m] # "success"
          /\ \A m \in i..(n + 1) : new[m] # "reenable"
    BY DEF ThreeInARow
  <2>2. x # "reenable"
    BY <1>1, <1>2, <2>1
  <2>3. k # n + 1
    BY <1>1, <2>1
  <2>4. i \in 1..n /\ j \in 1..n /\ k \in 1..n
    BY <1>1, <2>1, <2>3
  <2>5. /\ \A m \in i..k : m \in 1..n
        /\ \A m \in i..n : m \in 1..n /\ m \in i..(n + 1)
    BY <1>1, <2>4
  <2>6. log[i] = "exception" /\ log[j] = "exception" /\ log[k] = "exception"
    BY <1>1, <2>1, <2>4
  <2>7. (\A m \in i..k : log[m] # "success") /\ (\A m \in i..n : log[m] # "reenable")
    BY <1>1, <2>1, <2>5
  <2> QED BY <2>1, <2>2, <2>4, <2>6, <2>7 DEF ThreeInARow
<1> QED BY <1>3, <1>4 DEF new, n

\* One failure more: the row grows by it, and three in a row were two before.
LEMMA XhRowGrows ==
  ASSUME NEW log \in Seq(Marks)
  PROVE  /\ \A i \in OpenRow(Append(log, "exception"), Len(log) + 1) :
              i \in OpenRow(log, Len(log)) \/ i = Len(log) + 1
         /\ ThreeInARow(Append(log, "exception"), Len(log) + 1) =>
              \/ ThreeInARow(log, Len(log))
              \/ \E i, j \in OpenRow(log, Len(log)) : i # j
<1> DEFINE new == Append(log, "exception")
           n == Len(log)
<1>1. n \in Nat /\ new[n + 1] = "exception" /\ \A i \in 1..n : new[i] = log[i]
  BY XhLogGrows
<1> HIDE DEF new, n
<1>2. \A i \in 1..(n + 1) : i \in 1..n \/ i = n + 1
  BY <1>1
<1>3. \A i \in 1..n : \A m \in i..n : m \in 1..n /\ m \in i..(n + 1)
  BY <1>1
<1>4. \A i \in OpenRow(new, n + 1) : i \in OpenRow(log, n) \/ i = n + 1
  BY <1>1, <1>2, <1>3 DEF OpenRow, Ended
<1>5. ASSUME ThreeInARow(new, n + 1)
      PROVE  ThreeInARow(log, n) \/ \E i, j \in OpenRow(log, n) : i # j
  <2>1. PICK i, j, k \in 1..(n + 1) :
          /\ i < j /\ j < k
          /\ new[i] = "exception" /\ new[j] = "exception" /\ new[k] = "exception"
          /\ \A m \in i..k : new[m] # "success"
          /\ \A m \in i..(n + 1) : new[m] # "reenable"
    BY <1>5 DEF ThreeInARow
  <2>2. i \in 1..n /\ j \in 1..n /\ i # j
    BY <1>1, <2>1
  <2>3. CASE k = n + 1
    <3>1. \A m \in i..n : m \in i..k /\ m \in i..(n + 1) /\ m \in 1..n
      BY <1>1, <2>2, <2>3
    <3>2. \A m \in j..n : m \in i..n
      BY <1>1, <2>1, <2>2
    <3>3. \A m \in i..n : log[m] \notin { "success", "reenable" }
      BY <1>1, <2>1, <3>1
    <3>4. i \in OpenRow(log, n) /\ j \in OpenRow(log, n)
      BY <1>1, <2>1, <2>2, <3>2, <3>3 DEF OpenRow, Ended
    <3> QED BY <2>2, <3>4
  <2>4. CASE k # n + 1
    <3>1. k \in 1..n
      BY <1>1, <2>4
    <3>2. /\ \A m \in i..k : m \in 1..n
          /\ \A m \in i..n : m \in 1..n /\ m \in i..(n + 1)
      BY <1>1, <2>2, <3>1
    <3>3. log[i] = "exception" /\ log[j] = "exception" /\ log[k] = "exception"
      BY <1>1, <2>1, <2>2, <3>1
    <3>4. (\A m \in i..k : log[m] # "success") /\ (\A m \in i..n : log[m] # "reenable")
      BY <1>1, <2>1, <3>2
    <3>5. ThreeInARow(log, n)
      BY <2>1, <2>2, <3>1, <3>3, <3>4 DEF ThreeInARow
    <3> QED BY <3>5
  <2> QED BY <2>3, <2>4
<1> QED BY <1>4, <1>5 DEF new, n

\* The property reads the audit after the last re-enabling.
LEMMA XhFailedInARow ==
  ASSUME NEW log \in Seq(Marks), NEW n \in 0..Len(log), ~ ThreeInARow(log, n)
  PROVE  ~ FailedInARow(SinceReenabled(SubSeq(log, 1, n)))
<1>1. PICK old : old = SubSeq(log, 1, n)
  OBVIOUS
<1>2. old \in Seq(Marks) /\ Len(old) = n /\ n \in Nat /\ \A i \in 1..n : old[i] = log[i]
  BY <1>1
<1>3. DOMAIN old = 1..n
  BY <1>2
<1> DEFINE lifts == { m \in DOMAIN old : old[m] = "reenable" } \union {0}
<1>4. \E m \in lifts : \A k \in lifts : k <= m
  <2> DEFINE F == { m \in 1..n : old[m] = "reenable" }
  <2>1. lifts = F \union {0} /\ F \in SUBSET (1..n)
    BY <1>3
  <2>2. CASE F = {}
    <3>1. lifts = {0}
      BY <2>1, <2>2
    <3> HIDE DEF lifts
    <3> QED BY <3>1
  <2>3. CASE F # {}
    <3>1. PICK m \in F : \A k \in F : k <= m
      BY <1>2, <2>1, <2>3, GnHighest
    <3>2. 0 <= m /\ m \in lifts
      BY <2>1, <3>1
    <3> QED BY <2>1, <3>1, <3>2
  <2> QED BY <2>2, <2>3
<1>5. PICK p : p = CHOOSE m \in lifts : \A k \in lifts : k <= m
  OBVIOUS
<1>6. p \in lifts /\ \A k \in lifts : k <= p
  BY <1>4, <1>5
<1>7. p \in 0..n
  BY <1>2, <1>3, <1>6
<1>8. SinceReenabled(old) = SubSeq(old, p + 1, n)
  BY <1>2, <1>5 DEF SinceReenabled
<1>9. PICK tail : tail = SubSeq(old, p + 1, n)
  OBVIOUS
<1>10. Len(tail) = n - p /\ (\A i \in 1..(n - p) : tail[i] = old[p + i]) /\ DOMAIN tail = 1..(n - p)
  BY <1>2, <1>7, <1>9
<1>11. \A m \in (p + 1)..n : log[m] # "reenable"
  <2> SUFFICES ASSUME NEW m \in (p + 1)..n, log[m] = "reenable" PROVE FALSE
    OBVIOUS
  <2>1. m \in 1..n /\ ~ (m <= p)
    BY <1>2, <1>7
  <2> QED BY <1>2, <1>3, <1>6, <2>1
<1>12. ASSUME FailedInARow(tail) PROVE FALSE
  <2>1. PICK i, j, k \in 1..(n - p) :
          /\ i < j /\ j < k
          /\ tail[i] = "exception" /\ tail[j] = "exception" /\ tail[k] = "exception"
          /\ \A m \in i..k : tail[m] # "success"
    BY <1>10, <1>12 DEF FailedInARow
  <2>2. /\ p + i \in 1..n /\ p + j \in 1..n /\ p + k \in 1..n
        /\ p + i < p + j /\ p + j < p + k
    BY <1>2, <1>7, <2>1
  <2>3. log[p + i] = "exception" /\ log[p + j] = "exception" /\ log[p + k] = "exception"
    BY <1>2, <1>10, <2>1, <2>2
  <2>4. \A m \in (p + i)..(p + k) : log[m] # "success"
    <3> SUFFICES ASSUME NEW m \in (p + i)..(p + k) PROVE log[m] # "success"
      OBVIOUS
    <3>1. m - p \in i..k /\ m - p \in 1..(n - p) /\ p + (m - p) = m /\ m \in 1..n
      BY <1>2, <1>7, <2>1, <2>2
    <3> QED BY <1>2, <1>10, <2>1, <3>1
  <2>5. \A m \in (p + i)..n : log[m] # "reenable"
    <3>1. \A m \in (p + i)..n : m \in (p + 1)..n
      BY <1>2, <1>7, <2>1
    <3> QED BY <1>11, <3>1
  <2>6. ThreeInARow(log, n)
    BY <2>2, <2>3, <2>4, <2>5 DEF ThreeInARow
  <2> QED BY <2>6
<1> QED BY <1>1, <1>8, <1>9, <1>12

-----------------------------------------------------------------------------
(* The audit of one source grows by x, and its health follows.             *)
LEMMA XhAuditKeeps ==
  ASSUME XhInv, NEW s \in XhLawful, NEW x \in { "success", "exception", "reenable" },
         NEW h \in [streak : Nat, status : {"active", "quarantined"}, revision : Nat],
         xhAudit' = [xhAudit EXCEPT ![s] = Append(@, x)],
         xhHealth' = [xhHealth EXCEPT ![s] = h],
         x \in { "success", "reenable" } => h.streak = 0,
         x = "success" => h.status = xhHealth[s].status,
         x = "exception" => h.streak = xhHealth[s].streak + 1
            /\ (h.status = "active" => xhHealth[s].status = "active" /\ h.streak < 3)
  PROVE  XhStreaks'
<1>1. xhAudit \in [XhLawful -> Seq(Marks)] /\ xhAudit[s] \in Seq(Marks) /\ x \in Marks
  BY DEF XhInv, XhTypeOK, Marks
<1>2. xhHealth \in [XhLawful -> [streak : Nat, status : {"active", "quarantined"}, revision : Nat]]
  BY DEF XhInv, XhTypeOK, Marks
<1>3. SUFFICES ASSUME NEW q \in XhLawful, xhHealth'[q].status = "active"
      PROVE  /\ xhHealth'[q].streak \in 0..2
             /\ xhHealth'[q].streak = 0 => OpenRow(xhAudit'[q], Len(xhAudit'[q])) = {}
             /\ xhHealth'[q].streak = 1 => \A i, j \in OpenRow(xhAudit'[q], Len(xhAudit'[q])) : i = j
             /\ ~ ThreeInARow(xhAudit'[q], Len(xhAudit'[q]))
  BY DEF XhStreaks
<1>4. CASE q # s
  <2>1. xhAudit'[q] = xhAudit[q] /\ xhHealth'[q] = xhHealth[q]
    BY <1>1, <1>2, <1>4
  <2>2. xhHealth[q].status = "active"
    BY <1>3, <2>1
  <2>3. /\ xhHealth[q].streak \in 0..2
        /\ xhHealth[q].streak = 0 => OpenRow(xhAudit[q], Len(xhAudit[q])) = {}
        /\ xhHealth[q].streak = 1 => \A i, j \in OpenRow(xhAudit[q], Len(xhAudit[q])) : i = j
        /\ ~ ThreeInARow(xhAudit[q], Len(xhAudit[q]))
    BY <2>2 DEF XhInv, XhStreaks
  <2> QED BY <2>1, <2>3
<1>5. CASE q = s
  <2>1. PICK log : log = xhAudit[s]
    OBVIOUS
  <2>2. log \in Seq(Marks) /\ Len(log) \in Nat
    BY <1>1, <2>1
  <2>3. xhAudit'[s] = Append(log, x) /\ xhHealth'[s] = h /\ h.status = "active" /\ h.streak \in Nat
    BY <1>1, <1>2, <1>3, <1>5, <2>1
  <2>4. Len(Append(log, x)) = Len(log) + 1
    BY <1>1, <2>2, XhLogGrows
  <2>5. xhHealth[s].status = "active" =>
          /\ xhHealth[s].streak \in 0..2
          /\ xhHealth[s].streak = 0 => OpenRow(log, Len(log)) = {}
          /\ xhHealth[s].streak = 1 => \A i, j \in OpenRow(log, Len(log)) : i = j
          /\ ~ ThreeInARow(log, Len(log))
    BY <2>1 DEF XhInv, XhStreaks
  <2>6. CASE x \in { "success", "reenable" }
    <3>1. /\ OpenRow(Append(log, x), Len(log) + 1) = {}
          /\ ThreeInARow(Append(log, x), Len(log) + 1) => x = "success" /\ ThreeInARow(log, Len(log))
      BY <2>2, <2>6, XhRowEnds
    <3>0. h.streak = 0 /\ (x = "success" => xhHealth[s].status = "active")
      BY <2>3, <2>6
    <3>2. ~ ThreeInARow(Append(log, x), Len(log) + 1)
      BY <2>5, <3>0, <3>1
    <3>3. xhHealth'[q].streak = 0 /\ OpenRow(xhAudit'[q], Len(xhAudit'[q])) = {}
          /\ ~ ThreeInARow(xhAudit'[q], Len(xhAudit'[q]))
      BY <1>5, <2>3, <2>4, <3>0, <3>1, <3>2
    <3> QED BY <3>3
  <2>7. CASE x = "exception"
    <3>1. /\ \A i \in OpenRow(Append(log, x), Len(log) + 1) :
               i \in OpenRow(log, Len(log)) \/ i = Len(log) + 1
          /\ ThreeInARow(Append(log, x), Len(log) + 1) =>
               \/ ThreeInARow(log, Len(log))
               \/ \E i, j \in OpenRow(log, Len(log)) : i # j
      BY <2>2, <2>7, XhRowGrows
    <3>2. /\ xhHealth[s].status = "active" /\ h.streak = xhHealth[s].streak + 1 /\ h.streak < 3
          /\ xhHealth[s].streak \in 0..2
      BY <2>3, <2>5, <2>7
    <3>3. xhHealth[s].streak \in {0, 1} /\ h.streak \in 0..2 /\ h.streak # 0
          /\ (h.streak = 1 => xhHealth[s].streak = 0)
      BY <3>2
    <3>4. h.streak = 1 => \A i, j \in OpenRow(Append(log, x), Len(log) + 1) : i = j
      BY <2>5, <3>1, <3>2, <3>3
    <3>5. ~ ThreeInARow(Append(log, x), Len(log) + 1)
      BY <2>5, <3>1, <3>2, <3>3
    <3> QED BY <1>5, <2>3, <2>4, <3>3, <3>4, <3>5
  <2> QED BY <2>6, <2>7
<1> QED BY <1>4, <1>5

\* What was running was started on a part of the audit that stays.
LEMMA XhCallsPast ==
  ASSUME XhInv, NEW s \in XhLawful, NEW x \in { "success", "exception", "reenable" },
         xhAudit' = [xhAudit EXCEPT ![s] = Append(@, x)],
         NEW r \in XhRuns, xhCall[r].st = "running"
  PROVE  /\ xhCall[r].since <= Len(xhAudit'[xhTrace[r].source])
         /\ ~ ThreeInARow(xhAudit'[xhTrace[r].source], xhCall[r].since)
<1>1. xhAudit \in [XhLawful -> Seq(Marks)] /\ xhAudit[s] \in Seq(Marks) /\ x \in Marks
  BY DEF XhInv, XhTypeOK, Marks
<1>2. /\ xhTrace[r].source \in XhLawful /\ xhCall[r].since \in Nat
      /\ xhCall[r].since <= Len(xhAudit[xhTrace[r].source])
      /\ ~ ThreeInARow(xhAudit[xhTrace[r].source], xhCall[r].since)
  BY DEF XhInv, XhCalls, XhTypeOK, NoCall
<1>3. CASE xhTrace[r].source # s
  BY <1>1, <1>2, <1>3
<1>4. CASE xhTrace[r].source = s
  <2>1. PICK log, n : log = xhAudit[s] /\ n = xhCall[r].since
    OBVIOUS
  <2>2. xhAudit'[s] = Append(log, x) /\ log \in Seq(Marks) /\ Len(log) \in Nat
    BY <1>1, <2>1
  <2>3. Len(Append(log, x)) = Len(log) + 1
    BY <1>1, <2>2, XhLogGrows
  <2>4. n \in 0..Len(log)
    BY <1>2, <1>4, <2>1, <2>2
  <2>5. ~ ThreeInARow(Append(log, x), n)
    BY <1>1, <1>2, <1>4, <2>1, <2>2, <2>4, XhPastStays
  <2>6. n <= Len(log) + 1
    BY <2>2, <2>4
  <2> QED BY <1>4, <2>1, <2>2, <2>3, <2>5, <2>6
<1> QED BY <1>3, <1>4

-----------------------------------------------------------------------------
LEMMA XhScan == ScanStage \in XhLawful \union {NoSource}
BY DEF ScanStage, Loadable

LEMMA XhCatalogKeeps == XhInv /\ (\E d \in XhDirs, c \in 1..2 : ActivateCatalog(d, c)) => XhInv'
BY XhAssumption DEF XhInv, ActivateCatalog, XhTypeOK, XhStreaks, XhCalls, XhTraces, XhPowers

LEMMA XhGrantKeeps ==
  ASSUME XhInv, NEW s \in XhLawful, NEW entry \in XhRows, CreateGrant(s, entry)
  PROVE  XhInv'
<1>1. /\ xhGrants' = [xhGrants EXCEPT ![s] = Append(xhGrants[s], entry)]
      /\ UNCHANGED << xhDir, xhContract, xhHealth, xhAudit, xhTrace, xhCall, xhSeen >>
  BY DEF CreateGrant
<1>2. xhGrants \in [XhLawful -> Seq(XhRows)] /\ xhGrants[s] \in Seq(XhRows)
  BY DEF XhInv, XhTypeOK, Marks
<1>3. /\ Append(xhGrants[s], entry) \in Seq(XhRows)
      /\ Len(Append(xhGrants[s], entry)) = Len(xhGrants[s]) + 1 /\ Len(xhGrants[s]) \in Nat
      /\ \A i \in 1..Len(xhGrants[s]) : Append(xhGrants[s], entry)[i] = xhGrants[s][i]
  BY <1>2, XhLogGrows
<1>4. XhTypeOK'
  BY <1>1, <1>2, <1>3 DEF XhInv, XhTypeOK
<1>5. \A q \in XhLawful : \A v \in 1..Len(xhGrants[q]) :
        v \in 1..Len(xhGrants'[q]) /\ xhGrants'[q][v] = xhGrants[q][v]
  BY <1>1, <1>2, <1>3
<1>6. XhTraces'
  BY <1>1, <1>5 DEF XhInv, XhTraces
<1> QED BY <1>1, <1>4, <1>6 DEF XhInv, XhStreaks, XhCalls, XhPowers

LEMMA XhGrantingKeeps == XhInv /\ ((\E m, t \in BOOLEAN : GrantExtension(m, t)) \/ RevokeExtension) => XhInv'
<1>1. ASSUME XhInv, NEW m \in BOOLEAN, NEW t \in BOOLEAN, GrantExtension(m, t) PROVE XhInv'
  <2>1. [decision |-> "grant", modify |-> m, invoke |-> t, contract |-> IF t THEN xhContract ELSE 0] \in XhRows
    BY <1>1 DEF XhRows, XhInv, XhTypeOK
  <2> QED BY <1>1, <2>1, XhScan, XhGrantKeeps DEF GrantExtension
<1>2. ASSUME XhInv, RevokeExtension PROVE XhInv'
  <2>1. [decision |-> "revoke", modify |-> FALSE, invoke |-> FALSE, contract |-> 0] \in XhRows
    BY DEF XhRows
  <2> QED BY <1>2, <2>1, XhScan, XhGrantKeeps DEF RevokeExtension
<1> QED BY <1>1, <1>2

LEMMA XhReadKeeps == XhInv /\ ReadStatus => XhInv'
BY XhScan DEF XhInv, ReadStatus, XhTypeOK, XhStreaks, XhCalls, XhTraces, XhPowers

LEMMA XhReenableKeeps == XhInv /\ ReenableExtension => XhInv'
<1> SUFFICES ASSUME XhInv, ReenableExtension PROVE XhInv'
  OBVIOUS
<1>1. PICK s \in XhLawful : s = ScanStage
  BY XhScan DEF ReenableExtension
<1>2. PICK h : h = [streak |-> 0, status |-> "active", revision |-> xhHealth[s].revision + 1]
  OBVIOUS
<1>3. /\ xhHealth' = [xhHealth EXCEPT ![s] = h]
      /\ xhAudit' = [xhAudit EXCEPT ![s] = Append(@, "reenable")]
      /\ UNCHANGED << xhDir, xhContract, xhGrants, xhTrace, xhCall, xhSeen >>
  BY <1>1, <1>2 DEF ReenableExtension
<1>4. h \in [streak : Nat, status : {"active", "quarantined"}, revision : Nat] /\ h.streak = 0
  BY <1>2 DEF XhInv, XhTypeOK
<1>5. XhTypeOK'
  <2>1. xhAudit \in [XhLawful -> Seq(Marks)] /\ xhAudit[s] \in Seq(Marks) /\ "reenable" \in Marks
    BY DEF XhInv, XhTypeOK, Marks
  <2>2. Append(xhAudit[s], "reenable") \in Seq(Marks)
    BY <2>1, XhLogGrows
  <2> QED BY <1>3, <1>4, <2>1, <2>2 DEF XhInv, XhTypeOK, Marks
<1>6. XhStreaks'
  BY <1>3, <1>4, XhAuditKeeps
<1>7. XhCalls'
  <2>1. \A r \in XhRuns : xhCall[r].st = "running" =>
         /\ xhCall[r].since <= Len(xhAudit'[xhTrace[r].source])
         /\ ~ ThreeInARow(xhAudit'[xhTrace[r].source], xhCall[r].since)
    BY <1>3, XhCallsPast
  <2> QED BY <1>3, <2>1 DEF XhInv, XhCalls
<1>8. XhTraces' /\ XhPowers'
  BY <1>3 DEF XhInv, XhTraces, XhPowers
<1> QED BY <1>5, <1>6, <1>7, <1>8 DEF XhInv

-----------------------------------------------------------------------------
(* A Runtime.                                                              *)
LEMMA XhOpenKeeps == XhInv /\ (\E r \in XhRuns : OpenTrace(r)) => XhInv'
<1> SUFFICES ASSUME XhInv, NEW r \in XhRuns, OpenTrace(r) PROVE XhInv'
  OBVIOUS
<1>1. PICK s \in XhLawful : s = ScanStage
  BY XhScan DEF OpenTrace
<1>2. PICK g : g = ResolveGrant(s)
  OBVIOUS
<1>3. PICK t : t = TraceSnapshot(s)
  OBVIOUS
<1>4. /\ xhTrace[r] = NoTrace /\ xhTrace' = [xhTrace EXCEPT ![r] = t]
      /\ UNCHANGED << xhDir, xhContract, xhGrants, xhHealth, xhAudit, xhCall, xhSeen >>
  BY <1>1, <1>3 DEF OpenTrace
<1>5. xhGrants \in [XhLawful -> Seq(XhRows)] /\ xhGrants[s] \in Seq(XhRows) /\ xhContract \in Nat
  BY DEF XhInv, XhTypeOK
<1>6. g.decision = "grant" => /\ Len(xhGrants[s]) \in 1..Len(xhGrants[s])
                             /\ g = xhGrants[s][Len(xhGrants[s])]
  BY <1>2, <1>5 DEF ResolveGrant, NoGrant
<1>7. g \in XhRows
  <2>1. NoGrant \in XhRows
    BY DEF NoGrant, XhRows
  <2>2. xhGrants[s] # << >> => xhGrants[s][Len(xhGrants[s])] \in XhRows
    BY <1>5
  <2> QED BY <1>2, <2>1, <2>2 DEF ResolveGrant
<1>8. /\ t \in [source : XhLawful \union {NoSource}, version : Nat,
                 modify : BOOLEAN, invoke : BOOLEAN, contract : Nat]
      /\ t.source = s
      /\ t.modify \/ t.invoke => g.decision = "grant" /\ t.version = Len(xhGrants[s])
      /\ t.modify => g.modify
      /\ t.invoke => g.invoke /\ g.contract = t.contract
  <2>1. t = [source |-> s, version |-> IF g.decision = "grant" THEN Len(xhGrants[s]) ELSE 0,
             modify |-> g.decision = "grant" /\ g.modify,
             invoke |-> g.decision = "grant" /\ g.invoke /\ g.contract = xhContract,
             contract |-> xhContract]
    BY <1>2, <1>3 DEF TraceSnapshot
  <2>2. Len(xhGrants[s]) \in Nat /\ g.modify \in BOOLEAN /\ g.invoke \in BOOLEAN
    BY <1>5, <1>7 DEF XhRows
  <2>3. (g.decision = "grant" /\ g.modify) \in BOOLEAN
        /\ (g.decision = "grant" /\ g.invoke /\ g.contract = xhContract) \in BOOLEAN
    OBVIOUS
  <2>4. (IF g.decision = "grant" THEN Len(xhGrants[s]) ELSE 0) \in Nat
    BY <2>2
  <2>5. t \in [source : XhLawful \union {NoSource}, version : Nat,
               modify : BOOLEAN, invoke : BOOLEAN, contract : Nat]
    BY <1>5, <2>1, <2>3, <2>4
  <2> QED BY <2>1, <2>5
<1>9. xhTrace \in [XhRuns -> [source : XhLawful \union {NoSource}, version : Nat,
                              modify : BOOLEAN, invoke : BOOLEAN, contract : Nat]]
  BY DEF XhInv, XhTypeOK
<1>10. xhTrace'[r] = t /\ \A q \in XhRuns : q # r => xhTrace'[q] = xhTrace[q]
  BY <1>4, <1>9
<1>11. xhCall[r] = NoCall
  BY <1>4, XhAssumption DEF XhInv, XhCalls, NoTrace, XhSources
<1>12. XhTypeOK'
  BY <1>4, <1>8, <1>9 DEF XhInv, XhTypeOK
<1>13. XhTraces'
  BY <1>4, <1>6, <1>8, <1>10 DEF XhInv, XhTraces
<1>14. XhCalls' /\ XhPowers'
  BY <1>4, <1>10, <1>11 DEF XhInv, XhCalls, XhPowers, NoCall
<1> QED BY <1>4, <1>12, <1>13, <1>14 DEF XhInv, XhStreaks

LEMMA XhCloseKeeps == XhInv /\ (\E r \in XhRuns : CloseTrace(r)) => XhInv'
<1> SUFFICES ASSUME XhInv, NEW r \in XhRuns, CloseTrace(r) PROVE XhInv'
  OBVIOUS
<1>1. NoTrace \in [source : XhLawful \union {NoSource}, version : Nat,
                   modify : BOOLEAN, invoke : BOOLEAN, contract : Nat]
  BY DEF NoTrace
<1>2. xhTrace' = [xhTrace EXCEPT ![r] = NoTrace] /\ xhCall[r] = NoCall
      /\ UNCHANGED << xhDir, xhContract, xhGrants, xhHealth, xhAudit, xhCall, xhSeen >>
  BY DEF CloseTrace
<1>3. XhTypeOK'
  BY <1>1, <1>2 DEF XhInv, XhTypeOK
<1>4. xhTrace'[r] = NoTrace /\ \A q \in XhRuns : q # r => xhTrace'[q] = xhTrace[q]
  BY <1>2 DEF XhInv, XhTypeOK
<1>5. XhTraces'
  BY <1>2, <1>4 DEF XhInv, XhTraces, NoTrace
<1>6. XhCalls' /\ XhPowers'
  BY <1>2, <1>4 DEF XhInv, XhCalls, XhPowers, NoCall
<1> QED BY <1>2, <1>3, <1>5, <1>6 DEF XhInv, XhStreaks

XhCallType == [st : {"idle", "running", "reporting"}, patch : BOOLEAN,
               did : SUBSET {"patch", "tool"}, since : Nat, outcome : XhOutcomes]

\* Steps inside one callback: it is over, reports, or runs on as it was started.
LEMMA XhCallKeeps ==
  ASSUME XhInv, NEW r \in XhRuns, NEW c \in XhCallType, xhCall' = [xhCall EXCEPT ![r] = c],
         UNCHANGED << xhDir, xhContract, xhGrants, xhHealth, xhAudit, xhTrace, xhSeen >>,
         c # NoCall => xhTrace[r].source \in XhLawful,
         c.st = "idle" => c = NoCall,
         c.st = "running" => c.since <= Len(xhAudit[xhTrace[r].source])
                             /\ ~ ThreeInARow(xhAudit[xhTrace[r].source], c.since),
         c.patch \/ "patch" \in c.did => xhTrace[r].modify,
         "tool" \in c.did => xhTrace[r].invoke
  PROVE  XhInv'
<1>1. xhCall \in [XhRuns -> XhCallType]
  BY DEF XhInv, XhTypeOK, XhCallType
<1>2. xhCall'[r] = c /\ (\A q \in XhRuns : q # r => xhCall'[q] = xhCall[q]) /\ xhCall' \in [XhRuns -> XhCallType]
  BY <1>1
<1>3. XhTypeOK'
  BY <1>2 DEF XhInv, XhTypeOK, XhCallType
<1>4. XhCalls'
  BY <1>2 DEF XhInv, XhCalls
<1>5. XhPowers'
  BY <1>2 DEF XhInv, XhPowers
<1>6. XhStreaks'
  BY DEF XhInv, XhStreaks
<1>7. XhTraces'
  BY DEF XhInv, XhTraces
<1> QED BY <1>3, <1>4, <1>5, <1>6, <1>7 DEF XhInv

LEMMA XhStartsKeeps == XhInv /\ (\E r \in XhRuns : CallbackStarts(r)) => XhInv'
<1> SUFFICES ASSUME XhInv, NEW r \in XhRuns, CallbackStarts(r) PROVE XhInv'
  OBVIOUS
<1>1. PICK s : s = xhTrace[r].source
  OBVIOUS
<1>2. s \in XhLawful /\ xhAudit[s] \in Seq(Marks) /\ Len(xhAudit[s]) \in Nat
      /\ xhHealth[s].status \in {"active", "quarantined"}
  BY <1>1 DEF CallbackStarts, XhInv, XhTypeOK, Marks
<1>3. PICK c : c = IF IsQuarantined(s) THEN [NoCall EXCEPT !.st = "reporting", !.outcome = "quarantined"]
                   ELSE [NoCall EXCEPT !.st = "running", !.since = Len(xhAudit[s])]
  OBVIOUS
<1>4. xhCall' = [xhCall EXCEPT ![r] = c]
      /\ UNCHANGED << xhDir, xhContract, xhGrants, xhHealth, xhAudit, xhTrace, xhSeen >>
  BY <1>1, <1>3 DEF CallbackStarts
<1>5. /\ c \in XhCallType /\ c.st # "idle" /\ ~ c.patch /\ c.did = {}
      /\ c.st = "running" => ~ IsQuarantined(s) /\ c.since = Len(xhAudit[s])
  BY <1>2, <1>3 DEF NoCall, XhCallType, XhOutcomes
<1>6. c.st = "running" => ~ ThreeInARow(xhAudit[s], c.since)
  BY <1>2, <1>5 DEF XhInv, XhStreaks, IsQuarantined
<1>7. c.st = "running" => c.since <= Len(xhAudit[s])
  BY <1>2, <1>5
<1> QED BY <1>1, <1>2, <1>4, <1>5, <1>6, <1>7, XhCallKeeps

LEMMA XhHandlerKeeps ==
  XhInv /\ (\E r \in XhRuns : ReplaceRequest(r) \/ InvokeTool(r) \/ CommitBuffer(r)
                              \/ HandlerFails(r) \/ RunCancelled(r)) => XhInv'
<1> SUFFICES ASSUME XhInv, NEW r \in XhRuns,
                    ReplaceRequest(r) \/ InvokeTool(r) \/ CommitBuffer(r) \/ HandlerFails(r) \/ RunCancelled(r)
             PROVE  XhInv'
  OBVIOUS
<1>1. PICK o : o = xhCall[r]
  OBVIOUS
<1>2. /\ o \in XhCallType /\ xhCall \in [XhRuns -> XhCallType]
      /\ o # NoCall => xhTrace[r].source \in XhLawful
      /\ o.st = "running" => o.since <= Len(xhAudit[xhTrace[r].source])
                             /\ ~ ThreeInARow(xhAudit[xhTrace[r].source], o.since)
      /\ o.patch \/ "patch" \in o.did => xhTrace[r].modify
      /\ "tool" \in o.did => xhTrace[r].invoke
  BY <1>1 DEF XhInv, XhTypeOK, XhCallType, XhCalls, XhPowers
<1>3. UNCHANGED << xhDir, xhContract, xhGrants, xhHealth, xhAudit, xhTrace, xhSeen >>
  BY DEF ReplaceRequest, InvokeTool, CommitBuffer, HandlerFails, RunCancelled
<1>4. o.st = "running" => o # NoCall
  BY DEF NoCall
<1>5. ASSUME NEW out \in XhOutcomes, NEW did \in SUBSET {"patch", "tool"}, o.st = "running",
             xhCall' = [xhCall EXCEPT ![r] = [o EXCEPT !.st = "reporting", !.outcome = out,
             !.did = did]],
             "patch" \in did => o.patch \/ "patch" \in o.did, "tool" \in did => "tool" \in o.did
      PROVE  XhInv'
  <2>1. PICK c : c = [o EXCEPT !.st = "reporting", !.outcome = out, !.did = did]
    OBVIOUS
  <2>2. c \in XhCallType /\ c.st = "reporting" /\ c.patch = o.patch /\ c.did = did
    BY <1>2, <2>1 DEF XhCallType
  <2>3. "patch" \in c.did => o.patch \/ "patch" \in o.did
    BY <1>5, <2>2
  <2>4. "tool" \in c.did => "tool" \in o.did
    BY <1>5, <2>2
  <2> QED BY <1>2, <1>3, <1>4, <1>5, <2>1, <2>2, <2>3, <2>4, XhCallKeeps
<1>6. CASE xhCall' = [xhCall EXCEPT ![r] = NoCall]
  <2>1. NoCall \in XhCallType
    BY DEF NoCall, XhCallType, XhOutcomes
  <2> QED BY <1>3, <1>6, <2>1, XhCallKeeps DEF NoCall
<1>7. CASE o.st = "running" /\ ~ o.patch /\ xhTrace[r].modify /\ xhCall' = [xhCall EXCEPT ![r] = [o EXCEPT !.patch = TRUE]]
  <2>1. PICK c : c = [o EXCEPT !.patch = TRUE]
    OBVIOUS
  <2>2. c \in XhCallType /\ c.st = "running" /\ c.did = o.did /\ c.since = o.since
    BY <1>2, <1>7, <2>1 DEF XhCallType
  <2> QED BY <1>2, <1>3, <1>4, <1>7, <2>1, <2>2, XhCallKeeps
<1>8. CASE o.st = "running" /\ xhTrace[r].invoke /\ xhCall' = [xhCall EXCEPT ![r] = [o EXCEPT !.did = o.did \union {"tool"}]]
  <2>1. PICK c : c = [o EXCEPT !.did = o.did \union {"tool"}]
    OBVIOUS
  <2>2. c \in XhCallType /\ c.st = "running" /\ c.did = o.did \union {"tool"} /\ c.since = o.since /\ c.patch = o.patch
    BY <1>2, <1>8, <2>1 DEF XhCallType
  <2>3. "patch" \in c.did => "patch" \in o.did
    BY <2>2
  <2> QED BY <1>2, <1>3, <1>4, <1>8, <2>1, <2>2, <2>3, XhCallKeeps
<1>9. CASE ReplaceRequest(r)
  <2>1. CASE xhTrace[r].modify
    <3>1. xhCall' = [xhCall EXCEPT ![r] = [o EXCEPT !.patch = TRUE]] /\ o.st = "running" /\ ~ o.patch
      BY <1>1, <1>2, <1>9, <2>1 DEF ReplaceRequest
    <3> QED BY <1>7, <2>1, <3>1
  <2>2. CASE ~ xhTrace[r].modify
    <3>1. /\ xhCall' = [xhCall EXCEPT ![r] = [o EXCEPT !.st = "reporting", !.outcome = "policy_denial", !.did = o.did]]
          /\ o.st = "running"
      BY <1>1, <1>2, <1>9, <2>2 DEF ReplaceRequest, Ends, XhCallType
    <3>2. o.did \in SUBSET {"patch", "tool"} /\ "policy_denial" \in XhOutcomes
      BY <1>2 DEF XhCallType, XhOutcomes
    <3> QED BY <1>5, <3>1, <3>2
  <2> QED BY <2>1, <2>2
<1>10. CASE InvokeTool(r)
  <2>1. CASE xhTrace[r].invoke
    <3>1. xhCall' = [xhCall EXCEPT ![r] = [o EXCEPT !.did = o.did \union {"tool"}]] /\ o.st = "running"
      BY <1>1, <1>2, <1>10, <2>1 DEF InvokeTool
    <3> QED BY <1>8, <2>1, <3>1
  <2>2. CASE ~ xhTrace[r].invoke
    <3>1. /\ xhCall' = [xhCall EXCEPT ![r] = [o EXCEPT !.st = "reporting", !.outcome = "policy_denial", !.did = o.did]]
          /\ o.st = "running"
      BY <1>1, <1>2, <1>10, <2>2 DEF InvokeTool, Ends, XhCallType
    <3>2. o.did \in SUBSET {"patch", "tool"} /\ "policy_denial" \in XhOutcomes
      BY <1>2 DEF XhCallType, XhOutcomes
    <3> QED BY <1>5, <3>1, <3>2
  <2> QED BY <2>1, <2>2
<1>11. CASE CommitBuffer(r)
  <2>1. PICK did : did = IF o.patch THEN o.did \union {"patch"} ELSE o.did
    OBVIOUS
  <2>2. did \in SUBSET {"patch", "tool"} /\ o.did \in SUBSET {"patch", "tool"}
        /\ "success" \in XhOutcomes /\ "contract_violation" \in XhOutcomes /\ o.st = "running"
    BY <1>1, <1>2, <1>11, <2>1 DEF XhCallType, XhOutcomes, CommitBuffer
  <2>3. \/ xhCall' = [xhCall EXCEPT ![r] = [o EXCEPT !.st = "reporting", !.outcome = "success", !.did = did]]
        \/ xhCall' = [xhCall EXCEPT ![r] = [o EXCEPT !.st = "reporting", !.outcome = "contract_violation", !.did = o.did]]
    BY ZenonT(60), <1>1, <1>2, <1>11, <2>1 DEF CommitBuffer, Ends, XhCallType
  <2>4. ("patch" \in did => o.patch \/ "patch" \in o.did) /\ ("tool" \in did => "tool" \in o.did)
    BY <2>1
  <2> QED BY <1>5, <2>2, <2>3, <2>4
<1>12. CASE HandlerFails(r)
  <2>1. /\ xhCall' = [xhCall EXCEPT ![r] = [o EXCEPT !.st = "reporting", !.outcome = "exception", !.did = o.did]]
        /\ o.st = "running"
    BY <1>1, <1>2, <1>12 DEF HandlerFails, Ends, XhCallType
  <2>2. o.did \in SUBSET {"patch", "tool"} /\ "exception" \in XhOutcomes
    BY <1>2 DEF XhCallType, XhOutcomes
  <2> QED BY <1>5, <2>1, <2>2
<1>13. CASE RunCancelled(r)
  BY <1>6, <1>13 DEF RunCancelled
<1> QED BY <1>9, <1>10, <1>11, <1>12, <1>13

LEMMA XhReporterKeeps == XhInv /\ (\E r \in XhRuns : ReporterFails(r)) => XhInv'
<1> SUFFICES ASSUME XhInv, NEW r \in XhRuns, ReporterFails(r) PROVE XhInv'
  OBVIOUS
<1>1. NoCall \in XhCallType
  BY DEF NoCall, XhCallType, XhOutcomes
<1>2. xhCall' = [xhCall EXCEPT ![r] = NoCall]
      /\ UNCHANGED << xhDir, xhContract, xhGrants, xhHealth, xhAudit, xhTrace, xhSeen >>
  BY DEF ReporterFails
<1> QED BY <1>1, <1>2, XhCallKeeps DEF NoCall

LEMMA XhRecordKeeps == XhInv /\ (\E r \in XhRuns : RecordOutcome(r)) => XhInv'
<1> SUFFICES ASSUME XhInv, NEW r \in XhRuns, RecordOutcome(r) PROVE XhInv'
  OBVIOUS
<1>1. PICK s, out, h : s = xhTrace[r].source /\ out = xhCall[r].outcome /\ h = RecordedHealth(xhHealth[s], out)
  OBVIOUS
<1>2. /\ xhHealth' = [xhHealth EXCEPT ![s] = h]
      /\ xhAudit' = [xhAudit EXCEPT ![s] = IF out \in {"success", "exception"} THEN Append(@, out) ELSE @]
      /\ xhCall' = [xhCall EXCEPT ![r] = NoCall] /\ xhCall[r].st = "reporting"
      /\ UNCHANGED << xhDir, xhContract, xhGrants, xhTrace, xhSeen >>
  BY <1>1 DEF RecordOutcome
<1>3. s \in XhLawful
  BY <1>1, <1>2 DEF XhInv, XhCalls, NoCall
<1>4. PICK o : o = xhHealth[s]
  OBVIOUS
<1>5. /\ o \in [streak : Nat, status : {"active", "quarantined"}, revision : Nat]
      /\ xhHealth \in [XhLawful -> [streak : Nat, status : {"active", "quarantined"}, revision : Nat]]
      /\ xhAudit \in [XhLawful -> Seq(Marks)] /\ xhAudit[s] \in Seq(Marks)
      /\ xhCall \in [XhRuns -> XhCallType] /\ out \in XhOutcomes
  BY <1>1, <1>3, <1>4 DEF XhInv, XhTypeOK, Marks, XhCallType
<1>6. PICK cnt : cnt = IF out = "success" THEN 0 ELSE IF out = "exception" THEN o.streak + 1 ELSE o.streak
  OBVIOUS
<1>7. /\ cnt \in Nat
      /\ h = [streak |-> cnt, status |-> IF out = "exception" /\ cnt >= 3 THEN "quarantined" ELSE o.status,
              revision |-> o.revision + 1]
  BY <1>1, <1>4, <1>5, <1>6 DEF RecordedHealth
<1>8. /\ h \in [streak : Nat, status : {"active", "quarantined"}, revision : Nat]
      /\ h.streak = cnt
      /\ h.status = IF out = "exception" /\ cnt >= 3 THEN "quarantined" ELSE o.status
  BY <1>5, <1>7
<1>9. NoCall \in XhCallType
  BY DEF NoCall, XhCallType, XhOutcomes
<1>10. xhCall'[r] = NoCall /\ (\A q \in XhRuns : q # r => xhCall'[q] = xhCall[q])
  BY <1>2, <1>5
<1>11. xhAudit' \in [XhLawful -> Seq(Marks)]
  <2>1. CASE out \in {"success", "exception"}
    <3>1. Append(xhAudit[s], out) \in Seq(Marks)
      BY <1>5, <2>1, XhLogGrows DEF Marks
    <3> QED BY <1>2, <1>5, <2>1, <3>1
  <2>2. CASE out \notin {"success", "exception"}
    BY <1>2, <1>5, <2>2
  <2> QED BY <2>1, <2>2
<1>12. XhTypeOK'
  <2>1. xhHealth' \in [XhLawful -> [streak : Nat, status : {"active", "quarantined"}, revision : Nat]]
    BY <1>2, <1>5, <1>8
  <2>2. xhCall' \in [XhRuns -> XhCallType]
    BY <1>2, <1>5, <1>9
  <2> QED BY <1>2, <1>11, <2>1, <2>2 DEF XhInv, XhTypeOK, Marks, XhCallType
<1>13. XhStreaks' /\ (\A q \in XhRuns : xhCall[q].st = "running" =>
         /\ xhCall[q].since <= Len(xhAudit'[xhTrace[q].source])
         /\ ~ ThreeInARow(xhAudit'[xhTrace[q].source], xhCall[q].since))
  <2>1. CASE out \in {"success", "exception"}
    <3>1. xhAudit' = [xhAudit EXCEPT ![s] = Append(@, out)] /\ out \in { "success", "exception", "reenable" }
      BY <1>2, <1>5, <2>1
    <3>2. out = "success" => h.streak = 0 /\ h.status = xhHealth[s].status
      BY <1>4, <1>6, <1>8
    <3>3. out = "exception" => /\ h.streak = xhHealth[s].streak + 1
                              /\ (h.status = "active" => xhHealth[s].status = "active" /\ h.streak < 3)
      BY <1>4, <1>5, <1>6, <1>8
    <3>4. out # "reenable"
      BY <2>1
    <3>5. /\ out \in { "success", "reenable" } => h.streak = 0
          /\ out = "success" => h.status = xhHealth[s].status
          /\ out = "exception" => h.streak = xhHealth[s].streak + 1
               /\ (h.status = "active" => xhHealth[s].status = "active" /\ h.streak < 3)
      BY <3>2, <3>3, <3>4
    <3>6. XhInv /\ xhHealth' = [xhHealth EXCEPT ![s] = h]
      BY <1>2
    <3>7. XhStreaks'
      BY <1>3, <1>8, <3>1, <3>5, <3>6, XhAuditKeeps
    <3> QED BY <1>3, <3>1, <3>7, XhCallsPast
  <2>2. CASE out \notin {"success", "exception"}
    <3>1. xhAudit' = xhAudit
      BY <1>2, <1>5, <2>2
    <3>2. h.streak = o.streak /\ h.status = o.status
      BY <1>6, <1>8, <2>2
    <3>3. \A q \in XhLawful : xhHealth'[q].streak = xhHealth[q].streak /\ xhHealth'[q].status = xhHealth[q].status
      BY <1>2, <1>4, <1>5, <3>2
    <3>4. XhStreaks'
      BY <3>1, <3>3 DEF XhInv, XhStreaks
    <3> QED BY <3>1, <3>4 DEF XhInv, XhCalls
  <2> QED BY <2>1, <2>2
<1>14. XhCalls'
  BY <1>2, <1>10, <1>13 DEF XhInv, XhCalls, NoCall
<1>15. XhPowers'
  BY <1>2, <1>10 DEF XhInv, XhPowers, NoCall
<1>16. XhTraces'
  BY <1>2 DEF XhInv, XhTraces
<1> QED BY <1>12, <1>13, <1>14, <1>15, <1>16 DEF XhInv

LEMMA XhInitial == XhInit => XhInv
<1> SUFFICES ASSUME XhInit PROVE XhInv
  OBVIOUS
<1>1. XhTypeOK
  BY DEF XhInit, XhTypeOK, NoTrace, NoCall, XhSources, XhOutcomes
<1>2. XhStreaks
  <2>1. \A s \in XhLawful : xhAudit[s] = << >> /\ Len(xhAudit[s]) = 0 /\ xhHealth[s].streak = 0
    BY DEF XhInit
  <2>2. \A log : OpenRow(log, 0) = {} /\ ~ ThreeInARow(log, 0)
    BY DEF OpenRow, ThreeInARow
  <2> QED BY <2>1, <2>2 DEF XhStreaks
<1>3. XhCalls /\ XhTraces /\ XhPowers
  BY DEF XhInit, XhCalls, XhTraces, XhPowers, NoCall, NoTrace
<1> QED BY <1>1, <1>2, <1>3 DEF XhInv

LEMMA XhNextKeeps == XhInv /\ [XhNext]_xhVars => XhInv'
<1>1. XhInv /\ UNCHANGED xhVars => XhInv'
  BY DEF xhVars, XhInv, XhTypeOK, XhStreaks, XhCalls, XhTraces, XhPowers
<1> QED
  BY <1>1, XhCatalogKeeps, XhGrantingKeeps, XhReadKeeps, XhReenableKeeps, XhOpenKeeps, XhCloseKeeps,
     XhStartsKeeps, XhHandlerKeeps, XhRecordKeeps, XhReporterKeeps
  DEF XhNext, XhGranting, XhEnabling, XhRuntime

(* For any order of handler outcomes, grants, re-enablings and reloads: the *)
(* conjuncts of XhInv hold of extension health, audit, grants and traces.   *)
THEOREM HooksInvariant == XhSpec => []XhInv
<1> HIDE DEF XhInv
<1> QED BY XhInitial, XhNextKeeps, PTL DEF XhSpec

(* No handler is called past its quarantine after three failures in a row,  *)
(* and none does what the grant its trace was opened with does not allow.   *)
THEOREM HooksKeptInBounds == XhSpec => []HooksSound
<1>1. XhInv => HooksSound
  <2> SUFFICES ASSUME XhInv PROVE HooksSound
    OBVIOUS
  <2>1. QuarantineHolds
    <3> SUFFICES ASSUME NEW r \in XhRuns, xhCall[r].st = "running"
                 PROVE  ~ FailedInARow(SinceReenabled(SubSeq(xhAudit[xhTrace[r].source], 1,
                 xhCall[r].since)))
      BY DEF QuarantineHolds
    <3>1. PICK log, n : log = xhAudit[xhTrace[r].source] /\ n = xhCall[r].since
      OBVIOUS
    <3>2. log \in Seq(Marks) /\ n <= Len(log) /\ n \in Nat /\ ~ ThreeInARow(log, n)
      BY <3>1 DEF XhInv, XhTypeOK, XhCalls, NoCall, Marks
    <3>3. n \in 0..Len(log)
      BY <3>2
    <3> QED BY <3>1, <3>2, <3>3, XhFailedInARow
  <2>2. PowerIsGranted
    <3> SUFFICES ASSUME NEW r \in XhRuns, xhCall[r].did # {}
                 PROVE  /\ xhTrace[r].version > 0
                        /\ LET entry == xhGrants[xhTrace[r].source][xhTrace[r].version] IN
                           /\ entry.decision = "grant"
                           /\ "patch" \in xhCall[r].did => entry.modify
                           /\ "tool" \in xhCall[r].did => entry.invoke /\ entry.contract = xhTrace[r].contract
      BY DEF PowerIsGranted
    <3>1. xhTrace[r].modify \/ xhTrace[r].invoke
      BY DEF XhInv, XhPowers, XhTypeOK
    <3>2. xhTrace[r].version \in Nat /\ xhTrace[r].version # 0
      BY <3>1 DEF XhInv, XhTraces, XhTypeOK
    <3> QED BY <3>1, <3>2 DEF XhInv, XhTraces, XhPowers
  <2> QED BY <2>1, <2>2 DEF XhInv, HooksSound
<1> QED BY <1>1, HooksInvariant, PTL

-----------------------------------------------------------------------------
(* Maintenance: the inductive invariant.                                   *)

\* Phases of a published snapshot, and steps of a backup behind its complete freeze.
MnPublished == {"snapshot_ready", "storing_objects", "verifying", "completed"}
MnCopying == {"frozen", "stage", "resume", "failing"}

LifeType == [state : States, reason : Callers \cup {"none", "failure", "resume", "healthy"},
             epoch : 0 .. MaxEpochs, proven : BOOLEAN]
CoordType == [pc : {"idle", "drain", "quiesce", "settle", "spawn", "requiesce", "revive"}, who : Callers]
OpType == [phase : Terminal \cup MnPublished \cup {"preparing", "snapshotting"}, epoch : Nat,
           kind : {"manual", "automatic"}]
CopyType ==
    /\ home \in [Members -> 1 .. MaxWrites]
    /\ staged \in [Members -> 0 .. MaxWrites]
    /\ cut \in [Members -> 1 .. MaxWrites]
MnPlain ==
    /\ active \subseteq Works \cup {"control", "maintenance"}
    /\ paused \subseteq Part
    /\ proc \in {"down", "boot", "opening", "recover", "starting", "up", "exit"}
    /\ services \in BOOLEAN
    /\ task \in {"none", "prestage", "freeze", "frozen", "stage", "resume", "failing", "finish"}
    /\ held \in Nat
    /\ copied \subseteq Members
    /\ lifted \in BOOLEAN
    /\ row \in {"none", "waiting", "requested", "timeout", "completed", "failed"}
    /\ helper \in {"none", "reopen", "wait", "starting"}
MnTypes == life \in LifeType /\ coord \in CoordType /\ op \in OpType /\ CopyType /\ MnPlain

\* The coordinator's step says what the gate can be.
MnGate ==
    /\ coord.pc \in {"drain", "quiesce", "settle"} => life.state \in {"quiescing", "failed"}
    /\ coord.pc \in {"requiesce", "revive"} => life.state \in {"resuming", "failed"}
    /\ coord.pc = "spawn" => /\ life.state \in {"quiesced", "failed"} /\ coord.who = "restart"
                             /\ life.state = "quiesced" => life.reason = "restart"
    /\ coord.pc \in {"settle", "spawn"} => paused = Part
\* A process that has not started its services holds nothing.
MnFresh ==
    proc \in {"down", "boot", "opening"} =>
        coord.pc = "idle" /\ paused = {} /\ active = {} /\ ~services /\ task = "none"
\* The epoch a backup holds is the one of its own freeze.
MnHeld ==
    /\ held <= life.epoch
    /\ coord.pc \in {"drain", "quiesce", "settle"} => held < life.epoch
    /\ life.state = "quiesced" /\ life.epoch = held => life.reason = "backup"
\* Whom the coordinator serves.
MnServes ==
    coord.who = "backup" =>
        /\ coord.pc \in {"drain", "quiesce", "settle"} => task = "freeze"
        /\ coord.pc \in {"requiesce", "revive"} => task \in {"resume", "failing"}
\* The home stands still while a backup copies it.
MnStill ==
    task \in MnCopying /\ ~lifted =>
        active \cap Works = {} /\ life.state # "running" /\ home = cut
\* What a backup has staged is its cut, and nothing counts as staged before.
MnCopied ==
    /\ task \in {"prestage", "freeze", "frozen"} => copied = {}
    /\ task \in {"prestage", "freeze", "frozen", "stage"} => op.phase \notin MnPublished
    /\ task = "stage" /\ ~lifted => \A m \in copied : staged[m] = cut[m]
    /\ (task \in {"resume", "finish"} \/ op.phase \in MnPublished) /\ ~lifted => staged = cut

MnInv == MnTypes /\ GateMatchesProcess /\ MnGate /\ MnFresh /\ MnHeld /\ MnServes /\ MnStill /\ MnCopied

\* Steps that begin a freeze, and steps that end in any state but RESUMING.
MnFreezeBegins == AdminFreeze \/ BackupFreeze \/ ControlRequest \/ RestartFreeze
MnSettles ==
    \/ FreezeEnd \/ FreezeFail \/ ResumeEnd \/ ResumeFail \/ StageFail \/ Exit \/ StartServices
    \/ \E ok \in BOOLEAN : BootResumed(ok)

-----------------------------------------------------------------------------
(* Maintenance: one lemma per action.                                      *)

MnReasons == Callers \cup {"none", "failure", "resume", "healthy"}
\* A transition, a failure and a freeze keep the shape of the snapshot.
LEMMA MnMoves ==
    ASSUME life \in LifeType, NEW s \in States, NEW r \in MnReasons, Transition(s, r)
    PROVE  life' \in LifeType
BY DEF LifeType, Transition, MnReasons

LEMMA MnFails == ASSUME life \in LifeType, GateFail PROVE life' \in LifeType
BY MnMoves DEF GateFail, MnReasons, States

LEMMA MnBegins ==
    ASSUME life \in LifeType, NEW who \in Callers, FreezeBegin(who)
    PROVE  life' \in LifeType
<1>1. life.epoch + 1 \in 0 .. MaxEpochs
    BY MntAssumption DEF LifeType, FreezeBegin
<1> QED BY <1>1 DEF LifeType, FreezeBegin, States

LEMMA MnAdmitKeeps == MnInv /\ (\E w \in Works : Admit(w)) => MnInv'
<1> SUFFICES ASSUME MnInv, (\E w \in Works : Admit(w)) PROVE MnInv'
    OBVIOUS
<1> USE MntAssumption DEF MnInv, MnTypes, MnPublished, MnCopying, States, Callers, Terminal, Free, lifeVars, copyVars, fileVars
<1>1. MnTypes'
    BY DEF LifeType, CoordType, OpType, CopyType, MnPlain, Admit
<1>2. (GateMatchesProcess /\ MnGate)'
    BY <1>1 DEF LifeType, CoordType, OpType, CopyType, MnPlain, GateMatchesProcess, MnGate,
       MnFresh, Admit
<1>3. (MnFresh /\ MnHeld /\ MnServes)'
    BY <1>1 DEF LifeType, CoordType, OpType, CopyType, MnPlain, MnGate, MnFresh, MnHeld, MnServes,
       Admit
<1>4. (MnStill /\ MnCopied)'
    BY <1>1 DEF LifeType, CoordType, OpType, CopyType, MnPlain, GateMatchesProcess, MnGate,
       MnFresh, MnServes, MnStill, MnCopied, Admit
<1> QED BY <1>1, <1>2, <1>3, <1>4

LEMMA MnMutateKeeps == MnInv /\ (\E w \in Works, m \in Members : Mutate(w, m)) => MnInv'
<1> SUFFICES ASSUME MnInv, (\E w \in Works, m \in Members : Mutate(w, m)) PROVE MnInv'
    OBVIOUS
<1> USE MntAssumption DEF MnInv, MnTypes, MnPublished, MnCopying, States, Callers, Terminal, Free, lifeVars, copyVars, fileVars
<1>1. life' \in LifeType
    BY DEF LifeType, CoordType, MnPlain, Mutate, MayMutate
<1>2. coord' \in CoordType
    BY DEF CoordType, Mutate, MayMutate
<1>3. op' \in OpType
    BY DEF OpType, MnPlain, Mutate, MayMutate
<1>4. CopyType'
    BY DEF CopyType, Mutate, MayMutate
<1>5. MnPlain'
    BY DEF MnPlain, LifeType, CoordType, Mutate, MayMutate
<1>6. MnTypes'
    BY <1>1, <1>2, <1>3, <1>4, <1>5
<1>7. (GateMatchesProcess /\ MnGate)'
    BY <1>6 DEF LifeType, CoordType, OpType, CopyType, MnPlain, GateMatchesProcess, MnGate,
       MnFresh, Mutate, MayMutate
<1>8. (MnFresh /\ MnHeld /\ MnServes)'
    BY <1>6 DEF LifeType, CoordType, OpType, CopyType, MnPlain, MnGate, MnFresh, MnHeld, MnServes,
       Mutate, MayMutate
<1>9. (MnStill /\ MnCopied)'
    BY <1>6 DEF LifeType, CoordType, OpType, CopyType, MnPlain, GateMatchesProcess, MnGate,
       MnFresh, MnServes, MnStill, MnCopied, Mutate, MayMutate
<1> QED BY <1>6, <1>7, <1>8, <1>9

LEMMA MnLeaveKeeps == MnInv /\ (\E w \in Works \cup {"control"} : Leave(w)) => MnInv'
<1> SUFFICES ASSUME MnInv, (\E w \in Works \cup {"control"} : Leave(w)) PROVE MnInv'
    OBVIOUS
<1> USE MntAssumption DEF MnInv, MnTypes, MnPublished, MnCopying, States, Callers, Terminal, Free, lifeVars, copyVars, fileVars
<1>1. MnTypes'
    BY DEF LifeType, CoordType, OpType, CopyType, MnPlain, Leave
<1>2. (GateMatchesProcess /\ MnGate)'
    BY <1>1 DEF LifeType, CoordType, OpType, CopyType, MnPlain, GateMatchesProcess, MnGate,
       MnFresh, Leave
<1>3. (MnFresh /\ MnHeld /\ MnServes)'
    BY <1>1 DEF LifeType, CoordType, OpType, CopyType, MnPlain, MnGate, MnFresh, MnHeld, MnServes,
       Leave
<1>4. (MnStill /\ MnCopied)'
    BY <1>1 DEF LifeType, CoordType, OpType, CopyType, MnPlain, GateMatchesProcess, MnGate,
       MnFresh, MnServes, MnStill, MnCopied, Leave
<1> QED BY <1>1, <1>2, <1>3, <1>4

LEMMA MnControlKeeps == MnInv /\ Control => MnInv'
<1> SUFFICES ASSUME MnInv, Control PROVE MnInv'
    OBVIOUS
<1> USE MntAssumption DEF MnInv, MnTypes, MnPublished, MnCopying, States, Callers, Terminal, Free, lifeVars, copyVars, fileVars
<1>1. MnTypes'
    BY DEF LifeType, CoordType, OpType, CopyType, MnPlain, Control
<1>2. (GateMatchesProcess /\ MnGate)'
    BY <1>1 DEF LifeType, CoordType, OpType, CopyType, MnPlain, GateMatchesProcess, MnGate,
       MnFresh, Control
<1>3. (MnFresh /\ MnHeld /\ MnServes)'
    BY <1>1 DEF LifeType, CoordType, OpType, CopyType, MnPlain, MnGate, MnFresh, MnHeld, MnServes,
       Control
<1>4. (MnStill /\ MnCopied)'
    BY <1>1 DEF LifeType, CoordType, OpType, CopyType, MnPlain, GateMatchesProcess, MnGate,
       MnFresh, MnServes, MnStill, MnCopied, Control
<1> QED BY <1>1, <1>2, <1>3, <1>4

LEMMA MnDrainedKeeps == MnInv /\ Drained => MnInv'
<1> SUFFICES ASSUME MnInv, Drained PROVE MnInv'
    OBVIOUS
<1> USE MntAssumption DEF MnInv, MnTypes, MnPublished, MnCopying, States, Callers, Terminal, Free, lifeVars, copyVars, fileVars
<1>1. life' \in LifeType
    BY DEF LifeType, CoordType, MnPlain, Drained
<1>2. coord' \in CoordType
    BY DEF CoordType, Drained
<1>3. op' \in OpType
    BY DEF OpType, MnPlain, Drained
<1>4. CopyType'
    BY DEF CopyType, Drained
<1>5. MnPlain'
    BY DEF MnPlain, LifeType, CoordType, Drained
<1>6. MnTypes'
    BY <1>1, <1>2, <1>3, <1>4, <1>5
<1>7. (GateMatchesProcess /\ MnGate)'
    BY <1>6 DEF LifeType, CoordType, OpType, CopyType, MnPlain, GateMatchesProcess, MnGate,
       MnFresh, Drained
<1>8. (MnFresh /\ MnHeld /\ MnServes)'
    BY <1>6 DEF LifeType, CoordType, OpType, CopyType, MnPlain, MnGate, MnFresh, MnHeld, MnServes,
       Drained
<1>9. (MnStill /\ MnCopied)'
    BY <1>6 DEF LifeType, CoordType, OpType, CopyType, MnPlain, GateMatchesProcess, MnGate,
       MnFresh, MnServes, MnStill, MnCopied, Drained
<1> QED BY <1>6, <1>7, <1>8, <1>9

LEMMA MnQuiesceOneKeeps == MnInv /\ QuiesceOne => MnInv'
<1> SUFFICES ASSUME MnInv, QuiesceOne PROVE MnInv'
    OBVIOUS
<1> USE MntAssumption DEF MnInv, MnTypes, MnPublished, MnCopying, States, Callers, Terminal, Free, lifeVars, copyVars, fileVars
<1>1. MnTypes'
    BY DEF LifeType, CoordType, OpType, CopyType, MnPlain, QuiesceOne, Part
<1>2. (GateMatchesProcess /\ MnGate)'
    BY <1>1 DEF LifeType, CoordType, OpType, CopyType, MnPlain, GateMatchesProcess, MnGate,
       MnFresh, QuiesceOne, Part
<1>3. (MnFresh /\ MnHeld /\ MnServes)'
    BY <1>1 DEF LifeType, CoordType, OpType, CopyType, MnPlain, MnGate, MnFresh, MnHeld, MnServes,
       QuiesceOne, Part
<1>4. (MnStill /\ MnCopied)'
    BY <1>1 DEF LifeType, CoordType, OpType, CopyType, MnPlain, GateMatchesProcess, MnGate,
       MnFresh, MnServes, MnStill, MnCopied, QuiesceOne, Part
<1> QED BY <1>1, <1>2, <1>3, <1>4

LEMMA MnFlushKeeps == MnInv /\ Flush => MnInv'
<1> SUFFICES ASSUME MnInv, Flush PROVE MnInv'
    OBVIOUS
<1> USE MntAssumption DEF MnInv, MnTypes, MnPublished, MnCopying, States, Callers, Terminal, Free, lifeVars, copyVars, fileVars
<1>1. MnTypes'
    BY DEF LifeType, CoordType, OpType, CopyType, MnPlain, Flush
<1>2. (GateMatchesProcess /\ MnGate)'
    BY <1>1 DEF LifeType, CoordType, OpType, CopyType, MnPlain, GateMatchesProcess, MnGate,
       MnFresh, Flush
<1>3. (MnFresh /\ MnHeld /\ MnServes)'
    BY <1>1 DEF LifeType, CoordType, OpType, CopyType, MnPlain, MnGate, MnFresh, MnHeld, MnServes,
       Flush
<1>4. (MnStill /\ MnCopied)'
    BY <1>1 DEF LifeType, CoordType, OpType, CopyType, MnPlain, GateMatchesProcess, MnGate,
       MnFresh, MnServes, MnStill, MnCopied, Flush
<1> QED BY <1>1, <1>2, <1>3, <1>4

LEMMA MnFreezeEndKeeps == MnInv /\ FreezeEnd => MnInv'
<1> SUFFICES ASSUME MnInv, FreezeEnd PROVE MnInv'
    OBVIOUS
<1> USE MntAssumption DEF MnInv, MnTypes, MnPublished, MnCopying, States, Callers, Terminal, Free, lifeVars, copyVars, fileVars
<1>1. life' \in LifeType
    BY DEF LifeType, CoordType, MnPlain, FreezeEnd, Transition, Return, TaskAfter, OpAfter
<1>2. coord' \in CoordType
    BY DEF CoordType, FreezeEnd, Transition, Return, TaskAfter, OpAfter
<1>3. op' \in OpType
    BY DEF OpType, MnPlain, FreezeEnd, Transition, Return, TaskAfter, OpAfter
<1>4. CopyType'
    BY DEF CopyType, FreezeEnd, Transition, Return, TaskAfter, OpAfter
<1>5. MnPlain'
    BY DEF MnPlain, LifeType, CoordType, FreezeEnd, Transition, Return, TaskAfter, OpAfter
<1>6. MnTypes'
    BY <1>1, <1>2, <1>3, <1>4, <1>5
<1>7. life'.state = "quiesced" /\ life'.epoch = life.epoch /\ life'.reason = coord.who
    BY DEF LifeType, FreezeEnd, Transition, Return, TaskAfter, OpAfter
<1>8. (GateMatchesProcess /\ MnGate)'
    BY <1>6, <1>7 DEF LifeType, CoordType, OpType, CopyType, MnPlain, GateMatchesProcess, MnGate,
       MnFresh, FreezeEnd, Return, TaskAfter, OpAfter
<1>9. (MnFresh /\ MnHeld /\ MnServes)'
    BY <1>6, <1>7 DEF LifeType, CoordType, OpType, CopyType, MnPlain, MnGate, MnFresh, MnHeld,
       MnServes, FreezeEnd, Return, TaskAfter, OpAfter
<1>10. MnStill'
    BY <1>6, <1>7 DEF LifeType, CoordType, OpType, CopyType, MnPlain, MnGate, MnServes, MnStill,
       FreezeEnd, Return, TaskAfter, OpAfter
<1>11. MnCopied'
    BY <1>6, <1>7 DEF LifeType, CoordType, OpType, CopyType, MnPlain, MnServes, MnStill, MnCopied,
       FreezeEnd, Return, TaskAfter, OpAfter
<1> QED BY <1>6, <1>8, <1>9, <1>10, <1>11

LEMMA MnFreezeFailKeeps == MnInv /\ FreezeFail => MnInv'
<1> SUFFICES ASSUME MnInv, FreezeFail PROVE MnInv'
    OBVIOUS
<1> USE MntAssumption DEF MnInv, MnTypes, MnPublished, MnCopying, States, Callers, Terminal, Free, lifeVars, copyVars, fileVars
<1>1. life' \in LifeType
    BY MnFails DEF MnReasons, FreezeFail, Return, TaskAfter, OpAfter
<1>2. coord' \in CoordType
    BY DEF CoordType, FreezeFail, GateFail, Transition, Return, TaskAfter, OpAfter
<1>3. op' \in OpType
    BY DEF OpType, MnPlain, FreezeFail, GateFail, Transition, Return, TaskAfter, OpAfter
<1>4. CopyType'
    BY DEF CopyType, FreezeFail, GateFail, Transition, Return, TaskAfter, OpAfter
<1>5. MnPlain'
    BY DEF MnPlain, LifeType, CoordType, FreezeFail, GateFail, Transition, Return, TaskAfter,
       OpAfter
<1>6. MnTypes'
    BY <1>1, <1>2, <1>3, <1>4, <1>5
<1>7. life'.state = "failed" /\ life'.epoch = life.epoch
    BY DEF LifeType, FreezeFail, GateFail, Transition, Return, TaskAfter, OpAfter
<1>8. (GateMatchesProcess /\ MnGate)'
    BY <1>6, <1>7 DEF LifeType, CoordType, OpType, CopyType, MnPlain, GateMatchesProcess, MnGate,
       MnFresh, FreezeFail, Return, TaskAfter, OpAfter
<1>9. (MnFresh /\ MnHeld /\ MnServes)'
    BY <1>6, <1>7 DEF LifeType, CoordType, OpType, CopyType, MnPlain, MnGate, MnFresh, MnHeld,
       MnServes, FreezeFail, Return, TaskAfter, OpAfter
<1>10. MnStill'
    BY <1>6, <1>7 DEF LifeType, CoordType, OpType, CopyType, MnPlain, MnGate, MnServes, MnStill,
       FreezeFail, Return, TaskAfter, OpAfter
<1>11. /\ task' \in {task, "none"}
      /\ (op' = op \/ op'.phase \in {"failed", "recovery_required"})
    BY DEF OpType, CoordType, FreezeFail, Return, TaskAfter, OpAfter
<1>12. UNCHANGED <<staged, cut, copied>> /\ (lifted => lifted')
    BY DEF LifeType, CoordType, OpType, CopyType, MnPlain, FreezeFail
<1>13. MnCopied'
    BY <1>11, <1>12 DEF MnPlain, MnCopied
<1> QED BY <1>6, <1>8, <1>9, <1>10, <1>13

LEMMA MnHealthPassedKeeps == MnInv /\ HealthPassed => MnInv'
<1> SUFFICES ASSUME MnInv, HealthPassed PROVE MnInv'
    OBVIOUS
<1> USE MntAssumption DEF MnInv, MnTypes, MnPublished, MnCopying, States, Callers, Terminal, Free, lifeVars, copyVars, fileVars
<1>1. MnTypes'
    BY DEF LifeType, CoordType, OpType, CopyType, MnPlain, HealthPassed
<1>2. (GateMatchesProcess /\ MnGate)'
    BY <1>1 DEF LifeType, CoordType, OpType, CopyType, MnPlain, GateMatchesProcess, MnGate,
       MnFresh, HealthPassed
<1>3. (MnFresh /\ MnHeld /\ MnServes)'
    BY <1>1 DEF LifeType, CoordType, OpType, CopyType, MnPlain, MnGate, MnFresh, MnHeld, MnServes,
       HealthPassed
<1>4. (MnStill /\ MnCopied)'
    BY <1>1 DEF LifeType, CoordType, OpType, CopyType, MnPlain, GateMatchesProcess, MnGate,
       MnFresh, MnServes, MnStill, MnCopied, HealthPassed
<1> QED BY <1>1, <1>2, <1>3, <1>4

LEMMA MnReviveOneKeeps == MnInv /\ ReviveOne => MnInv'
<1> SUFFICES ASSUME MnInv, ReviveOne PROVE MnInv'
    OBVIOUS
<1> USE MntAssumption DEF MnInv, MnTypes, MnPublished, MnCopying, States, Callers, Terminal, Free, lifeVars, copyVars, fileVars
<1>1. MnTypes'
    BY DEF LifeType, CoordType, OpType, CopyType, MnPlain, ReviveOne, Part
<1>2. (GateMatchesProcess /\ MnGate)'
    BY <1>1 DEF LifeType, CoordType, OpType, CopyType, MnPlain, GateMatchesProcess, MnGate,
       MnFresh, ReviveOne, Part
<1>3. (MnFresh /\ MnHeld /\ MnServes)'
    BY <1>1 DEF LifeType, CoordType, OpType, CopyType, MnPlain, MnGate, MnFresh, MnHeld, MnServes,
       ReviveOne, Part
<1>4. (MnStill /\ MnCopied)'
    BY <1>1 DEF LifeType, CoordType, OpType, CopyType, MnPlain, GateMatchesProcess, MnGate,
       MnFresh, MnServes, MnStill, MnCopied, ReviveOne, Part
<1> QED BY <1>1, <1>2, <1>3, <1>4

LEMMA MnResumeEndKeeps == MnInv /\ ResumeEnd => MnInv'
<1> SUFFICES ASSUME MnInv, ResumeEnd PROVE MnInv'
    OBVIOUS
<1> USE MntAssumption DEF MnInv, MnTypes, MnPublished, MnCopying, States, Callers, Terminal, Free, lifeVars, copyVars, fileVars
<1>1. life' \in LifeType
    BY DEF LifeType, CoordType, MnPlain, ResumeEnd, Transition, Return, TaskAfter, OpAfter
<1>2. coord' \in CoordType
    BY DEF CoordType, ResumeEnd, Transition, Return, TaskAfter, OpAfter
<1>3. op' \in OpType
    BY DEF OpType, MnPlain, ResumeEnd, Transition, Return, TaskAfter, OpAfter
<1>4. CopyType'
    BY DEF CopyType, ResumeEnd, Transition, Return, TaskAfter, OpAfter
<1>5. MnPlain'
    BY DEF MnPlain, LifeType, CoordType, ResumeEnd, Transition, Return, TaskAfter, OpAfter
<1>6. MnTypes'
    BY <1>1, <1>2, <1>3, <1>4, <1>5
<1>7. life'.state = "running" /\ life'.epoch = life.epoch
    BY DEF LifeType, ResumeEnd, Transition, Return, TaskAfter, OpAfter
<1>8. (GateMatchesProcess /\ MnGate)'
    BY <1>6, <1>7 DEF LifeType, CoordType, OpType, CopyType, MnPlain, GateMatchesProcess, MnGate,
       MnFresh, ResumeEnd, Return, TaskAfter, OpAfter
<1>9. (MnFresh /\ MnHeld /\ MnServes)'
    BY <1>6, <1>7 DEF LifeType, CoordType, OpType, CopyType, MnPlain, MnGate, MnFresh, MnHeld,
       MnServes, ResumeEnd, Return, TaskAfter, OpAfter
<1>10. MnStill'
    BY <1>6, <1>7 DEF LifeType, CoordType, OpType, CopyType, MnPlain, MnGate, MnServes, MnStill,
       ResumeEnd, Return, TaskAfter, OpAfter
<1>11. op' = op /\ (task' = task \/ task' = "none" \/ (task = "resume" /\ task' = "finish") \/ (task = "freeze" /\ task' = "frozen"))
    BY DEF OpType, CoordType, ResumeEnd, Return, TaskAfter, OpAfter
<1>12. UNCHANGED <<staged, cut, copied>> /\ (lifted => lifted')
    BY DEF LifeType, CoordType, OpType, CopyType, MnPlain, ResumeEnd
<1>13. MnCopied'
    BY <1>11, <1>12 DEF MnPlain, MnCopied
<1> QED BY <1>6, <1>8, <1>9, <1>10, <1>13

LEMMA MnResumeFailKeeps == MnInv /\ ResumeFail => MnInv'
<1> SUFFICES ASSUME MnInv, ResumeFail PROVE MnInv'
    OBVIOUS
<1> USE MntAssumption DEF MnInv, MnTypes, MnPublished, MnCopying, States, Callers, Terminal, Free, lifeVars, copyVars, fileVars
<1>1. life' \in LifeType
    BY MnFails DEF MnReasons, ResumeFail, Return, TaskAfter, OpAfter
<1>2. coord' \in CoordType
    BY DEF CoordType, ResumeFail, GateFail, Transition, Return, TaskAfter, OpAfter
<1>3. op' \in OpType
    BY DEF OpType, MnPlain, ResumeFail, GateFail, Transition, Return, TaskAfter, OpAfter
<1>4. CopyType'
    BY DEF CopyType, ResumeFail, GateFail, Transition, Return, TaskAfter, OpAfter
<1>5. MnPlain'
    BY DEF MnPlain, LifeType, CoordType, ResumeFail, GateFail, Transition, Return, TaskAfter,
       OpAfter
<1>6. MnTypes'
    BY <1>1, <1>2, <1>3, <1>4, <1>5
<1>7. life'.state = "failed" /\ life'.epoch = life.epoch
    BY DEF LifeType, ResumeFail, GateFail, Transition, Return, TaskAfter, OpAfter
<1>8. (GateMatchesProcess /\ MnGate)'
    BY <1>6, <1>7 DEF LifeType, CoordType, OpType, CopyType, MnPlain, GateMatchesProcess, MnGate,
       MnFresh, ResumeFail, Return, TaskAfter, OpAfter
<1>9. (MnFresh /\ MnHeld /\ MnServes)'
    BY <1>6, <1>7 DEF LifeType, CoordType, OpType, CopyType, MnPlain, MnGate, MnFresh, MnHeld,
       MnServes, ResumeFail, Return, TaskAfter, OpAfter
<1>10. MnStill'
    BY <1>6, <1>7 DEF LifeType, CoordType, OpType, CopyType, MnPlain, MnGate, MnServes, MnStill,
       ResumeFail, Return, TaskAfter, OpAfter
<1>11. /\ task' \in {task, "none"}
      /\ (op' = op \/ op'.phase \in {"failed", "recovery_required"})
    BY DEF OpType, CoordType, ResumeFail, Return, TaskAfter, OpAfter
<1>12. UNCHANGED <<staged, cut, copied>> /\ (lifted => lifted')
    BY DEF LifeType, CoordType, OpType, CopyType, MnPlain, ResumeFail
<1>13. MnCopied'
    BY <1>11, <1>12 DEF MnPlain, MnCopied
<1> QED BY <1>6, <1>8, <1>9, <1>10, <1>13

LEMMA MnAdminFreezeKeeps == MnInv /\ AdminFreeze => MnInv'
<1> SUFFICES ASSUME MnInv, AdminFreeze PROVE MnInv'
    OBVIOUS
<1> USE MntAssumption DEF MnInv, MnTypes, MnPublished, MnCopying, States, Callers, Terminal, Free, lifeVars, copyVars, fileVars
<1>1. MnTypes'
    BY DEF LifeType, CoordType, OpType, CopyType, MnPlain, AdminFreeze, FreezeBegin, MayFreeze
<1>2. (GateMatchesProcess /\ MnGate)'
    BY <1>1 DEF LifeType, CoordType, OpType, CopyType, MnPlain, GateMatchesProcess, MnGate,
       MnFresh, AdminFreeze, FreezeBegin, MayFreeze
<1>3. (MnFresh /\ MnHeld /\ MnServes)'
    BY <1>1 DEF LifeType, CoordType, OpType, CopyType, MnPlain, MnGate, MnFresh, MnHeld, MnServes,
       AdminFreeze, FreezeBegin, MayFreeze
<1>4. (MnStill /\ MnCopied)'
    BY <1>1 DEF LifeType, CoordType, OpType, CopyType, MnPlain, GateMatchesProcess, MnGate,
       MnFresh, MnServes, MnStill, MnCopied, AdminFreeze, FreezeBegin, MayFreeze
<1> QED BY <1>1, <1>2, <1>3, <1>4

LEMMA MnAdminResumeKeeps == MnInv /\ AdminResume => MnInv'
<1> SUFFICES ASSUME MnInv, AdminResume PROVE MnInv'
    OBVIOUS
<1> USE MntAssumption DEF MnInv, MnTypes, MnPublished, MnCopying, States, Callers, Terminal, Free, lifeVars, copyVars, fileVars
<1>1. life' \in LifeType
    BY DEF LifeType, CoordType, MnPlain, AdminResume, ResumeBegin, MayResume, Reopen, Transition
<1>2. coord' \in CoordType
    BY DEF CoordType, AdminResume, ResumeBegin, MayResume, Reopen, Transition
<1>3. op' \in OpType
    BY DEF OpType, MnPlain, AdminResume, ResumeBegin, MayResume, Reopen, Transition
<1>4. CopyType'
    BY DEF CopyType, AdminResume, ResumeBegin, MayResume, Reopen, Transition
<1>5. MnPlain'
    BY DEF MnPlain, LifeType, CoordType, AdminResume, ResumeBegin, MayResume, Reopen, Transition
<1>6. MnTypes'
    BY <1>1, <1>2, <1>3, <1>4, <1>5
<1>7. (GateMatchesProcess /\ MnGate)'
    BY <1>6 DEF LifeType, CoordType, OpType, CopyType, MnPlain, GateMatchesProcess, MnGate,
       MnFresh, AdminResume, ResumeBegin, MayResume, Reopen, Transition
<1>8. (MnFresh /\ MnHeld /\ MnServes)'
    BY <1>6 DEF LifeType, CoordType, OpType, CopyType, MnPlain, MnGate, MnFresh, MnHeld, MnServes,
       AdminResume, ResumeBegin, MayResume, Reopen, Transition
<1>9. (MnStill /\ MnCopied)'
    BY <1>6 DEF LifeType, CoordType, OpType, CopyType, MnPlain, GateMatchesProcess, MnGate,
       MnFresh, MnServes, MnStill, MnCopied, AdminResume, ResumeBegin, MayResume, Reopen, Transition
<1> QED BY <1>6, <1>7, <1>8, <1>9

LEMMA MnBackupCreateKeeps == MnInv /\ (\E kind \in {"manual", "automatic"} : BackupCreate(kind)) => MnInv'
<1> SUFFICES ASSUME MnInv, (\E kind \in {"manual", "automatic"} : BackupCreate(kind)) PROVE MnInv'
    OBVIOUS
<1> USE MntAssumption DEF MnInv, MnTypes, MnPublished, MnCopying, States, Callers, Terminal, Free, lifeVars, copyVars, fileVars
<1>1. life' \in LifeType
    BY DEF LifeType, CoordType, MnPlain, BackupCreate
<1>2. coord' \in CoordType
    BY DEF CoordType, BackupCreate
<1>3. op' \in OpType
    BY DEF OpType, MnPlain, BackupCreate
<1>4. CopyType'
    BY DEF CopyType, BackupCreate
<1>5. MnPlain'
    BY DEF MnPlain, LifeType, CoordType, BackupCreate
<1>6. MnTypes'
    BY <1>1, <1>2, <1>3, <1>4, <1>5
<1>7. (GateMatchesProcess /\ MnGate)'
    BY <1>6 DEF LifeType, CoordType, OpType, CopyType, MnPlain, GateMatchesProcess, MnGate,
       MnFresh, BackupCreate
<1>8. (MnFresh /\ MnHeld /\ MnServes)'
    BY <1>6 DEF LifeType, CoordType, OpType, CopyType, MnPlain, MnGate, MnFresh, MnHeld, MnServes,
       BackupCreate
<1>9. (MnStill /\ MnCopied)'
    BY <1>6 DEF LifeType, CoordType, OpType, CopyType, MnPlain, GateMatchesProcess, MnGate,
       MnFresh, MnServes, MnStill, MnCopied, BackupCreate
<1> QED BY <1>6, <1>7, <1>8, <1>9

LEMMA MnPrestageKeeps == MnInv /\ (\E m \in Members : Prestage(m)) => MnInv'
<1> SUFFICES ASSUME MnInv, (\E m \in Members : Prestage(m)) PROVE MnInv'
    OBVIOUS
<1> USE MntAssumption DEF MnInv, MnTypes, MnPublished, MnCopying, States, Callers, Terminal, Free, lifeVars, copyVars, fileVars
<1>1. MnTypes'
    BY DEF LifeType, CoordType, OpType, CopyType, MnPlain, Prestage
<1>2. (GateMatchesProcess /\ MnGate)'
    BY <1>1 DEF LifeType, CoordType, OpType, CopyType, MnPlain, GateMatchesProcess, MnGate,
       MnFresh, Prestage
<1>3. (MnFresh /\ MnHeld /\ MnServes)'
    BY <1>1 DEF LifeType, CoordType, OpType, CopyType, MnPlain, MnGate, MnFresh, MnHeld, MnServes,
       Prestage
<1>4. (MnStill /\ MnCopied)'
    BY <1>1 DEF LifeType, CoordType, OpType, CopyType, MnPlain, GateMatchesProcess, MnGate,
       MnFresh, MnServes, MnStill, MnCopied, Prestage
<1> QED BY <1>1, <1>2, <1>3, <1>4

LEMMA MnBackupFreezeKeeps == MnInv /\ BackupFreeze => MnInv'
<1> SUFFICES ASSUME MnInv, BackupFreeze PROVE MnInv'
    OBVIOUS
<1> USE MntAssumption DEF MnInv, MnTypes, MnPublished, MnCopying, States, Callers, Terminal, Free, lifeVars, copyVars, fileVars
<1>1. life' \in LifeType
    BY MnBegins DEF MnReasons, BackupFreeze, MayFreeze
<1>2. coord' \in CoordType
    BY DEF CoordType, BackupFreeze, FreezeBegin, MayFreeze
<1>3. op' \in OpType
    BY DEF OpType, MnPlain, BackupFreeze, FreezeBegin, MayFreeze
<1>4. CopyType'
    BY DEF CopyType, BackupFreeze, FreezeBegin, MayFreeze
<1>5. MnPlain'
    BY DEF MnPlain, LifeType, CoordType, BackupFreeze, FreezeBegin, MayFreeze
<1>6. MnTypes'
    BY <1>1, <1>2, <1>3, <1>4, <1>5
<1>7. (GateMatchesProcess /\ MnGate)'
    BY <1>6 DEF LifeType, CoordType, OpType, CopyType, MnPlain, GateMatchesProcess, MnGate,
       MnFresh, BackupFreeze, FreezeBegin, MayFreeze
<1>8. (MnFresh /\ MnHeld /\ MnServes)'
    BY <1>6 DEF LifeType, CoordType, OpType, CopyType, MnPlain, MnGate, MnFresh, MnHeld, MnServes,
       BackupFreeze, FreezeBegin, MayFreeze
<1>9. (MnStill /\ MnCopied)'
    BY <1>6 DEF LifeType, CoordType, OpType, CopyType, MnPlain, GateMatchesProcess, MnGate,
       MnFresh, MnServes, MnStill, MnCopied, BackupFreeze, FreezeBegin, MayFreeze
<1> QED BY <1>6, <1>7, <1>8, <1>9

LEMMA MnMarkSnapshottingKeeps == MnInv /\ MarkSnapshotting => MnInv'
<1> SUFFICES ASSUME MnInv, MarkSnapshotting PROVE MnInv'
    OBVIOUS
<1> USE MntAssumption DEF MnInv, MnTypes, MnPublished, MnCopying, States, Callers, Terminal, Free, lifeVars, copyVars, fileVars
<1>1. life' \in LifeType
    BY DEF LifeType, CoordType, MnPlain, MarkSnapshotting
<1>2. coord' \in CoordType
    BY DEF CoordType, MarkSnapshotting
<1>3. op' \in OpType
    BY DEF OpType, MnPlain, MarkSnapshotting
<1>4. CopyType'
    BY DEF CopyType, MarkSnapshotting
<1>5. MnPlain'
    BY DEF MnPlain, LifeType, CoordType, MarkSnapshotting
<1>6. MnTypes'
    BY <1>1, <1>2, <1>3, <1>4, <1>5
<1>7. (GateMatchesProcess /\ MnGate)'
    BY <1>6 DEF LifeType, CoordType, OpType, CopyType, MnPlain, GateMatchesProcess, MnGate,
       MnFresh, MarkSnapshotting
<1>8. (MnFresh /\ MnHeld /\ MnServes)'
    BY <1>6 DEF LifeType, CoordType, OpType, CopyType, MnPlain, MnGate, MnFresh, MnHeld, MnServes,
       MarkSnapshotting
<1>9. (MnStill /\ MnCopied)'
    BY <1>6 DEF LifeType, CoordType, OpType, CopyType, MnPlain, GateMatchesProcess, MnGate,
       MnFresh, MnServes, MnStill, MnCopied, MarkSnapshotting
<1> QED BY <1>6, <1>7, <1>8, <1>9

LEMMA MnStageMemberKeeps == MnInv /\ (\E m \in Members : StageMember(m)) => MnInv'
<1> SUFFICES ASSUME MnInv, (\E m \in Members : StageMember(m)) PROVE MnInv'
    OBVIOUS
<1> USE MntAssumption DEF MnInv, MnTypes, MnPublished, MnCopying, States, Callers, Terminal, Free, lifeVars, copyVars, fileVars
<1>1. MnTypes'
    BY DEF LifeType, CoordType, OpType, CopyType, MnPlain, StageMember
<1>2. (GateMatchesProcess /\ MnGate)'
    BY <1>1 DEF LifeType, CoordType, OpType, CopyType, MnPlain, GateMatchesProcess, MnGate,
       MnFresh, StageMember
<1>3. (MnFresh /\ MnHeld /\ MnServes)'
    BY <1>1 DEF LifeType, CoordType, OpType, CopyType, MnPlain, MnGate, MnFresh, MnHeld, MnServes,
       StageMember
<1>4. (MnStill /\ MnCopied)'
    BY <1>1 DEF LifeType, CoordType, OpType, CopyType, MnPlain, GateMatchesProcess, MnGate,
       MnFresh, MnServes, MnStill, MnCopied, StageMember
<1> QED BY <1>1, <1>2, <1>3, <1>4

LEMMA MnPublishKeeps == MnInv /\ Publish => MnInv'
<1> SUFFICES ASSUME MnInv, Publish PROVE MnInv'
    OBVIOUS
<1> USE MntAssumption DEF MnInv, MnTypes, MnPublished, MnCopying, States, Callers, Terminal, Free, lifeVars, copyVars, fileVars
<1>1. life' \in LifeType
    BY DEF LifeType, CoordType, MnPlain, Publish
<1>2. coord' \in CoordType
    BY DEF CoordType, Publish
<1>3. op' \in OpType
    BY DEF OpType, MnPlain, Publish
<1>4. CopyType'
    BY DEF CopyType, Publish
<1>5. MnPlain'
    BY DEF MnPlain, LifeType, CoordType, Publish
<1>6. MnTypes'
    BY <1>1, <1>2, <1>3, <1>4, <1>5
<1>7. (GateMatchesProcess /\ MnGate)'
    BY <1>6 DEF LifeType, CoordType, OpType, CopyType, MnPlain, GateMatchesProcess, MnGate,
       MnFresh, Publish
<1>8. (MnFresh /\ MnHeld /\ MnServes)'
    BY <1>6 DEF LifeType, CoordType, OpType, CopyType, MnPlain, MnGate, MnFresh, MnHeld, MnServes,
       Publish
<1>9. (MnStill /\ MnCopied)'
    BY <1>6 DEF LifeType, CoordType, OpType, CopyType, MnPlain, GateMatchesProcess, MnGate,
       MnFresh, MnServes, MnStill, MnCopied, Publish
<1> QED BY <1>6, <1>7, <1>8, <1>9

LEMMA MnStageFailKeeps == MnInv /\ StageFail => MnInv'
<1> SUFFICES ASSUME MnInv, StageFail PROVE MnInv'
    OBVIOUS
<1> USE MntAssumption DEF MnInv, MnTypes, MnPublished, MnCopying, States, Callers, Terminal, Free, lifeVars, copyVars, fileVars
<1>1. life' \in LifeType
    BY MnFails DEF MnReasons, StageFail
<1>2. coord' \in CoordType
    BY DEF CoordType, StageFail, GateFail, Transition
<1>3. op' \in OpType
    BY DEF OpType, MnPlain, StageFail, GateFail, Transition
<1>4. CopyType'
    BY DEF CopyType, StageFail, GateFail, Transition
<1>5. MnPlain'
    BY DEF MnPlain, LifeType, CoordType, StageFail, GateFail, Transition
<1>6. MnTypes'
    BY <1>1, <1>2, <1>3, <1>4, <1>5
<1>7. life'.state = "failed" /\ life'.epoch = life.epoch
    BY DEF LifeType, StageFail, GateFail, Transition
<1>8. (GateMatchesProcess /\ MnGate)'
    BY <1>6, <1>7 DEF LifeType, CoordType, OpType, CopyType, MnPlain, GateMatchesProcess, MnGate,
       MnFresh, StageFail
<1>9. (MnFresh /\ MnHeld /\ MnServes)'
    BY <1>6, <1>7 DEF LifeType, CoordType, OpType, CopyType, MnPlain, MnGate, MnFresh, MnHeld,
       MnServes, StageFail
<1>10. MnStill'
    BY <1>6, <1>7 DEF LifeType, CoordType, OpType, CopyType, MnPlain, MnGate, MnServes, MnStill,
       StageFail
<1>11. MnCopied'
    BY <1>6, <1>7 DEF LifeType, CoordType, OpType, CopyType, MnPlain, MnServes, MnStill, MnCopied,
       StageFail
<1> QED BY <1>6, <1>8, <1>9, <1>10, <1>11

LEMMA MnBackupResumeKeeps == MnInv /\ BackupResume => MnInv'
<1> SUFFICES ASSUME MnInv, BackupResume PROVE MnInv'
    OBVIOUS
<1> USE MntAssumption DEF MnInv, MnTypes, MnPublished, MnCopying, States, Callers, Terminal, Free, lifeVars, copyVars, fileVars
<1>1. life' \in LifeType
    BY MnMoves DEF MnReasons, BackupResume, ResumeBegin, MayResume, Reopen, TaskAfter, OpAfter
<1>2. coord' \in CoordType
    BY DEF CoordType, BackupResume, ResumeBegin, MayResume, Reopen, Transition, TaskAfter, OpAfter
<1>3. op' \in OpType
    BY DEF OpType, MnPlain, BackupResume, ResumeBegin, MayResume, Reopen, Transition, TaskAfter,
       OpAfter
<1>4. CopyType'
    BY DEF CopyType, BackupResume, ResumeBegin, MayResume, Reopen, Transition, TaskAfter, OpAfter
<1>5. MnPlain'
    BY DEF MnPlain, LifeType, CoordType, BackupResume, ResumeBegin, MayResume, Reopen, Transition,
       TaskAfter, OpAfter
<1>6. MnTypes'
    BY <1>1, <1>2, <1>3, <1>4, <1>5
<1>7. \/ life' = life /\ UNCHANGED <<active, coord>>
      \/ /\ life'.state = "resuming" /\ life'.epoch = life.epoch /\ active' = {"maintenance"}
         /\ coord' = [pc |-> "requiesce", who |-> "backup"] /\ UNCHANGED <<op, task>> /\ life.state # "running"
    BY DEF LifeType, BackupResume, ResumeBegin, MayResume, Reopen, Transition, TaskAfter, OpAfter
<1>8. (GateMatchesProcess /\ MnGate)'
    BY <1>6, <1>7 DEF LifeType, CoordType, OpType, CopyType, MnPlain, GateMatchesProcess, MnGate,
       MnFresh, BackupResume, TaskAfter, OpAfter
<1>9. (MnFresh /\ MnHeld /\ MnServes)'
    BY <1>6, <1>7 DEF LifeType, CoordType, OpType, CopyType, MnPlain, MnGate, MnFresh, MnHeld,
       MnServes, BackupResume, TaskAfter, OpAfter
<1>10. (MnStill /\ MnCopied)'
    BY <1>6, <1>7 DEF LifeType, CoordType, OpType, CopyType, MnPlain, GateMatchesProcess, MnGate,
       MnFresh, MnServes, MnStill, MnCopied, BackupResume, TaskAfter, OpAfter
<1> QED BY <1>6, <1>8, <1>9, <1>10

LEMMA MnFinishPendingKeeps == MnInv /\ FinishPending => MnInv'
<1> SUFFICES ASSUME MnInv, FinishPending PROVE MnInv'
    OBVIOUS
<1> USE MntAssumption DEF MnInv, MnTypes, MnPublished, MnCopying, States, Callers, Terminal, Free, lifeVars, copyVars, fileVars
<1>1. MnTypes'
    BY DEF LifeType, CoordType, OpType, CopyType, MnPlain, FinishPending
<1>2. (GateMatchesProcess /\ MnGate)'
    BY <1>1 DEF LifeType, CoordType, OpType, CopyType, MnPlain, GateMatchesProcess, MnGate,
       MnFresh, FinishPending
<1>3. (MnFresh /\ MnHeld /\ MnServes)'
    BY <1>1 DEF LifeType, CoordType, OpType, CopyType, MnPlain, MnGate, MnFresh, MnHeld, MnServes,
       FinishPending
<1>4. (MnStill /\ MnCopied)'
    BY <1>1 DEF LifeType, CoordType, OpType, CopyType, MnPlain, GateMatchesProcess, MnGate,
       MnFresh, MnServes, MnStill, MnCopied, FinishPending
<1> QED BY <1>1, <1>2, <1>3, <1>4

LEMMA MnFinishStepKeeps == MnInv /\ (\E ok \in BOOLEAN : FinishStep(ok)) => MnInv'
<1> SUFFICES ASSUME MnInv, (\E ok \in BOOLEAN : FinishStep(ok)) PROVE MnInv'
    OBVIOUS
<1> USE MntAssumption DEF MnInv, MnTypes, MnPublished, MnCopying, States, Callers, Terminal, Free, lifeVars, copyVars, fileVars
<1>1. life' \in LifeType
    BY DEF LifeType, CoordType, MnPlain, FinishStep
<1>2. coord' \in CoordType
    BY DEF CoordType, FinishStep
<1>3. op' \in OpType
    BY DEF OpType, MnPlain, FinishStep
<1>4. CopyType'
    BY DEF CopyType, FinishStep
<1>5. MnPlain'
    BY DEF MnPlain, LifeType, CoordType, FinishStep
<1>6. MnTypes'
    BY <1>1, <1>2, <1>3, <1>4, <1>5
<1>7. (GateMatchesProcess /\ MnGate)'
    BY <1>6 DEF LifeType, CoordType, OpType, CopyType, MnPlain, GateMatchesProcess, MnGate,
       MnFresh, FinishStep
<1>8. (MnFresh /\ MnHeld /\ MnServes)'
    BY <1>6 DEF LifeType, CoordType, OpType, CopyType, MnPlain, MnGate, MnFresh, MnHeld, MnServes,
       FinishStep
<1>9. (MnStill /\ MnCopied)'
    BY <1>6 DEF LifeType, CoordType, OpType, CopyType, MnPlain, GateMatchesProcess, MnGate,
       MnFresh, MnServes, MnStill, MnCopied, FinishStep
<1> QED BY <1>6, <1>7, <1>8, <1>9

LEMMA MnStopRequestKeeps == MnInv /\ StopRequest => MnInv'
<1> SUFFICES ASSUME MnInv, StopRequest PROVE MnInv'
    OBVIOUS
<1> USE MntAssumption DEF MnInv, MnTypes, MnPublished, MnCopying, States, Callers, Terminal, Free, lifeVars, copyVars, fileVars
<1>1. MnTypes'
    BY DEF LifeType, CoordType, OpType, CopyType, MnPlain, StopRequest
<1>2. (GateMatchesProcess /\ MnGate)'
    BY <1>1 DEF LifeType, CoordType, OpType, CopyType, MnPlain, GateMatchesProcess, MnGate,
       MnFresh, StopRequest
<1>3. (MnFresh /\ MnHeld /\ MnServes)'
    BY <1>1 DEF LifeType, CoordType, OpType, CopyType, MnPlain, MnGate, MnFresh, MnHeld, MnServes,
       StopRequest
<1>4. (MnStill /\ MnCopied)'
    BY <1>1 DEF LifeType, CoordType, OpType, CopyType, MnPlain, GateMatchesProcess, MnGate,
       MnFresh, MnServes, MnStill, MnCopied, StopRequest
<1> QED BY <1>1, <1>2, <1>3, <1>4

LEMMA MnControlRequestKeeps == MnInv /\ ControlRequest => MnInv'
<1> SUFFICES ASSUME MnInv, ControlRequest PROVE MnInv'
    OBVIOUS
<1> USE MntAssumption DEF MnInv, MnTypes, MnPublished, MnCopying, States, Callers, Terminal, Free, lifeVars, copyVars, fileVars
<1>1. life' \in LifeType
    BY MnBegins DEF MnReasons, ControlRequest, MayFreeze, BackupInProgress
<1>2. coord' \in CoordType
    BY DEF CoordType, ControlRequest, FreezeBegin, MayFreeze, BackupInProgress
<1>3. op' \in OpType
    BY DEF OpType, MnPlain, ControlRequest, FreezeBegin, MayFreeze, BackupInProgress
<1>4. CopyType'
    BY DEF CopyType, ControlRequest, FreezeBegin, MayFreeze, BackupInProgress
<1>5. MnPlain'
    BY DEF MnPlain, LifeType, CoordType, ControlRequest, FreezeBegin, MayFreeze, BackupInProgress
<1>6. MnTypes'
    BY <1>1, <1>2, <1>3, <1>4, <1>5
<1>7. (GateMatchesProcess /\ MnGate)'
    BY <1>6 DEF LifeType, CoordType, OpType, CopyType, MnPlain, GateMatchesProcess, MnGate,
       MnFresh, ControlRequest, FreezeBegin, MayFreeze, BackupInProgress
<1>8. (MnFresh /\ MnHeld /\ MnServes)'
    BY <1>6 DEF LifeType, CoordType, OpType, CopyType, MnPlain, MnGate, MnFresh, MnHeld, MnServes,
       ControlRequest, FreezeBegin, MayFreeze, BackupInProgress
<1>9. (MnStill /\ MnCopied)'
    BY <1>6 DEF LifeType, CoordType, OpType, CopyType, MnPlain, GateMatchesProcess, MnGate,
       MnFresh, MnServes, MnStill, MnCopied, ControlRequest, FreezeBegin, MayFreeze,
       BackupInProgress
<1> QED BY <1>6, <1>7, <1>8, <1>9

LEMMA MnServeEndsKeeps == MnInv /\ ServeEnds => MnInv'
<1> SUFFICES ASSUME MnInv, ServeEnds PROVE MnInv'
    OBVIOUS
<1> USE MntAssumption DEF MnInv, MnTypes, MnPublished, MnCopying, States, Callers, Terminal, Free, lifeVars, copyVars, fileVars
<1>1. MnTypes'
    BY DEF LifeType, CoordType, OpType, CopyType, MnPlain, ServeEnds
<1>2. (GateMatchesProcess /\ MnGate)'
    BY <1>1 DEF LifeType, CoordType, OpType, CopyType, MnPlain, GateMatchesProcess, MnGate,
       MnFresh, ServeEnds
<1>3. (MnFresh /\ MnHeld /\ MnServes)'
    BY <1>1 DEF LifeType, CoordType, OpType, CopyType, MnPlain, MnGate, MnFresh, MnHeld, MnServes,
       ServeEnds
<1>4. (MnStill /\ MnCopied)'
    BY <1>1 DEF LifeType, CoordType, OpType, CopyType, MnPlain, GateMatchesProcess, MnGate,
       MnFresh, MnServes, MnStill, MnCopied, ServeEnds
<1> QED BY <1>1, <1>2, <1>3, <1>4

LEMMA MnExitKeeps == MnInv /\ Exit => MnInv'
<1> SUFFICES ASSUME MnInv, Exit PROVE MnInv'
    OBVIOUS
<1> USE MntAssumption DEF MnInv, MnTypes, MnPublished, MnCopying, States, Callers, Terminal, Free, lifeVars, copyVars, fileVars
<1>1. life' \in LifeType
    BY DEF LifeType, CoordType, MnPlain, Exit, Gone
<1>2. coord' \in CoordType
    BY DEF CoordType, Exit, Gone
<1>3. op' \in OpType
    BY DEF OpType, MnPlain, Exit, Gone
<1>4. CopyType'
    BY DEF CopyType, Exit, Gone
<1>5. MnPlain'
    BY DEF MnPlain, LifeType, CoordType, Exit, Gone
<1>6. MnTypes'
    BY <1>1, <1>2, <1>3, <1>4, <1>5
<1>7. (GateMatchesProcess /\ MnGate)'
    BY <1>6 DEF LifeType, CoordType, OpType, CopyType, MnPlain, GateMatchesProcess, MnGate,
       MnFresh, Exit, Gone
<1>8. (MnFresh /\ MnHeld /\ MnServes)'
    BY <1>6 DEF LifeType, CoordType, OpType, CopyType, MnPlain, MnGate, MnFresh, MnHeld, MnServes,
       Exit, Gone
<1>9. (MnStill /\ MnCopied)'
    BY <1>6 DEF LifeType, CoordType, OpType, CopyType, MnPlain, GateMatchesProcess, MnGate,
       MnFresh, MnServes, MnStill, MnCopied, Exit, Gone
<1> QED BY <1>6, <1>7, <1>8, <1>9

LEMMA MnRestartRequestKeeps == MnInv /\ RestartRequest => MnInv'
<1> SUFFICES ASSUME MnInv, RestartRequest PROVE MnInv'
    OBVIOUS
<1> USE MntAssumption DEF MnInv, MnTypes, MnPublished, MnCopying, States, Callers, Terminal, Free, lifeVars, copyVars, fileVars
<1>1. MnTypes'
    BY DEF LifeType, CoordType, OpType, CopyType, MnPlain, RestartRequest
<1>2. (GateMatchesProcess /\ MnGate)'
    BY <1>1 DEF LifeType, CoordType, OpType, CopyType, MnPlain, GateMatchesProcess, MnGate,
       MnFresh, RestartRequest
<1>3. (MnFresh /\ MnHeld /\ MnServes)'
    BY <1>1 DEF LifeType, CoordType, OpType, CopyType, MnPlain, MnGate, MnFresh, MnHeld, MnServes,
       RestartRequest
<1>4. (MnStill /\ MnCopied)'
    BY <1>1 DEF LifeType, CoordType, OpType, CopyType, MnPlain, GateMatchesProcess, MnGate,
       MnFresh, MnServes, MnStill, MnCopied, RestartRequest
<1> QED BY <1>1, <1>2, <1>3, <1>4

LEMMA MnRestartFreezeKeeps == MnInv /\ RestartFreeze => MnInv'
<1> SUFFICES ASSUME MnInv, RestartFreeze PROVE MnInv'
    OBVIOUS
<1> USE MntAssumption DEF MnInv, MnTypes, MnPublished, MnCopying, States, Callers, Terminal, Free, lifeVars, copyVars, fileVars
<1>1. life' \in LifeType
    BY MnBegins DEF MnReasons, RestartFreeze, MayFreeze
<1>2. coord' \in CoordType
    BY DEF CoordType, RestartFreeze, FreezeBegin, MayFreeze
<1>3. op' \in OpType
    BY DEF OpType, MnPlain, RestartFreeze, FreezeBegin, MayFreeze
<1>4. CopyType'
    BY DEF CopyType, RestartFreeze, FreezeBegin, MayFreeze
<1>5. MnPlain'
    BY DEF MnPlain, LifeType, CoordType, RestartFreeze, FreezeBegin, MayFreeze
<1>6. MnTypes'
    BY <1>1, <1>2, <1>3, <1>4, <1>5
<1>7. (GateMatchesProcess /\ MnGate)'
    BY <1>6 DEF LifeType, CoordType, OpType, CopyType, MnPlain, GateMatchesProcess, MnGate,
       MnFresh, RestartFreeze, FreezeBegin, MayFreeze
<1>8. (MnFresh /\ MnHeld /\ MnServes)'
    BY <1>6 DEF LifeType, CoordType, OpType, CopyType, MnPlain, MnGate, MnFresh, MnHeld, MnServes,
       RestartFreeze, FreezeBegin, MayFreeze
<1>9. (MnStill /\ MnCopied)'
    BY <1>6 DEF LifeType, CoordType, OpType, CopyType, MnPlain, GateMatchesProcess, MnGate,
       MnFresh, MnServes, MnStill, MnCopied, RestartFreeze, FreezeBegin, MayFreeze
<1> QED BY <1>6, <1>7, <1>8, <1>9

LEMMA MnRestartTimeoutKeeps == MnInv /\ RestartTimeout => MnInv'
<1> SUFFICES ASSUME MnInv, RestartTimeout PROVE MnInv'
    OBVIOUS
<1> USE MntAssumption DEF MnInv, MnTypes, MnPublished, MnCopying, States, Callers, Terminal, Free, lifeVars, copyVars, fileVars
<1>1. MnTypes'
    BY DEF LifeType, CoordType, OpType, CopyType, MnPlain, RestartTimeout
<1>2. (GateMatchesProcess /\ MnGate)'
    BY <1>1 DEF LifeType, CoordType, OpType, CopyType, MnPlain, GateMatchesProcess, MnGate,
       MnFresh, RestartTimeout
<1>3. (MnFresh /\ MnHeld /\ MnServes)'
    BY <1>1 DEF LifeType, CoordType, OpType, CopyType, MnPlain, MnGate, MnFresh, MnHeld, MnServes,
       RestartTimeout
<1>4. (MnStill /\ MnCopied)'
    BY <1>1 DEF LifeType, CoordType, OpType, CopyType, MnPlain, GateMatchesProcess, MnGate,
       MnFresh, MnServes, MnStill, MnCopied, RestartTimeout
<1> QED BY <1>1, <1>2, <1>3, <1>4

LEMMA MnSpawnHelperKeeps == MnInv /\ SpawnHelper => MnInv'
<1> SUFFICES ASSUME MnInv, SpawnHelper PROVE MnInv'
    OBVIOUS
<1> USE MntAssumption DEF MnInv, MnTypes, MnPublished, MnCopying, States, Callers, Terminal, Free, lifeVars, copyVars, fileVars
<1>1. MnTypes'
    BY DEF LifeType, CoordType, OpType, CopyType, MnPlain, SpawnHelper
<1>2. (GateMatchesProcess /\ MnGate)'
    BY <1>1 DEF LifeType, CoordType, OpType, CopyType, MnPlain, GateMatchesProcess, MnGate,
       MnFresh, SpawnHelper
<1>3. (MnFresh /\ MnHeld /\ MnServes)'
    BY <1>1 DEF LifeType, CoordType, OpType, CopyType, MnPlain, MnGate, MnFresh, MnHeld, MnServes,
       SpawnHelper
<1>4. (MnStill /\ MnCopied)'
    BY <1>1 DEF LifeType, CoordType, OpType, CopyType, MnPlain, GateMatchesProcess, MnGate,
       MnFresh, MnServes, MnStill, MnCopied, SpawnHelper
<1> QED BY <1>1, <1>2, <1>3, <1>4

LEMMA MnSpawnFailsKeeps == MnInv /\ SpawnFails => MnInv'
<1> SUFFICES ASSUME MnInv, SpawnFails PROVE MnInv'
    OBVIOUS
<1> USE MntAssumption DEF MnInv, MnTypes, MnPublished, MnCopying, States, Callers, Terminal, Free, lifeVars, copyVars, fileVars
<1>1. life' \in LifeType
    BY DEF LifeType, CoordType, MnPlain, SpawnFails, MayResume, Reopen, Transition
<1>2. coord' \in CoordType
    BY DEF CoordType, SpawnFails, MayResume, Reopen, Transition
<1>3. op' \in OpType
    BY DEF OpType, MnPlain, SpawnFails, MayResume, Reopen, Transition
<1>4. CopyType'
    BY DEF CopyType, SpawnFails, MayResume, Reopen, Transition
<1>5. MnPlain'
    BY DEF MnPlain, LifeType, CoordType, SpawnFails, MayResume, Reopen, Transition
<1>6. MnTypes'
    BY <1>1, <1>2, <1>3, <1>4, <1>5
<1>7. (GateMatchesProcess /\ MnGate)'
    BY <1>6 DEF LifeType, CoordType, OpType, CopyType, MnPlain, GateMatchesProcess, MnGate,
       MnFresh, SpawnFails, MayResume, Reopen, Transition
<1>8. (MnFresh /\ MnHeld /\ MnServes)'
    BY <1>6 DEF LifeType, CoordType, OpType, CopyType, MnPlain, MnGate, MnFresh, MnHeld, MnServes,
       SpawnFails, MayResume, Reopen, Transition
<1>9. (MnStill /\ MnCopied)'
    BY <1>6 DEF LifeType, CoordType, OpType, CopyType, MnPlain, GateMatchesProcess, MnGate,
       MnFresh, MnServes, MnStill, MnCopied, SpawnFails, MayResume, Reopen, Transition
<1> QED BY <1>6, <1>7, <1>8, <1>9

LEMMA MnHelperStartsKeeps == MnInv /\ HelperStarts => MnInv'
<1> SUFFICES ASSUME MnInv, HelperStarts PROVE MnInv'
    OBVIOUS
<1> USE MntAssumption DEF MnInv, MnTypes, MnPublished, MnCopying, States, Callers, Terminal, Free, lifeVars, copyVars, fileVars
<1>1. MnTypes'
    BY DEF LifeType, CoordType, OpType, CopyType, MnPlain, HelperStarts
<1>2. (GateMatchesProcess /\ MnGate)'
    BY <1>1 DEF LifeType, CoordType, OpType, CopyType, MnPlain, GateMatchesProcess, MnGate,
       MnFresh, HelperStarts
<1>3. (MnFresh /\ MnHeld /\ MnServes)'
    BY <1>1 DEF LifeType, CoordType, OpType, CopyType, MnPlain, MnGate, MnFresh, MnHeld, MnServes,
       HelperStarts
<1>4. (MnStill /\ MnCopied)'
    BY <1>1 DEF LifeType, CoordType, OpType, CopyType, MnPlain, GateMatchesProcess, MnGate,
       MnFresh, MnServes, MnStill, MnCopied, HelperStarts
<1> QED BY <1>1, <1>2, <1>3, <1>4

LEMMA MnHelperChecksKeeps == MnInv /\ HelperChecks => MnInv'
<1> SUFFICES ASSUME MnInv, HelperChecks PROVE MnInv'
    OBVIOUS
<1> USE MntAssumption DEF MnInv, MnTypes, MnPublished, MnCopying, States, Callers, Terminal, Free, lifeVars, copyVars, fileVars
<1>1. MnTypes'
    BY DEF LifeType, CoordType, OpType, CopyType, MnPlain, HelperChecks
<1>2. (GateMatchesProcess /\ MnGate)'
    BY <1>1 DEF LifeType, CoordType, OpType, CopyType, MnPlain, GateMatchesProcess, MnGate,
       MnFresh, HelperChecks
<1>3. (MnFresh /\ MnHeld /\ MnServes)'
    BY <1>1 DEF LifeType, CoordType, OpType, CopyType, MnPlain, MnGate, MnFresh, MnHeld, MnServes,
       HelperChecks
<1>4. (MnStill /\ MnCopied)'
    BY <1>1 DEF LifeType, CoordType, OpType, CopyType, MnPlain, GateMatchesProcess, MnGate,
       MnFresh, MnServes, MnStill, MnCopied, HelperChecks
<1> QED BY <1>1, <1>2, <1>3, <1>4

LEMMA MnDeathKeeps == MnInv /\ Death => MnInv'
<1> SUFFICES ASSUME MnInv, Death PROVE MnInv'
    OBVIOUS
<1> USE MntAssumption DEF MnInv, MnTypes, MnPublished, MnCopying, States, Callers, Terminal, Free, lifeVars, copyVars, fileVars
<1>1. life' \in LifeType
    BY DEF LifeType, CoordType, MnPlain, Death, Gone
<1>2. coord' \in CoordType
    BY DEF CoordType, Death, Gone
<1>3. op' \in OpType
    BY DEF OpType, MnPlain, Death, Gone
<1>4. CopyType'
    BY DEF CopyType, Death, Gone
<1>5. MnPlain'
    BY DEF MnPlain, LifeType, CoordType, Death, Gone
<1>6. MnTypes'
    BY <1>1, <1>2, <1>3, <1>4, <1>5
<1>7. (GateMatchesProcess /\ MnGate)'
    BY <1>6 DEF LifeType, CoordType, OpType, CopyType, MnPlain, GateMatchesProcess, MnGate,
       MnFresh, Death, Gone
<1>8. (MnFresh /\ MnHeld /\ MnServes)'
    BY <1>6 DEF LifeType, CoordType, OpType, CopyType, MnPlain, MnGate, MnFresh, MnHeld, MnServes,
       Death, Gone
<1>9. (MnStill /\ MnCopied)'
    BY <1>6 DEF LifeType, CoordType, OpType, CopyType, MnPlain, GateMatchesProcess, MnGate,
       MnFresh, MnServes, MnStill, MnCopied, Death, Gone
<1> QED BY <1>6, <1>7, <1>8, <1>9

LEMMA MnStartKeeps == MnInv /\ Start => MnInv'
<1> SUFFICES ASSUME MnInv, Start PROVE MnInv'
    OBVIOUS
<1> USE MntAssumption DEF MnInv, MnTypes, MnPublished, MnCopying, States, Callers, Terminal, Free, lifeVars, copyVars, fileVars
<1>1. MnTypes'
    BY DEF LifeType, CoordType, OpType, CopyType, MnPlain, Start
<1>2. (GateMatchesProcess /\ MnGate)'
    BY <1>1 DEF LifeType, CoordType, OpType, CopyType, MnPlain, GateMatchesProcess, MnGate,
       MnFresh, Start
<1>3. (MnFresh /\ MnHeld /\ MnServes)'
    BY <1>1 DEF LifeType, CoordType, OpType, CopyType, MnPlain, MnGate, MnFresh, MnHeld, MnServes,
       Start
<1>4. (MnStill /\ MnCopied)'
    BY <1>1 DEF LifeType, CoordType, OpType, CopyType, MnPlain, GateMatchesProcess, MnGate,
       MnFresh, MnServes, MnStill, MnCopied, Start
<1> QED BY <1>1, <1>2, <1>3, <1>4

LEMMA MnBootResumeKeeps == MnInv /\ BootResume => MnInv'
<1> SUFFICES ASSUME MnInv, BootResume PROVE MnInv'
    OBVIOUS
<1> USE MntAssumption DEF MnInv, MnTypes, MnPublished, MnCopying, States, Callers, Terminal, Free, lifeVars, copyVars, fileVars
<1>1. life' \in LifeType
    BY MnMoves DEF MnReasons, BootResume, ProvenStop
<1>2. coord' \in CoordType
    BY DEF CoordType, BootResume, ProvenStop, Transition
<1>3. op' \in OpType
    BY DEF OpType, MnPlain, BootResume, ProvenStop, Transition
<1>4. CopyType'
    BY DEF CopyType, BootResume, ProvenStop, Transition
<1>5. MnPlain'
    BY DEF MnPlain, LifeType, CoordType, BootResume, ProvenStop, Transition
<1>6. MnTypes'
    BY <1>1, <1>2, <1>3, <1>4, <1>5
<1>7. \/ life' = life /\ proc' = "recover"
      \/ /\ life'.state = "resuming" /\ life'.epoch = life.epoch /\ proc' = "opening"
         /\ life.state = "quiesced"
    BY DEF LifeType, BootResume, ProvenStop, Transition
<1>8. (GateMatchesProcess /\ MnGate)'
    BY <1>6, <1>7 DEF LifeType, CoordType, OpType, CopyType, MnPlain, GateMatchesProcess, MnGate,
       MnFresh, BootResume
<1>9. (MnFresh /\ MnHeld /\ MnServes)'
    BY <1>6, <1>7 DEF LifeType, CoordType, OpType, CopyType, MnPlain, MnGate, MnFresh, MnHeld,
       MnServes, BootResume
<1>10. (MnStill /\ MnCopied)'
    BY <1>6, <1>7 DEF LifeType, CoordType, OpType, CopyType, MnPlain, GateMatchesProcess, MnGate,
       MnFresh, MnServes, MnStill, MnCopied, BootResume
<1> QED BY <1>6, <1>8, <1>9, <1>10

LEMMA MnBootResumedKeeps == MnInv /\ (\E ok \in BOOLEAN : BootResumed(ok)) => MnInv'
<1> SUFFICES ASSUME MnInv, (\E ok \in BOOLEAN : BootResumed(ok)) PROVE MnInv'
    OBVIOUS
<1> USE MntAssumption DEF MnInv, MnTypes, MnPublished, MnCopying, States, Callers, Terminal, Free, lifeVars, copyVars, fileVars
<1>1. life' \in LifeType
    BY MnMoves DEF MnReasons, BootResumed
<1>2. coord' \in CoordType
    BY DEF CoordType, BootResumed, Transition
<1>3. op' \in OpType
    BY DEF OpType, MnPlain, BootResumed, Transition
<1>4. CopyType'
    BY DEF CopyType, BootResumed, Transition
<1>5. MnPlain'
    BY DEF MnPlain, LifeType, CoordType, BootResumed, Transition
<1>6. MnTypes'
    BY <1>1, <1>2, <1>3, <1>4, <1>5
<1>7. life'.state \in {"running", "failed"} /\ life'.epoch = life.epoch /\ proc' # "opening"
    BY DEF LifeType, BootResumed, Transition
<1>8. (GateMatchesProcess /\ MnGate)'
    BY <1>6, <1>7 DEF LifeType, CoordType, OpType, CopyType, MnPlain, GateMatchesProcess, MnGate,
       MnFresh, BootResumed
<1>9. (MnFresh /\ MnHeld /\ MnServes)'
    BY <1>6, <1>7 DEF LifeType, CoordType, OpType, CopyType, MnPlain, MnGate, MnFresh, MnHeld,
       MnServes, BootResumed
<1>10. (MnStill /\ MnCopied)'
    BY <1>6, <1>7 DEF LifeType, CoordType, OpType, CopyType, MnPlain, GateMatchesProcess, MnGate,
       MnFresh, MnServes, MnStill, MnCopied, BootResumed
<1> QED BY <1>6, <1>8, <1>9, <1>10

LEMMA MnReconcileKeeps == MnInv /\ Reconcile => MnInv'
<1> SUFFICES ASSUME MnInv, Reconcile PROVE MnInv'
    OBVIOUS
<1> USE MntAssumption DEF MnInv, MnTypes, MnPublished, MnCopying, States, Callers, Terminal, Free, lifeVars, copyVars, fileVars
<1>1. life' \in LifeType
    BY MnMoves DEF MnReasons, Reconcile, Abandoned, BackupOwnsFreeze, Reopen
<1>2. coord' \in CoordType
    BY DEF CoordType, Reconcile, Abandoned, BackupOwnsFreeze, Reopen, Transition
<1>3. op' \in OpType
    BY DEF OpType, MnPlain, Reconcile, Abandoned, BackupOwnsFreeze, Reopen, Transition
<1>4. CopyType'
    BY DEF CopyType, Reconcile, Abandoned, BackupOwnsFreeze, Reopen, Transition
<1>5. MnPlain'
    BY DEF MnPlain, LifeType, CoordType, Reconcile, Abandoned, BackupOwnsFreeze, Reopen, Transition
<1>6. MnTypes'
    BY <1>1, <1>2, <1>3, <1>4, <1>5
<1>7. \/ life' = life /\ UNCHANGED <<active, coord>>
      \/ /\ life'.state = "resuming" /\ life'.epoch = life.epoch /\ active' = {"maintenance"}
         /\ coord' = [pc |-> "requiesce", who |-> "boot"] /\ life.state # "running"
    BY DEF LifeType, Reconcile, Abandoned, BackupOwnsFreeze, Reopen, Transition
<1>8. (GateMatchesProcess /\ MnGate)'
    BY <1>6, <1>7 DEF LifeType, CoordType, OpType, CopyType, MnPlain, GateMatchesProcess, MnGate,
       MnFresh, Reconcile, Abandoned
<1>9. (MnFresh /\ MnHeld /\ MnServes)'
    BY <1>6, <1>7 DEF LifeType, CoordType, OpType, CopyType, MnPlain, MnGate, MnFresh, MnHeld,
       MnServes, Reconcile, Abandoned
<1>10. (MnStill /\ MnCopied)'
    BY <1>6, <1>7 DEF LifeType, CoordType, OpType, CopyType, MnPlain, GateMatchesProcess, MnGate,
       MnFresh, MnServes, MnStill, MnCopied, Reconcile, Abandoned
<1> QED BY <1>6, <1>8, <1>9, <1>10

LEMMA MnStartServicesKeeps == MnInv /\ StartServices => MnInv'
<1> SUFFICES ASSUME MnInv, StartServices PROVE MnInv'
    OBVIOUS
<1> USE MntAssumption DEF MnInv, MnTypes, MnPublished, MnCopying, States, Callers, Terminal, Free, lifeVars, copyVars, fileVars
<1>1. life' \in LifeType
    BY MnMoves DEF MnReasons, StartServices
<1>2. coord' \in CoordType
    BY DEF CoordType, StartServices, Transition
<1>3. op' \in OpType
    BY DEF OpType, MnPlain, StartServices, Transition
<1>4. CopyType'
    BY DEF CopyType, StartServices, Transition
<1>5. MnPlain'
    BY DEF MnPlain, LifeType, CoordType, StartServices, Transition
<1>6. MnTypes'
    BY <1>1, <1>2, <1>3, <1>4, <1>5
<1>7. life' = life \/ (life'.state = "failed" /\ life'.epoch = life.epoch)
    BY DEF LifeType, StartServices, Transition
<1>8. (GateMatchesProcess /\ MnGate)'
    BY <1>6, <1>7 DEF LifeType, CoordType, OpType, CopyType, MnPlain, GateMatchesProcess, MnGate,
       MnFresh, StartServices
<1>9. (MnFresh /\ MnHeld /\ MnServes)'
    BY <1>6, <1>7 DEF LifeType, CoordType, OpType, CopyType, MnPlain, MnGate, MnFresh, MnHeld,
       MnServes, StartServices
<1>10. (MnStill /\ MnCopied)'
    BY <1>6, <1>7 DEF LifeType, CoordType, OpType, CopyType, MnPlain, GateMatchesProcess, MnGate,
       MnFresh, MnServes, MnStill, MnCopied, StartServices
<1> QED BY <1>6, <1>8, <1>9, <1>10

-----------------------------------------------------------------------------
(* Maintenance: the theorems.                                              *)

LEMMA MnInitial == MntInit => MnInv
<1> SUFFICES ASSUME MntInit PROVE MnInv
    OBVIOUS
<1> USE MntAssumption DEF MntInit, NoOp, Free, Callers, Terminal, States
<1>1. life \in LifeType /\ coord \in CoordType /\ op \in OpType
    BY DEF LifeType, CoordType, OpType
<1>2. CopyType
    BY DEF CopyType
<1>3. MnPlain
    BY DEF MnPlain
<1> QED BY <1>1, <1>2, <1>3 DEF MnInv, MnTypes, LifeType, GateMatchesProcess, MnGate, MnFresh, MnHeld, MnServes, MnStill, MnCopied,
               MnCopying, MnPublished

LEMMA MnStep == MnInv /\ [MntNext]_mntVars => MnInv'
<1> SUFFICES ASSUME MnInv, [MntNext]_mntVars PROVE MnInv'
    OBVIOUS
<1>1. CASE MntNext
  <2> HIDE DEF MnInv
  <2> QED BY <1>1, MnAdmitKeeps, MnMutateKeeps, MnLeaveKeeps, MnControlKeeps, MnDrainedKeeps, MnQuiesceOneKeeps, MnFlushKeeps, MnFreezeEndKeeps, MnFreezeFailKeeps, MnHealthPassedKeeps, MnReviveOneKeeps, MnResumeEndKeeps, MnResumeFailKeeps, MnAdminFreezeKeeps, MnAdminResumeKeeps, MnBackupCreateKeeps, MnPrestageKeeps, MnBackupFreezeKeeps, MnMarkSnapshottingKeeps, MnStageMemberKeeps, MnPublishKeeps, MnStageFailKeeps, MnBackupResumeKeeps, MnFinishPendingKeeps, MnFinishStepKeeps, MnStopRequestKeeps, MnControlRequestKeeps, MnServeEndsKeeps, MnExitKeeps, MnRestartRequestKeeps, MnRestartFreezeKeeps, MnRestartTimeoutKeeps, MnSpawnHelperKeeps, MnSpawnFailsKeeps, MnHelperStartsKeeps, MnHelperChecksKeeps, MnDeathKeeps, MnStartKeeps, MnBootResumeKeeps, MnBootResumedKeeps, MnReconcileKeeps, MnStartServicesKeeps DEF MntNext
<1>2. CASE UNCHANGED mntVars
    BY <1>2 DEF mntVars, MnInv, MnTypes, LifeType, CoordType, OpType, CopyType, MnPlain,
                GateMatchesProcess, MnGate, MnFresh, MnHeld, MnServes, MnStill, MnCopied
<1> QED BY <1>1, <1>2

LEMMA MnAlways == MntSpec => []MnInv
BY MnInitial, MnStep, PTL DEF MntSpec

LEMMA MnSoundNow == MnInv => MaintenanceSound
<1> SUFFICES ASSUME MnInv PROVE MaintenanceSound
    OBVIOUS
<1>1. MntTypeOK
    BY DEF MnInv, MnTypes, LifeType, CoordType, CopyType, MnPlain, MntTypeOK
<1>2. BackupIsCut
    BY DEF MnInv, MnCopied, BackupIsCut, MnPublished
<1> QED BY <1>1, <1>2 DEF MaintenanceSound, MnInv

\* Whatever freezes, resumes, backups, stops, restarts and deaths interleave (backup/maintenance.py,
\* backup/service.py): a QUIESCED gate has no active scope and only paused participants, a RUNNING
\* one only working participants, and a published backup is the home at the end of its own freeze.
THEOREM GateTellsTheTruth == MntSpec => []MaintenanceSound
BY MnAlways, MnSoundNow, PTL

\* A step that ends a complete freeze.
MnByOwner ==
    (life.state = "quiesced" /\ life'.state = "resuming") =>
          \/ coord'.who = "admin"
          \/ coord'.who = life.reason
          \/ coord'.who = "boot" /\ life.reason = "backup"
          \/ proc = "boot" /\ life.reason = "stop"

LEMMA MnOwned == MnInv /\ [MntNext]_mntVars => MnByOwner
<1> SUFFICES ASSUME MnInv, [MntNext]_mntVars, life.state = "quiesced", life'.state = "resuming"
             PROVE  MnByOwner
    BY DEF MnByOwner
<1> USE DEF Reopen, Transition, MnInv, MnTypes, LifeType, CoordType, MnGate, MnHeld
<1>1. CASE AdminResume
    BY <1>1 DEF AdminResume, ResumeBegin, MnByOwner
<1>2. CASE BackupResume
  <2>1. life.epoch = held /\ coord' = [pc |-> "requiesce", who |-> "backup"]
    BY <1>2 DEF BackupResume, ResumeBegin, MayResume
  <2> QED BY <2>1 DEF MnByOwner
<1>3. CASE SpawnFails
    BY <1>3 DEF SpawnFails, MnByOwner
<1>4. CASE BootResume
    BY <1>4 DEF BootResume, ProvenStop, MnByOwner
<1>5. CASE Reconcile
    BY <1>5 DEF Reconcile, BackupOwnsFreeze, MnByOwner
<1>6. CASE MnFreezeBegins
    BY <1>6 DEF MnFreezeBegins, AdminFreeze, BackupFreeze, ControlRequest, RestartFreeze, FreezeBegin
<1>7. CASE MnSettles
    BY <1>7 DEF MnSettles, FreezeEnd, FreezeFail, ResumeEnd, ResumeFail, StageFail, GateFail, Exit,
                BootResumed, StartServices
<1>8. CASE UNCHANGED life
    BY <1>8
<1>9. \/ AdminResume \/ BackupResume \/ SpawnFails \/ BootResume \/ Reconcile
      \/ MnFreezeBegins \/ MnSettles \/ UNCHANGED life
  <2>1. CASE UNCHANGED mntVars
    BY <2>1 DEF mntVars
  <2>2. CASE MntNext
    BY <2>2 DEF MntNext, MnFreezeBegins, MnSettles, lifeVars,
        Admit, Mutate, Leave, Control, Drained, QuiesceOne, Flush, HealthPassed, ReviveOne,
        BackupCreate,
        Prestage, MarkSnapshotting, StageMember, Publish, FinishPending, FinishStep, StopRequest,
        ServeEnds,
        RestartRequest, RestartTimeout, SpawnHelper, HelperStarts, HelperChecks, Death, Start
  <2> QED BY <2>1, <2>2
<1> QED BY <1>1, <1>2, <1>3, <1>4, <1>5, <1>6, <1>7, <1>8, <1>9

\* A complete freeze is ended by the administrator or by whoever asked for it: the epoch a backup
\* resumes is its own, a start undoes only a proven stop or a backup's freeze (backup/service.py,
\* reconcile_startup and _resume_after_snapshot; gateway/process.py).
THEOREM OwnersResume == MntSpec => OwnerResumes
<1>1. MnInv /\ [MntNext]_mntVars => [MnByOwner]_mntVars
    BY MnOwned
<1> QED BY MnAlways, <1>1, PTL DEF MntSpec, OwnerResumes, MnByOwner
=============================================================================
