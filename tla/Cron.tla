-------------------------------- MODULE Cron --------------------------------
(***************************************************************************)
(* Durable Cron: src/cron/{store,scheduler,service}.py and the Gateway     *)
(* side of a dispatch in src/gateway/application.py.                       *)
(*                                                                         *)
(* A tick materializes due occurrences as dispatches and moves the job's   *)
(* cursor, claims the oldest pending dispatch of every idle job, and binds *)
(* each claim to one Run.  Every store method is one SQLite transaction    *)
(* and none of them suspends, so nothing else runs in the process between  *)
(* the steps of one turn of the event loop; the process may still die      *)
(* between any two transactions.  A turn ends when RuntimePool.submit      *)
(* waits for the new task, and the next claim of the tick is submitted in  *)
(* a later turn: API requests and Runs get in between.                     *)
(*                                                                         *)
(* A restart reconciles the claimed and running dispatches before the      *)
(* RecoveryCoordinator adopts the Runs of the dead process.  An exception  *)
(* on the way makes GatewayApplication.start raise: the process exits.     *)
(*                                                                         *)
(* Dispatch d owns the Run whose id is derived from d; "the Run d" below.  *)
(***************************************************************************)
EXTENDS Naturals, Sequences, FiniteSets

CONSTANTS
  Jobs,           \* job ids
  Schedules,      \* the [kind, policy] a create or an edit of each job may ask for
  Capacity,       \* pending dispatches catch_up may pile up (10 in the code)
  Step,           \* intervals of a job that pass between two looks at the clock
  MaxTime,        \* bound of the model: the clock
  MaxIncidents    \* bound of the model: requests after a create, deaths of the
                  \* process and submissions that raise before create_run

None == "none"

ASSUME SchedulesAssumption ==
  Schedules \in [Jobs -> SUBSET [ kind : { "once", "interval" },
                                  policy : { "skip", "fire_once", "catch_up" } ]]
ASSUME JobsAssumption == IsFiniteSet(Jobs)
ASSUME BoundsAssumption ==
  /\ MaxTime \in Nat /\ MaxIncidents \in Nat
  /\ Capacity \in Nat \ {0} /\ Step \in Nat \ {0}

VARIABLES
  now,        \* the clock, in intervals of an interval job
  job,        \* cron_jobs
  disp,       \* cron_dispatches in created_at order
  run,        \* agent_states: the Run of each dispatch; "receipted": CREATED,
              \* and the CRON_DISPATCH Operation exists
  stale,      \* unfinished Runs that carry the epoch of a dead process
  live,       \* dispatches whose Run has a task in the pool
  phase,      \* "down", "reconcile", "recover" or "serving"
  turn,       \* what holds the event loop; "free": anything may run
  todo,       \* jobs the current loop of the turn has still to visit
  queue,      \* dispatches still to be submitted (or reconciled), in order
  refused,    \* some start of the Gateway raised
  incidents   \* how many there have been

store    == << job, disp >>
runs     == << run, stale >>
loop     == << turn, todo, queue >>
vars == << now, job, disp, run, stale, live, phase, turn, todo, queue,
           refused, incidents >>

NoJob == [ state |-> None, kind |-> None, policy |-> None,
           at |-> 0, next |-> 0, current |-> 0 ]

\* Every occurrence and every request makes at most one dispatch.
Ids       == 1..(Cardinality(Jobs) * MaxTime + MaxIncidents)
RunTerminal == { "ok", "failed" }
Unfinished == { d \in Ids : run[d] \notin RunTerminal \union { None } }
Settled   == { "succeeded", "failed", "cancelled", "skipped" }
Active    == { "claimed", "running" }
Stored    == 1..Len(disp)
Bound(d)  == disp[d].status \in { "running", "succeeded", "failed" }

Init ==
  /\ now = 0
  /\ job = [ j \in Jobs |-> NoJob ]
  /\ disp = << >>
  /\ run = [ d \in Ids |-> None ]
  /\ stale = {} /\ live = {}
  /\ phase = "serving" /\ turn = "free" /\ todo = {} /\ queue = << >>
  /\ refused = FALSE
  /\ incidents = 0

Clock ==
  /\ turn = "free" /\ now + Step <= MaxTime
  /\ now' = now + Step
  /\ UNCHANGED << store, runs, live, phase, loop, refused, incidents >>

-----------------------------------------------------------------------------
(* CronService: the requests of the API and of the cronjob Tool.           *)

\* _initial_next: raises for a one-time schedule that is not in the future.
Initial(kind, at) == IF kind = "once" THEN at ELSE now + 1
Future(kind, at)  == kind = "once" => at > now

\* Jobs are visited in the order of their names.
First(js) == CHOOSE j \in js : TRUE

Serving == phase = "serving" /\ turn = "free"

Incident == incidents < MaxIncidents /\ incidents' = incidents + 1

Asked ==
  /\ Serving /\ Incident
  /\ UNCHANGED << now, live, phase, refused >>

SaveJob(j, new) == job' = [ job EXCEPT ![j] = new ]

Create(j, s, at) ==
  /\ Serving /\ job[j].state = None /\ Future(s.kind, at)
  /\ SaveJob(j, [ state |-> "scheduled", kind |-> s.kind, policy |-> s.policy,
                  at |-> at, next |-> Initial(s.kind, at), current |-> 0 ])
  /\ UNCHANGED << now, disp, runs, live, phase, loop, refused, incidents >>

\* A new schedule restarts the cursor and revives a completed one-time job.
Edit(j, s, at) ==
  /\ Asked
  /\ job[j].state \notin { None, "deleted" } /\ Future(s.kind, at)
  /\ SaveJob(j, [ job[j] EXCEPT
       !.kind = s.kind, !.policy = s.policy, !.at = at,
       !.next = Initial(s.kind, at),
       !.state = IF job[j].kind = "once" /\ @ = "completed" THEN "scheduled" ELSE @ ])
  /\ UNCHANGED << disp, runs, loop >>

\* An edit without a schedule leaves the cursor alone.
EditPolicy(j, s) ==
  /\ Asked
  /\ job[j].state \notin { None, "deleted" }
  /\ SaveJob(j, [ job[j] EXCEPT !.policy = s.policy ])
  /\ UNCHANGED << disp, runs, loop >>

Pause(j) ==
  /\ Asked
  /\ job[j].state \in { "scheduled", "paused" }
  /\ SaveJob(j, [ job[j] EXCEPT !.state = "paused" ])
  /\ UNCHANGED << disp, runs, loop >>

Resume(j) ==
  /\ Asked
  /\ job[j].state \notin { None, "deleted" }
  /\ ~ (job[j].kind = "once" /\ job[j].state = "completed")
  /\ Future(job[j].kind, job[j].at)
  /\ SaveJob(j, [ job[j] EXCEPT !.state = "scheduled",
                                !.next = Initial(job[j].kind, job[j].at) ])
  /\ UNCHANGED << disp, runs, loop >>

New(j, trigger, at, status) ==
  [ job |-> j, trigger |-> trigger, at |-> at, status |-> status ]

Trigger(j) ==
  /\ Asked
  /\ job[j].state \notin { None, "deleted" } /\ job[j].current = 0
  /\ disp' = Append(disp, New(j, "run_now", 0, "pending"))
  /\ UNCHANGED << job, runs, loop >>

\* The state of the job is not looked at.
Retry(d) ==
  /\ Asked
  /\ d \in Stored /\ disp[d].status \in { "failed", "cancelled" }
  /\ disp' = Append(disp, New(disp[d].job, "retry", 0, "pending"))
  /\ UNCHANGED << job, runs, loop >>

\* remove() deletes the job, then cancels its unbound dispatches one by one.
Unbound(j) == { d \in Stored : disp[d].job = j /\ disp[d].status \in { "pending", "claimed" } }

Remove(j) ==
  /\ Asked
  /\ job[j].state \notin { None, "deleted" }
  /\ SaveJob(j, [ job[j] EXCEPT !.state = "deleted", !.next = 0 ])
  /\ turn' = "remove" /\ todo' = { j }
  /\ UNCHANGED << disp, runs, queue >>

cancel_unbound(j) ==
  /\ turn = "remove" /\ todo = { j }
  /\ \E d \in Unbound(j) :
       /\ \A e \in Unbound(j) : e <= d
       /\ disp' = [ disp EXCEPT ![d].status = "cancelled" ]
  /\ UNCHANGED << now, job, runs, live, phase, loop, refused, incidents >>

Removed(j) ==
  /\ turn = "remove" /\ todo = { j } /\ Unbound(j) = {}
  /\ turn' = "free" /\ todo' = {}
  /\ UNCHANGED << now, store, runs, live, phase, queue, refused, incidents >>

-----------------------------------------------------------------------------
(* CronScheduler: one tick.                                                *)

\* The occurrences from the cursor to now, and the cursor after them.
Due(j)   == IF job[j].kind = "once" THEN { job[j].next } ELSE job[j].next..now
Latest(j) == { IF job[j].kind = "once" THEN job[j].next ELSE now }
After(j) == IF job[j].kind = "once" THEN 0 ELSE now + 1
Pending(j) == Cardinality({ d \in Stored : disp[d].job = j /\ disp[d].status = "pending" })

\* An occurrence that overlaps the running cycle is only recorded, and so is
\* every occurrence of a job with the policy skip.
Skips(j) == job[j].current # 0 \/ job[j].policy = "skip"

\* What a tick materializes: catch_up takes as many of the oldest
\* occurrences as there is room for, the others coalesce into the latest.
Times(j) ==
  IF Skips(j) \/ job[j].policy # "catch_up" THEN Latest(j)
  ELSE { t \in Due(j) : t - job[j].next + Pending(j) < Capacity }

DueJobs ==
  { j \in Jobs : job[j].state = "scheduled" /\ job[j].next \in 1..now /\ Times(j) # {} }

\* The oldest pending dispatch of an idle job.  The unique index on the
\* active dispatch of a job refuses the claim while an older one is unbound.
ActiveOf(j) == { d \in Stored : disp[d].job = j /\ disp[d].status \in Active }

Claimable(j) ==
  { d \in Stored :
      /\ disp[d].job = j /\ disp[d].status = "pending"
      /\ job[j].state = "scheduled" /\ job[j].current = 0 /\ ActiveOf(j) = {}
      /\ \A e \in 1..(d - 1) : ~ (disp[e].job = j /\ disp[e].status = "pending") }

IdleJobs == { j \in Jobs : Claimable(j) # {} }

\* A tick with nothing due and nothing to claim only writes the heartbeat.
Tick ==
  /\ Serving /\ queue = << >>
  /\ DueJobs \union IdleJobs # {}
  /\ turn' = "materialize" /\ todo' = DueJobs
  /\ UNCHANGED << now, store, runs, live, phase, queue, refused, incidents >>

\* One dispatch per time of the set, oldest first.
Dispatched(j, times, status) ==
  [ i \in 1..Cardinality(times) |->
      New(j, "scheduled",
          CHOOSE t \in times : Cardinality({ u \in times : u < t }) = i - 1, status) ]

\* Slip: the cursor stays on the occurrence that was dispatched.
SlipMaterialize(j) ==
  /\ turn = "materialize" /\ todo # {} /\ j = First(todo)
  /\ todo' = todo \ { j }
  /\ disp' = disp \o Dispatched(j, Times(j), "pending")
  /\ SaveJob(j, [ job[j] EXCEPT !.next = now ])
  /\ UNCHANGED << now, runs, live, phase, turn, queue, refused, incidents >>

_materialize_due(j) ==
  LET next == IF Times(j) \in { Latest(j), Due(j) } THEN After(j)
              ELSE job[j].next + Cardinality(Times(j))
  IN  /\ turn = "materialize" /\ todo # {} /\ j = First(todo)
      /\ todo' = todo \ { j }
      /\ disp' = disp \o Dispatched(j, Times(j), IF Skips(j) THEN "skipped" ELSE "pending")
      /\ SaveJob(j, [ job[j] EXCEPT !.next = next ])
      /\ UNCHANGED << now, runs, live, phase, turn, queue, refused, incidents >>

Materialized ==
  /\ turn = "materialize" /\ todo = {}
  /\ turn' = "claim" /\ todo' = IdleJobs
  /\ UNCHANGED << now, store, runs, live, phase, queue, refused, incidents >>

claim_next(j) ==
  /\ turn = "claim" /\ todo # {} /\ j = First(todo)
  /\ todo' = todo \ { j }
  /\ \E d \in Claimable(j) :
       /\ disp' = [ disp EXCEPT ![d].status = "claimed" ]
       /\ queue' = Append(queue, d)
  /\ UNCHANGED << now, job, runs, live, phase, turn, refused, incidents >>

\* The first claim is submitted in the same turn.
Claimed ==
  /\ turn = "claim" /\ todo = {}
  /\ turn' = IF queue = << >> THEN "free" ELSE "create"
  /\ UNCHANGED << now, store, runs, live, phase, todo, queue, refused, incidents >>

-----------------------------------------------------------------------------
(* GatewayApplication._submit_cron_dispatch, for the head of the queue.    *)

Submitting(step) == turn = step /\ queue # << >>

\* The process forgets its tasks, and its epoch ends.
Die ==
  /\ phase' = "down" /\ turn' = "free" /\ todo' = {} /\ queue' = << >>
  /\ live' = {} /\ stale' = Unfinished

\* The scheduler keeps the claim and goes on with the next one in the same
\* turn; an exception while reconciling makes start() raise.
Raises ==
  \/ /\ phase = "serving"
     /\ queue' = Tail(queue)
     /\ turn' = IF Tail(queue) = << >> THEN "free" ELSE "create"
     /\ UNCHANGED << live, stale, phase, todo, refused >>
  \/ /\ phase = "reconcile"
     /\ Die
     /\ refused' = TRUE

\* Project, Generation or Session cannot be obtained: nothing was written.
SubmitFaults ==
  /\ Submitting("create") /\ Incident
  /\ disp[Head(queue)].status # "running"
  /\ Raises
  /\ UNCHANGED << now, store, run >>

\* A Run that exists is found by its idempotency key.
create_run ==
  /\ Submitting("create") /\ disp[Head(queue)].status # "running"
  /\ run' = [ run EXCEPT ![Head(queue)] = IF @ = None THEN "created" ELSE @ ]
  /\ turn' = "receipt"
  /\ UNCHANGED << now, store, stale, live, phase, todo, queue, refused, incidents >>

\* StateController.apply moves the Run on, unless it is past that state
\* already; it refuses a Run that carries the epoch of another process.
Apply(step, from, to, then) ==
  /\ Submitting(step)
  /\ \/ /\ run[Head(queue)] = from => Head(queue) \notin stale
        /\ run' = [ run EXCEPT ![Head(queue)] = IF @ = from THEN to ELSE @ ]
        /\ turn' = then
        /\ UNCHANGED << stale, live, phase, todo, queue, refused >>
     \/ /\ run[Head(queue)] = from /\ Head(queue) \in stale
        /\ Raises
        /\ UNCHANGED run
  /\ UNCHANGED << now, store, incidents >>

\* The Operation, its start and its completion are one step: once the
\* Operation exists none of the three is tried again.
BindReceipt == Apply("receipt", "created", "receipted", "queue")

QueueRun == Apply("queue", "receipted", "queued", "bind")

\* Slip: the claim is not looked at again.
SlipMayBind(d) == TRUE

\* bind_running: the claim must still be owned and the job not deleted.
MayBind(d) == disp[d].status = "claimed" /\ job[disp[d].job].state # "deleted"

bind_running ==
  LET d == Head(queue) IN
  /\ Submitting("bind")
  /\ \/ /\ MayBind(d)
        /\ disp' = [ disp EXCEPT ![d].status = "running" ]
        /\ SaveJob(disp[d].job, [ job[disp[d].job] EXCEPT !.current = d ])
        /\ turn' = "pool"
        /\ UNCHANGED << stale, live, phase, todo, queue, refused >>
     \/ /\ ~ MayBind(d)
        /\ Raises
        /\ UNCHANGED store
  /\ UNCHANGED << now, run, incidents >>

\* RuntimePool.submit refuses a Run of another epoch and otherwise waits for
\* the task to start: the turn ends.  (A terminal Run would be settled here:
\* no Run is terminal before it is bound.)
PoolSubmit ==
  /\ Submitting("pool")
  /\ \/ /\ Head(queue) \notin stale
        /\ live' = live \union { Head(queue) }
        /\ queue' = Tail(queue) /\ turn' = "free"
        /\ UNCHANGED << stale, phase, todo, refused >>
     \/ Head(queue) \in stale /\ Raises
  /\ UNCHANGED << now, store, run, incidents >>

SubmitNext ==
  /\ phase \in { "serving", "reconcile" } /\ turn = "free" /\ queue # << >>
  /\ turn' = "create"
  /\ UNCHANGED << now, store, runs, live, phase, todo, queue, refused, incidents >>

-----------------------------------------------------------------------------
(* Runs, as the RuntimePool drives them; RunLifecycle has the detail.      *)

\* The Runtime of a scheduled Run is built from the dispatch it is bound to.
StartRun(d) ==
  /\ turn = "free" /\ d \in live /\ run[d] = "queued" /\ Bound(d)
  /\ run' = [ run EXCEPT ![d] = "running" ]
  /\ UNCHANGED << now, store, stale, live, phase, loop, refused, incidents >>

FinishRun(d, end) ==
  /\ turn = "free" /\ d \in live
  /\ run[d] = "running" \/ (run[d] = "queued" /\ end = "failed")
  /\ run' = [ run EXCEPT ![d] = end ]
  /\ UNCHANGED << now, store, stale, live, phase, loop, refused, incidents >>

Outcome(d) == IF run[d] = "ok" THEN "succeeded" ELSE "failed"

\* Only a bound dispatch that is not settled yet.
mark_terminal(d) ==
  IF disp[d].status = "running"
    THEN /\ disp' = [ disp EXCEPT ![d].status = Outcome(d) ]
         /\ SaveJob(disp[d].job, [ job[disp[d].job] EXCEPT
              !.current = 0,
              !.state = IF job[disp[d].job].kind = "once" /\ run[d] = "ok"
                          THEN "completed" ELSE @ ])
    ELSE UNCHANGED store

\* The callback of _finish_run, after the Run is final or its finalization
\* gave up: a Run that is not completed counts as failed.
SettleRun(d) ==
  /\ turn = "free" /\ d \in live /\ run[d] \in RunTerminal
  /\ mark_terminal(d)
  /\ live' = live \ { d }
  /\ UNCHANGED << now, runs, phase, loop, refused, incidents >>

FinalizeGivesUp(d) ==
  /\ turn = "free" /\ d \in live /\ run[d] = "running"
  /\ run' = [ run EXCEPT ![d] = "recovery" ]
  /\ mark_terminal(d)
  /\ live' = live \ { d }
  /\ UNCHANGED << now, stale, phase, loop, refused, incidents >>

\* The effect of a Tool is unknown: the task ends without _finish_run.
ParkRun(d) ==
  /\ turn = "free" /\ d \in live /\ run[d] \in { "running", "recovery" }
  /\ run' = [ run EXCEPT ![d] = "recovery" ]
  /\ live' = live \ { d }
  /\ UNCHANGED << now, store, stale, phase, loop, refused, incidents >>

\* recover_run finalizes a parked Run; no callback reaches Cron.
RecoverRun(d, end) ==
  /\ Asked
  /\ run[d] = "recovery"
  /\ run' = [ run EXCEPT ![d] = end ]
  /\ UNCHANGED << store, stale, loop >>

-----------------------------------------------------------------------------
(* Death and restart of the Gateway.                                       *)

Crash ==
  /\ phase # "down" /\ Incident
  /\ Die
  /\ UNCHANGED << now, store, run, refused >>

\* The rows of a query with ORDER BY created_at.
InOrder(ds) ==
  { q \in [1..Cardinality(ds) -> ds] : \A i, k \in DOMAIN q : i < k => q[i] < q[k] }

\* _reconcile_cron_dispatches visits active_dispatches().
Start ==
  /\ phase = "down"
  /\ phase' = "reconcile" /\ turn' = "create"
  /\ queue' \in InOrder({ d \in Stored : disp[d].status \in Active })
  /\ UNCHANGED << now, store, runs, live, todo, refused, incidents >>

\* A claimed dispatch is submitted again; a running one is settled when its
\* Run is final.
ReconcileRunning ==
  /\ phase = "reconcile" /\ Submitting("create")
  /\ disp[Head(queue)].status = "running"
  /\ IF run[Head(queue)] \in RunTerminal THEN mark_terminal(Head(queue))
                                         ELSE UNCHANGED store
  /\ queue' = Tail(queue)
  /\ UNCHANGED << now, runs, live, phase, turn, todo, refused, incidents >>

Reconciled ==
  /\ phase = "reconcile" /\ queue = << >>
  /\ phase' = "recover" /\ turn' = "free"
  /\ queue' \in InOrder(Unfinished)
  /\ UNCHANGED << now, store, runs, live, todo, refused, incidents >>

\* RecoveryCoordinator.recover adopts the Run, then requeues it, parks it, or
\* finishes it without telling Cron.  It also visits Runs that reconcile has
\* just submitted, and raises when one of them is final by now.
Recover(d, to) ==
  /\ phase = "recover" /\ queue # << >> /\ d = Head(queue)
  /\ \/ /\ run[d] \notin RunTerminal
        /\ \/ run[d] = "recovery" /\ to = "recovery"
           \/ run[d] \in { "created", "receipted", "queued" } /\ to = "queued"
           \/ run[d] = "running" /\ d \notin live
              /\ to \in { "queued", "recovery" } \union RunTerminal
           \/ run[d] = "running" /\ d \in live
              /\ to \in { "running", "queued", "recovery" }
        /\ run' = [ run EXCEPT ![d] = to ]
        /\ stale' = stale \ { d }
        /\ live' = IF to = "queued" THEN live \union { d } ELSE live
        /\ queue' = Tail(queue)
        /\ UNCHANGED << phase, turn, todo, refused >>
     \/ /\ run[d] \in RunTerminal /\ to = run[d]
        /\ Die
        /\ refused' = TRUE
        /\ UNCHANGED run
  /\ UNCHANGED << now, store, incidents >>

Recovered ==
  /\ phase = "recover" /\ queue = << >>
  /\ phase' = "serving"
  /\ UNCHANGED << now, store, runs, live, loop, refused, incidents >>

-----------------------------------------------------------------------------
RunAts(s) == IF s.kind = "once" THEN (now + 1)..MaxTime ELSE { 0 }

Requested ==
  \/ \E j \in Jobs : \E s \in Schedules[j] : \E at \in RunAts(s) : Create(j, s, at) \/ Edit(j, s, at)
  \/ \E j \in Jobs : \E s \in Schedules[j] : EditPolicy(j, s)
  \/ \E j \in Jobs : Pause(j) \/ Resume(j) \/ Trigger(j) \/ Remove(j)
  \/ \E d \in Ids : Retry(d) \/ \E end \in RunTerminal : RecoverRun(d, end)

Scheduling ==
  \/ Materialized \/ Claimed
  \/ \E j \in Jobs : _materialize_due(j) \/ claim_next(j) \/ cancel_unbound(j) \/ Removed(j)

Submission ==
  create_run \/ BindReceipt \/ QueueRun \/ bind_running \/ PoolSubmit \/ SubmitNext

RunStep(d) ==
  \/ StartRun(d) \/ SettleRun(d) \/ FinalizeGivesUp(d) \/ ParkRun(d)
  \/ \E end \in RunTerminal : FinishRun(d, end)

Starting ==
  \/ Start \/ ReconcileRunning \/ Reconciled \/ Recovered
  \/ \E d \in Ids, to \in { "running", "queued", "recovery", "ok", "failed" } : Recover(d, to)

Next ==
  \/ Clock \/ Requested \/ Tick \/ Scheduling \/ Submission \/ SubmitFaults
  \/ \E d \in Ids : RunStep(d)
  \/ Crash \/ Starting

Spec == Init /\ [][Next]_vars

\* The event loop goes on, tasks end, and somebody starts the Gateway again.
Fairness ==
  /\ WF_vars(Scheduling) /\ WF_vars(Submission) /\ WF_vars(Starting)
  /\ \A d \in Ids : WF_vars(RunStep(d))

FairSpec == Spec /\ Fairness

-----------------------------------------------------------------------------
DispatchType ==
  [ job : Jobs, trigger : { "scheduled", "run_now", "retry" }, at : 0..MaxTime,
    status : { "pending" } \union Active \union Settled ]

(* The stored rows, the Runs and the loop have the values of the tables    *)
(* and of the code, and what the queue, the pool and the jobs point to     *)
(* exists.                                                                 *)
TypeOK ==
  /\ now \in 0..MaxTime
  /\ \A j \in Jobs :
       /\ job[j].state \in { None, "scheduled", "paused", "completed", "deleted" }
       /\ job[j].next \in 0..(MaxTime + 1)
       /\ job[j].current \in 0..Len(disp)
  /\ Len(disp) \in 0..Cardinality(Ids) /\ disp \in Seq(DispatchType)
  /\ run \in [Ids -> { None, "created", "receipted", "queued", "running", "recovery" } \union RunTerminal]
  /\ stale \subseteq Unfinished /\ live \subseteq Stored
  /\ phase \in { "down", "reconcile", "recover", "serving" }
  /\ turn \in { "free", "materialize", "claim", "remove",
                "create", "receipt", "queue", "bind", "pool" }
  /\ todo \subseteq Jobs /\ \A i \in 1..Len(queue) : queue[i] \in Stored
  /\ refused \in BOOLEAN

(* At most one Run of a job has a task, and the dispatch the job calls     *)
(* current is the one that is running: two cycles of a job never overlap,  *)
(* whatever is triggered, retried, paused, removed or restarted meanwhile. *)
OneCycleAtATime ==
  /\ \A d, e \in live : disp[d].job = disp[e].job => d = e
  /\ \A d \in Stored : disp[d].status = "running" <=> job[disp[d].job].current = d

(* No occurrence of a schedule is dispatched twice: every scheduled_for of *)
(* a job differs and lies before the job's cursor, so the unique index     *)
(* (job_id, scheduled_for) never makes a tick fail.                        *)
PeriodOnce ==
  \A d \in Stored : disp[d].trigger = "scheduled" =>
    /\ job[disp[d].job].next # 0 => disp[d].at < job[disp[d].job].next
    /\ \A e \in Stored \ { d } :
         disp[e].trigger = "scheduled" /\ disp[e].job = disp[d].job => disp[e].at # disp[d].at

(* A Run has a task only after its dispatch was bound to it or given up:   *)
(* no death between create_run, the receipt and bind_running makes a Run   *)
(* of a still unbound claim execute.                                       *)
BoundBeforeTask ==
  \A d \in live : disp[d].status \notin { "pending", "claimed" }

(* The dispatches of a job are its cycles: one at a time, one per period,  *)
(* each bound before it executes.                                          *)
CyclesSound == TypeOK /\ OneCycleAtATime /\ PeriodOnce /\ BoundBeforeTask

(* A dispatch that is settled keeps its status: a cancelled dispatch is    *)
(* not bound after all, and the outcome of a Run is projected once.        *)
SettledForGood ==
  [][ \A d \in Stored : disp[d].status \in Settled => disp'[d].status = disp[d].status ]_vars

=============================================================================
