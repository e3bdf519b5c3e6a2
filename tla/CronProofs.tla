----------------------------- MODULE CronProofs -----------------------------
(***************************************************************************)
(* Theorems about durable Cron: for any jobs, schedules, capacity and       *)
(* deaths of the process the dispatches of a job are its cycles, one at a   *)
(* time and one per period, and a settled dispatch stays settled.          *)
(***************************************************************************)
EXTENDS Cron, FiniteSetTheorems, TLAPS

-----------------------------------------------------------------------------
(* The inductive invariant. *)

JobRecord ==
  [ state : { None, "scheduled", "paused", "completed", "deleted" },
    kind : { None, "once", "interval" }, policy : { None, "skip", "fire_once",
    "catch_up" },
    at : 0..MaxTime, next : 0..(MaxTime + 1), current : Nat ]
RunStates == { None, "created", "receipted", "queued", "running", "recovery" } \union RunTerminal

CrTypes ==
  /\ now \in 0..MaxTime /\ incidents \in 0..MaxIncidents
  /\ job \in [Jobs -> JobRecord]
  /\ disp \in Seq(DispatchType)
  /\ run \in [Ids -> RunStates]
  /\ stale \subseteq Ids /\ live \subseteq Ids
  /\ todo \subseteq Jobs /\ queue \in Seq(Nat)
  /\ refused \in BOOLEAN

\* An occurrence lies in the past and before the cursor, and is the only one of its time.
Scheduled == { d \in Stored : disp[d].trigger = "scheduled" }
CrTimes ==
  /\ \A d \in Scheduled :
       /\ disp[d].at \in 1..now
       /\ job[disp[d].job].next # 0 => disp[d].at < job[disp[d].job].next
  /\ \A d, e \in Scheduled : disp[d].job = disp[e].job /\ disp[d].at = disp[e].at => d = e

\* Every other dispatch took a request.
Requests == Stored \ Scheduled
CrCount == Cardinality(Requests) <= incidents

\* What a job calls current is its running dispatch, and the other way round.
CrJobs ==
  /\ \A j \in Jobs : job[j].current # 0 =>
       /\ job[j].current \in Stored
       /\ disp[job[j].current].job = j /\ disp[job[j].current].status = "running"
  /\ \A d \in Stored :
       /\ job[disp[d].job].state # None
       /\ disp[d].status = "running" => job[disp[d].job].current = d

\* How far a Run is, by the status of its dispatch.
CrRuns ==
  /\ \A d \in Ids : run[d] # None => d \in Stored
  /\ \A d \in Stored :
       /\ disp[d].status \in { "pending", "skipped" } => run[d] = None
       /\ disp[d].status = "claimed" => run[d] \in { None, "created", "receipted", "queued" }
       /\ disp[d].status \in { "succeeded", "failed" } => run[d] \in { "recovery" } \union RunTerminal
       /\ disp[d].status = "cancelled" => run[d] \notin { "running", "recovery" }

\* A dispatch has its job for itself while it is claimed or running, and, cancelled
\* by the removal of the job, while its Run may still begin.
Queued(d) == \E i \in 1..Len(queue) : queue[i] = d
Engaged(d) ==
  \/ disp[d].status \in Active
  \/ d \in live
  \/ disp[d].status = "cancelled" /\ (run[d] # None \/ (phase = "serving" /\ Queued(d)))
CrOwners ==
  /\ \A d \in live : d \in Stored /\ disp[d].status \in { "running", "cancelled" }
  /\ \A d, e \in Stored : Engaged(d) /\ Engaged(e) /\ disp[d].job = disp[e].job => d = e
  /\ \A d \in Stored :
       Engaged(d) /\ disp[d].status = "cancelled" => job[disp[d].job].state = "deleted"

\* What the queue holds in each phase, and what each turn has in hand.
Submits == { "create", "receipt", "queue", "bind", "pool" }
CrQueue ==
  /\ phase \in { "down", "reconcile", "recover", "serving" }
  /\ turn \in { "free", "materialize", "claim", "remove" } \union Submits
  /\ \A i \in 1..Len(queue) : queue[i] \in Stored
  /\ \A i, k \in 1..Len(queue) : phase # "recover" /\ queue[i] = queue[k] => i = k
  /\ phase = "serving" =>
       \A i \in 1..Len(queue) :
         \/ disp[queue[i]].status \in { "claimed", "cancelled" }
         \/ i = 1 /\ turn = "pool"
  /\ phase = "reconcile" =>
       /\ \A i \in 1..Len(queue) : disp[queue[i]].status \in Active /\ queue[i] \notin live
       /\ \A d \in Stored : disp[d].status = "claimed" => Queued(d)
  /\ phase = "recover" => turn = "free" /\ \A d \in Stored : disp[d].status # "claimed"
  /\ phase = "down" => turn = "free" /\ queue = << >> /\ live = {}
  /\ turn \in { "materialize", "claim", "remove" } => phase = "serving"
  /\ turn = "pool" => queue # << >> /\ disp[queue[1]].status = "running"
  /\ turn = "materialize" => \A j \in todo : job[j].state # None /\ job[j].next \in 1..now
  /\ turn = "remove" => \A j \in todo : job[j].state = "deleted"

\* Whose epoch is over: recovery adopts them all before the Gateway serves.
CrStale ==
  /\ stale \subseteq Unfinished /\ stale \intersect live = {}
  /\ phase = "serving" => stale = {}
  /\ phase = "recover" => \A d \in stale : Queued(d)

CronInv ==
  /\ CrTypes /\ CrTimes /\ CrCount /\ CrJobs /\ CrRuns /\ CrOwners /\ CrQueue /\ CrStale

-----------------------------------------------------------------------------
(* Rows, and the times of a tick. *)

\* Scheduled rows have a job and a time each of their own, the others took a request each.
LEMMA UpTo ==
  ASSUME NEW n \in Nat
  PROVE  IsFiniteSet(1..n) /\ Cardinality(1..n) = n
<1>1. IsFiniteSet(1..n) /\ Cardinality(1..n) = IF 1 > n THEN 0 ELSE n - 1 + 1
  BY FS_Interval
<1> QED
  BY <1>1

LEMMA RowsFit ==
  ASSUME NEW rows \in Seq(DispatchType),
         \A d, e \in 1..Len(rows) :
           /\ rows[d].trigger = "scheduled" => rows[d].at \in 1..MaxTime
           /\ rows[d].trigger = "scheduled" /\ rows[e].trigger = "scheduled"
                /\ rows[d].job = rows[e].job /\ rows[d].at = rows[e].at => d = e,
         Cardinality({ d \in 1..Len(rows) : rows[d].trigger # "scheduled" }) <= MaxIncidents
  PROVE  Len(rows) <= Cardinality(Ids) /\ 1..Len(rows) \subseteq Ids
<1> DEFINE S == { d \in 1..Len(rows) : rows[d].trigger = "scheduled" }
           R == { d \in 1..Len(rows) : rows[d].trigger # "scheduled" }
           P == Jobs \X (1..MaxTime)
           f == [ d \in S |-> << rows[d].job, rows[d].at >> ]
<1>1. Len(rows) \in Nat /\ MaxTime \in Nat /\ MaxIncidents \in Nat
  BY BoundsAssumption
<1>2. IsFiniteSet(1..Len(rows)) /\ Cardinality(1..Len(rows)) = Len(rows)
  BY <1>1, UpTo
<1>3. IsFiniteSet(S) /\ IsFiniteSet(R)
  BY <1>2, FS_Subset
<1>4. IsFiniteSet(P) /\ Cardinality(P) = Cardinality(Jobs) * MaxTime
  <2>1. IsFiniteSet(1..MaxTime) /\ Cardinality(1..MaxTime) = MaxTime
    BY <1>1, UpTo
  <2> QED
    BY <2>1, JobsAssumption, FS_Product
<1>5. f \in Injection(S, P)
  <2>1. ASSUME NEW d \in S PROVE << rows[d].job, rows[d].at >> \in P
    <3>1. rows[d] \in DispatchType /\ rows[d].at \in 1..MaxTime
      OBVIOUS
    <3> QED
      BY <3>1 DEF DispatchType
  <2>2. ASSUME NEW d \in S, NEW e \in S, f[d] = f[e] PROVE d = e
    BY <2>2
  <2> QED
    BY <2>1, <2>2 DEF Injection, IsInjective
<1>6. Cardinality(S) <= Cardinality(Jobs) * MaxTime
  BY <1>4, <1>5, FS_Injection
<1>7. 1..Len(rows) = S \cup R /\ S \cap R = {}
  OBVIOUS
<1> HIDE DEF S, R, f
<1>9. Cardinality(S) \in Nat /\ Cardinality(R) \in Nat /\ Cardinality(Jobs) * MaxTime \in Nat
  BY <1>3, <1>4, FS_CardinalityType
<1>8. Len(rows) = Cardinality(S) + Cardinality(R)
  <2>1. Cardinality(S \cup R) = Cardinality(S) + Cardinality(R) - Cardinality(S \cap R)
    BY <1>3, FS_Union
  <2>2. Cardinality(S \cap R) = 0
    BY <1>7, FS_EmptySet
  <2>3. Len(rows) = Cardinality(S) + Cardinality(R) - 0
    BY <1>2, <1>7, <2>1, <2>2, Zenon
  <2> QED
    BY <1>9, <2>3
<1> DEFINE n == Cardinality(Jobs) * MaxTime
<1> HIDE DEF n
<1>10. Ids = 1..(n + MaxIncidents)
  BY DEF n, Ids
<1>12. n \in Nat /\ Cardinality(S) <= n
  BY <1>6, <1>9 DEF n
<1>14. Cardinality(R) <= MaxIncidents
  BY DEF R
<1>13. Len(rows) <= n + MaxIncidents
  BY ONLY <1>1, <1>8, <1>9, <1>12, <1>14
<1>11. Cardinality(Ids) = n + MaxIncidents
  BY <1>1, <1>10, <1>12, UpTo
<1> QED
  BY <1>1, <1>10, <1>11, <1>12, <1>13

LEMMA IntervalSize ==
  ASSUME NEW a \in Int, NEW b \in Int, a <= b + 1
  PROVE  Cardinality(a..b) = b - a + 1
<1>1. Cardinality(a..b) = IF a > b THEN 0 ELSE b - a + 1
  BY FS_Interval
<1> QED
  BY <1>1

LEMMA IntervalRows ==
  ASSUME NEW a \in Nat, NEW b \in Int, a <= b + 1, NEW j, NEW s
  PROVE  /\ Cardinality(a..b) = b - a + 1
         /\ Dispatched(j, a..b, s) =
              [ i \in 1..(b - a + 1) |-> New(j, "scheduled", a + i - 1, s) ]
<1>1. Cardinality(a..b) = b - a + 1
  BY IntervalSize
<1>2. ASSUME NEW i \in 1..(b - a + 1)
      PROVE  (CHOOSE t \in a..b : Cardinality({ u \in a..b : u < t }) = i - 1) = a + i - 1
  <2>1. ASSUME NEW t \in a..b PROVE Cardinality({ u \in a..b : u < t }) = t - a
    <3>1. { u \in a..b : u < t } = a..(t - 1)
      OBVIOUS
    <3>2. t - 1 \in Int /\ a \in Int /\ a <= (t - 1) + 1 /\ (t - 1) - a + 1 = t - a
      OBVIOUS
    <3>3. Cardinality(a..(t - 1)) = (t - 1) - a + 1
      BY <3>2, IntervalSize
    <3> QED
      BY <3>1, <3>2, <3>3, Zenon
  <2>2. a + i - 1 \in a..b /\ Cardinality({ u \in a..b : u < a + i - 1 }) = i - 1
    <3>1. a + i - 1 \in a..b
      OBVIOUS
    <3> QED
      BY <3>1, <2>1
  <2>3. \A t \in a..b : Cardinality({ u \in a..b : u < t }) = i - 1 => t = a + i - 1
    BY <2>1
  <2> QED
    BY <2>2, <2>3
<1> DEFINE At(i) == CHOOSE t \in a..b : Cardinality({ u \in a..b : u < t }) = i - 1
<1>3. Dispatched(j, a..b, s) =
        [ i \in 1..Cardinality(a..b) |-> New(j, "scheduled", At(i), s) ]
  BY DEF Dispatched
<1>4. \A i \in 1..(b - a + 1) : At(i) = a + i - 1
  BY <1>2
<1> HIDE DEF At
<1> QED
  BY <1>1, <1>3, <1>4

\* The occurrences of one job in a tick are an interval after its cursor.
LEMMA TimesShape ==
  ASSUME CrTypes, NEW j \in Jobs, job[j].next \in 1..now
  PROVE  \E a, b \in Nat :
           /\ Times(j) = a..b /\ a <= b + 1 /\ job[j].next <= a /\ b <= now
           /\ (IF Times(j) \in { Latest(j), Due(j) } THEN After(j)
               ELSE job[j].next + Cardinality(Times(j))) \in { 0 } \union ((b + 1)..(now + 1))
<1> DEFINE x == job[j].next
           p == Pending(j)
           next == IF Times(j) \in { Latest(j), Due(j) } THEN After(j)
                   ELSE x + Cardinality(Times(j))
<1>1. now \in Nat /\ x \in Nat /\ 1 <= x /\ x <= now /\ Capacity \in Nat
  BY BoundsAssumption DEF CrTypes
<1>2. p \in Nat
  <2>1. IsFiniteSet(Stored)
    BY FS_Interval DEF CrTypes, Stored
  <2> QED
    BY <2>1, FS_Subset, FS_CardinalityType DEF Pending
<1> HIDE DEF p, x
<1>3. CASE job[j].kind = "once"
  <2>1. Latest(j) = x..x /\ Due(j) = x..x /\ After(j) = 0
    BY <1>1, <1>3 DEF Latest, Due, After, x
  <2>2. CASE Times(j) = x..x
    <3>1. next = 0
      BY <2>1, <2>2
    <3> QED
      BY SMTT(30), <1>1, <2>2, <3>1 DEF x
  <2>3. CASE Times(j) = {}
    <3>1. Times(j) = x..(x - 1) /\ x - 1 \in Nat
      BY <1>1, <2>3
    <3>2. Times(j) \notin { Latest(j), Due(j) }
      BY <1>1, <2>1, <2>3
    <3>3. Cardinality(Times(j)) = 0
      BY <2>3, FS_EmptySet
    <3>4. next = x
      BY <1>1, <3>2, <3>3
    <3>5. x \in ((x - 1) + 1)..(now + 1)
      BY <1>1
    <3> QED
      BY <1>1, <3>1, <3>4, <3>5 DEF x
  <2>4. Times(j) \subseteq {x} /\ (Times(j) = {} \/ Times(j) = x..x)
    BY <1>1, <2>1 DEF Times, x
  <2> QED
    BY <2>2, <2>3, <2>4
<1>4. CASE job[j].kind # "once"
  <2>1. Latest(j) = now..now /\ Due(j) = x..now /\ After(j) = now + 1
    BY <1>1, <1>4 DEF Latest, Due, After, x
  <2>2. CASE Skips(j) \/ job[j].policy # "catch_up"
    <3>1. Times(j) = now..now
      BY <2>1, <2>2 DEF Times
    <3> QED
      BY <1>1, <2>1, <3>1 DEF x
  <2>3. CASE ~ (Skips(j) \/ job[j].policy # "catch_up")
    <3>1. Times(j) = { t \in x..now : t - x + p < Capacity }
      BY <2>1, <2>3 DEF Times, x, p
    <3>2. PICK b \in Nat : Times(j) = x..b /\ x <= b + 1 /\ b <= now
      <4>1. CASE p >= Capacity
        <5>1. Times(j) = x..(x - 1)
          BY <1>1, <1>2, <3>1, <4>1
        <5> QED
          BY <5>1, <1>1
      <4>2. CASE p < Capacity /\ x + Capacity - p - 1 <= now
        <5>1. Times(j) = x..(x + Capacity - p - 1)
          BY <1>1, <1>2, <3>1, <4>2
        <5> QED
          BY <5>1, <1>1, <1>2, <4>2
      <4>3. CASE p < Capacity /\ x + Capacity - p - 1 > now
        <5>1. Times(j) = x..now
          BY <1>1, <1>2, <3>1, <4>3
        <5> QED
          BY <5>1, <1>1
      <4> QED
        BY <4>1, <4>2, <4>3, <1>1, <1>2
    <3>3. CASE Times(j) \in { Latest(j), Due(j) }
      BY <1>1, <2>1, <3>2, <3>3 DEF x
    <3>4. CASE Times(j) \notin { Latest(j), Due(j) }
      <4>1. Cardinality(x..b) = b - x + 1
        BY <1>1, <3>2, IntervalSize
      <4>2. next = b + 1
        BY <1>1, <3>2, <3>4, <4>1
      <4> QED
        BY <1>1, <3>2, <4>2 DEF x
    <3> QED
      BY <3>3, <3>4
  <2> QED
    BY <2>2, <2>3
<1> QED
  BY <1>3, <1>4

-----------------------------------------------------------------------------
(* What steps leave alone. *)

SameRows ==
  /\ Len(disp') = Len(disp)
  /\ \A d \in Stored :
       /\ disp'[d].job = disp[d].job /\ disp'[d].at = disp[d].at
       /\ disp'[d].trigger = disp[d].trigger

LEMMA RowType ==
  ASSUME CrTypes, NEW d \in Stored
  PROVE  disp[d] \in DispatchType /\ disp[d].job \in Jobs /\ disp[d].at \in Nat
<1>1. disp[d] \in DispatchType
  BY DEF CrTypes, Stored
<1> QED
  BY <1>1, BoundsAssumption DEF DispatchType

LEMMA JobSet ==
  ASSUME CrTypes, NEW j \in Jobs, NEW r \in JobRecord, SaveJob(j, r)
  PROVE  /\ job' \in [Jobs -> JobRecord] /\ job'[j] = r
         /\ \A i \in Jobs \ { j } : job'[i] = job[i]
BY DEF CrTypes, SaveJob

LEMMA JobType ==
  ASSUME CrTypes, NEW j \in Jobs
  PROVE  /\ job[j] \in JobRecord /\ job[j].next \in Nat /\ job[j].at \in 0..MaxTime
         /\ job[j].state \in { None, "scheduled", "paused", "completed", "deleted" }
         /\ job[j].kind \in { None, "once", "interval" }
         /\ job[j].policy \in { None, "skip", "fire_once", "catch_up" } /\ job[j].current \in Nat
<1>1. job[j] \in JobRecord
  BY DEF CrTypes
<1> QED
  BY <1>1, BoundsAssumption DEF JobRecord

LEMMA InitialFits ==
  ASSUME CrTypes, NEW kind, NEW at \in 0..MaxTime, Future(kind, at)
  PROVE  Initial(kind, at) \in 0..(MaxTime + 1) /\ Initial(kind, at) > now
BY BoundsAssumption DEF CrTypes, Future, Initial

LEMMA StoredRows ==
  ASSUME CronInv
  PROVE  /\ Stored \subseteq Ids /\ Len(disp) \in Nat /\ Len(disp) <= Cardinality(Ids)
         /\ \A d \in Stored : disp[d] \in DispatchType /\ disp[d].job \in Jobs
<1>1. /\ disp \in Seq(DispatchType) /\ now \in 0..MaxTime /\ incidents \in 0..MaxIncidents
  BY DEF CronInv, CrTypes
<1>2. Stored = 1..Len(disp) /\ Len(disp) \in Nat
  BY <1>1 DEF Stored
<1>3. \A d, e \in 1..Len(disp) :
        /\ disp[d].trigger = "scheduled" => disp[d].at \in 1..MaxTime
        /\ disp[d].trigger = "scheduled" /\ disp[e].trigger = "scheduled"
             /\ disp[d].job = disp[e].job /\ disp[d].at = disp[e].at => d = e
  BY <1>1, <1>2, BoundsAssumption DEF CronInv, CrTimes, Scheduled
<1>4. Cardinality({ d \in 1..Len(disp) : disp[d].trigger # "scheduled" }) <= MaxIncidents
  <2>1. Requests = { d \in 1..Len(disp) : disp[d].trigger # "scheduled" }
    BY <1>2 DEF Requests, Scheduled
  <2>2. IsFiniteSet(1..Len(disp))
    BY <1>2, UpTo
  <2>3. Cardinality(Requests) \in Nat
    BY <2>1, <2>2, FS_Subset, FS_CardinalityType
  <2> QED
    BY <1>1, <2>1, <2>3, BoundsAssumption DEF CronInv, CrCount
<1>5. 1..Len(disp) \subseteq Ids /\ Len(disp) <= Cardinality(Ids)
  BY <1>1, <1>3, <1>4, RowsFit
<1>6. \A d \in Stored : disp[d] \in DispatchType /\ disp[d].job \in Jobs
  BY RowType DEF CronInv
<1> QED
  BY <1>2, <1>5, <1>6

LEMMA CountKept ==
  ASSUME CrTypes, CrCount, SameRows, incidents' \in Nat, incidents' >= incidents
  PROVE  CrCount'
<1>1. Requests' = Requests
  BY DEF SameRows, Requests, Scheduled, Stored
<1>2. IsFiniteSet(Requests)
  BY UpTo, FS_Subset DEF CrTypes, Requests, Stored
<1>3. Cardinality(Requests) \in Nat /\ incidents \in Nat
  BY <1>2, FS_CardinalityType, BoundsAssumption DEF CrTypes
<1> QED
  BY <1>1, <1>3 DEF CrCount

LEMMA TimesKept ==
  ASSUME CrTypes, CrTimes, SameRows, now' \in Nat, now' >= now,
         \A j \in Jobs :
           job'[j].next \in Nat /\ (job'[j].next \in { 0, job[j].next } \/ job'[j].next > now)
  PROVE  CrTimes'
<1>1. Stored' = Stored /\ Scheduled' = Scheduled
  BY DEF SameRows, Scheduled, Stored
<1>2. now \in Nat
  BY BoundsAssumption DEF CrTypes
<1>3. ASSUME NEW d \in Scheduled
      PROVE  /\ disp'[d].at = disp[d].at /\ disp'[d].job = disp[d].job
             /\ disp[d].at \in 1..now /\ disp[d].job \in Jobs
  BY <1>3, RowType DEF SameRows, Scheduled, CrTimes
<1>4. ASSUME NEW d \in Scheduled, job'[disp[d].job].next # 0
      PROVE  disp[d].at < job'[disp[d].job].next
  <2>1. disp[d].job \in Jobs /\ disp[d].at \in 1..now
    BY <1>3
  <2>2. job[disp[d].job].next # 0 => disp[d].at < job[disp[d].job].next
    BY DEF CrTimes
  <2> QED
    BY <1>2, <1>4, <2>1, <2>2
<1>5. \A d, e \in Scheduled : disp[d].job = disp[e].job /\ disp[d].at = disp[e].at => d = e
  BY DEF CrTimes
<1> QED
  BY <1>1, <1>2, <1>3, <1>4, <1>5 DEF CrTimes

LEMMA JobsKept ==
  ASSUME CrTypes, CrJobs, disp' = disp,
         \A j \in Jobs : /\ job'[j].current = job[j].current
                         /\ job[j].state # None => job'[j].state # None
  PROVE  CrJobs'
<1>1. \A d \in Stored : disp[d].job \in Jobs
  BY RowType
<1>2. Stored' = Stored
  BY DEF Stored
<1> QED
  BY <1>1, <1>2 DEF CrJobs

Statuses == { "pending" } \union Active \union Settled

LEMMA StatusSet ==
  ASSUME CrTypes, NEW d \in Stored, NEW s \in Statuses,
  disp' = [ disp EXCEPT ![d].status = s ]
  PROVE  /\ disp' \in Seq(DispatchType) /\ SameRows /\ Stored' = Stored
         /\ disp'[d].status = s /\ \A e \in Stored : e # d => disp'[e] = disp[e]
<1>1. disp \in Seq(DispatchType) /\ d \in 1..Len(disp) /\ Len(disp) \in Nat
  BY DEF CrTypes, Stored
<1>2. disp[d] \in DispatchType
  BY <1>1
<1>3. [ disp[d] EXCEPT !.status = s ] \in DispatchType
  BY <1>2 DEF DispatchType, Statuses
<1>4. disp' = [ disp EXCEPT ![d] = [ disp[d] EXCEPT !.status = s ] ]
  OBVIOUS
<1>5. disp' \in Seq(DispatchType) /\ Len(disp') = Len(disp)
  BY <1>1, <1>3, <1>4
<1>6. disp'[d] = [ disp[d] EXCEPT !.status = s ] /\ \A e \in Stored : e # d => disp'[e] = disp[e]
  BY <1>1, <1>4 DEF Stored
<1> QED
  BY <1>2, <1>5, <1>6 DEF SameRows, Stored, DispatchType

-----------------------------------------------------------------------------
(* The queue. *)

LEMMA QueueTail ==
  ASSUME CrTypes, queue # << >>, queue' = Tail(queue)
  PROVE  /\ Head(queue) = queue[1] /\ 1 \in 1..Len(queue) /\ queue' \in Seq(Nat)
         /\ Len(queue') = Len(queue) - 1 /\ Len(queue) \in Nat
         /\ \A i \in 1..Len(queue') : i + 1 \in 1..Len(queue) /\ queue'[i] = queue[i + 1]
         /\ \A d : Queued(d)' => Queued(d)
         /\ \A d : Queued(d) => Queued(d)' \/ d = Head(queue)
<1>1. /\ Head(queue) = queue[1] /\ 1 \in 1..Len(queue) /\ queue' \in Seq(Nat)
      /\ Len(queue') = Len(queue) - 1 /\ Len(queue) \in Nat
      /\ \A i \in 1..Len(queue') : i + 1 \in 1..Len(queue) /\ queue'[i] = queue[i + 1]
  BY DEF CrTypes
<1>2. ASSUME NEW d, Queued(d)' PROVE Queued(d)
  BY <1>1, <1>2 DEF Queued
<1>3. ASSUME NEW d, Queued(d), d # queue[1] PROVE Queued(d)'
  <2>1. PICK i \in 1..Len(queue) : queue[i] = d
    BY <1>3 DEF Queued
  <2>2. i - 1 \in 1..Len(queue') /\ queue'[i - 1] = d
    BY <1>1, <1>3, <2>1
  <2> QED
    BY <2>2 DEF Queued
<1> QED
  BY <1>1, <1>2, <1>3

LEMMA QueueAppend ==
  ASSUME CrTypes, NEW d \in Nat, queue' = Append(queue, d)
  PROVE  /\ queue' \in Seq(Nat) /\ Len(queue) \in Nat
         /\ Len(queue') = Len(queue) + 1 /\ queue'[Len(queue) + 1] = d
         /\ \A i \in 1..Len(queue) : queue'[i] = queue[i]
         /\ \A e : Queued(e)' => Queued(e) \/ e = d
<1>1. /\ queue' \in Seq(Nat) /\ Len(queue) \in Nat
      /\ Len(queue') = Len(queue) + 1 /\ queue'[Len(queue) + 1] = d
      /\ \A i \in 1..Len(queue) : queue'[i] = queue[i]
  BY DEF CrTypes
<1>2. ASSUME NEW e, Queued(e)' PROVE Queued(e) \/ e = d
  <2>1. PICK i \in 1..Len(queue') : queue'[i] = e
    BY <1>2 DEF Queued
  <2>2. CASE i = Len(queue) + 1
    BY <1>1, <2>1, <2>2
  <2>3. CASE i # Len(queue) + 1
    <3>1. i \in 1..Len(queue)
      BY <1>1, <2>1, <2>3
    <3> QED
      BY <1>1, <2>1, <3>1 DEF Queued
  <2> QED
    BY <2>2, <2>3
<1> QED
  BY <1>1, <1>2

\* A query returns every row once.
LEMMA OrderedRows ==
  ASSUME NEW ds \in SUBSET Nat, IsFiniteSet(ds), NEW q \in InOrder(ds)
  PROVE  /\ q \in Seq(Nat)
         /\ \A i \in 1..Len(q) : q[i] \in ds
         /\ \A i, k \in 1..Len(q) : q[i] = q[k] => i = k
         /\ \A d \in ds : \E i \in 1..Len(q) : q[i] = d
<1> DEFINE n == Cardinality(ds)
<1>1. n \in Nat /\ IsFiniteSet(1..n) /\ Cardinality(1..n) = n
  BY FS_CardinalityType, UpTo
<1>2. q \in [1..n -> ds] /\ \A i, k \in 1..n : i < k => q[i] < q[k]
  BY DEF InOrder
<1> HIDE DEF n
<1>3. q \in Seq(Nat) /\ Len(q) = n
  <2>1. q \in [1..n -> Nat]
    BY <1>2
  <2> QED
    BY <1>1, <2>1
<1>4. \A i, k \in 1..n : q[i] = q[k] => i = k
  <2>1. ASSUME NEW i \in 1..n, NEW k \in 1..n, q[i] = q[k], i # k PROVE FALSE
    <3>1. i < k \/ k < i
      BY <1>1, <2>1
    <3>2. q[i] \in Nat /\ q[k] \in Nat
      BY <1>2
    <3> QED
      BY <1>2, <2>1, <3>1, <3>2
  <2> QED
    BY <2>1
<1>5. q \in Injection(1..n, ds)
  BY <1>2, <1>4 DEF Injection, IsInjective
<1>6. q \in Surjection(1..n, ds)
  BY <1>1, <1>5, FS_Injection DEF Bijection, n
<1>7. \A d \in ds : \E i \in 1..n : q[i] = d
  BY <1>6 DEF Surjection
<1> QED
  BY <1>2, <1>3, <1>4, <1>7

-----------------------------------------------------------------------------
(* Deaths and refusals. *)

LEMMA DieKeeps ==
  ASSUME CronInv, Die, UNCHANGED << now, job, disp, run >>,
         incidents' \in 0..MaxIncidents, incidents' >= incidents,
         refused' \in BOOLEAN
  PROVE  CronInv'
<1>a. /\ phase' = "down" /\ turn' = "free" /\ todo' = {} /\ queue' = << >>
      /\ live' = {} /\ stale' = Unfinished /\ now' = now /\ job' = job /\ disp' = disp /\ run' = run
      /\ incidents' \in Nat
  BY BoundsAssumption DEF Die
<1>b. Unfinished \subseteq Ids /\ Unfinished' = Unfinished
  BY <1>a DEF Unfinished
<1>1. CrTypes'
  BY <1>a, <1>b DEF CronInv, CrTypes
<1>2. CrTimes'
  BY <1>a DEF CronInv, CrTimes, Scheduled, Stored
<1>3. CrCount'
  BY <1>a, CountKept DEF CronInv, SameRows
<1>4. CrJobs'
  BY <1>a DEF CronInv, CrJobs, Stored
<1>5. CrRuns'
  BY <1>a DEF CronInv, CrRuns, Stored
<1>6. CrOwners'
  BY <1>a DEF CronInv, CrOwners, Engaged, Stored
<1>7. CrQueue'
  BY <1>a DEF CronInv, CrQueue
<1>8. CrStale'
  BY <1>a, <1>b DEF CronInv, CrStale
<1> QED
  BY <1>1, <1>2, <1>3, <1>4, <1>5, <1>6, <1>7, <1>8 DEF CronInv

LEMMA RaisesKeeps ==
  ASSUME CronInv, queue # << >>, turn \in Submits, Raises, UNCHANGED << now, job,
  disp, run >>,
         incidents' \in 0..MaxIncidents, incidents' >= incidents
  PROVE  CronInv'
<1>1. CASE phase = "reconcile"
  BY <1>1, DieKeeps DEF Raises
<1>2. CASE phase = "serving"
  <2>a. /\ queue' = Tail(queue) /\ turn' \in { "free", "create" } /\ phase' = phase
        /\ live' = live /\ stale' = stale /\ todo' = todo /\ refused' = refused
        /\ now' = now /\ job' = job /\ disp' = disp /\ run' = run /\ incidents' \in Nat
    BY <1>2, BoundsAssumption DEF Raises
  <2>b. /\ Head(queue) = queue[1] /\ 1 \in 1..Len(queue) /\ queue' \in Seq(Nat)
        /\ Len(queue') = Len(queue) - 1 /\ Len(queue) \in Nat
        /\ \A i \in 1..Len(queue') : i + 1 \in 1..Len(queue) /\ queue'[i] = queue[i + 1]
        /\ \A d : Queued(d)' => Queued(d)
    BY <2>a, QueueTail DEF CronInv
  <2>1. CrTypes'
    BY <2>a, <2>b DEF CronInv, CrTypes
  <2>2. CrTimes'
    BY <2>a DEF CronInv, CrTimes, Scheduled, Stored
  <2>3. CrCount'
    BY <2>a, CountKept DEF CronInv, SameRows
  <2>4. CrJobs'
    BY <2>a DEF CronInv, CrJobs, Stored
  <2>5. CrRuns'
    BY <2>a DEF CronInv, CrRuns, Stored
  <2>6. CrOwners'
    BY <2>a, <2>b DEF CronInv, CrOwners, Engaged, Stored
  <2>7. CrQueue'
    BY <1>2, <2>a, <2>b DEF CronInv, CrQueue, Stored, Submits
  <2>8. CrStale'
    BY <1>2, <2>a DEF CronInv, CrStale, Unfinished
  <2> QED
    BY <2>1, <2>2, <2>3, <2>4, <2>5, <2>6, <2>7, <2>8 DEF CronInv
<1> QED
  BY <1>1, <1>2 DEF Raises

-----------------------------------------------------------------------------
(* New rows. *)

LEMMA AppendRows ==
  ASSUME CrTypes, NEW new \in Seq(DispatchType), disp' = disp \o new
  PROVE  /\ disp' \in Seq(DispatchType) /\ Len(disp) \in Nat /\ Len(new) \in Nat
         /\ Len(disp') = Len(disp) + Len(new) /\ Stored \subseteq Stored'
         /\ \A d \in Stored : disp'[d] = disp[d]
         /\ \A d \in Stored' : d \notin Stored =>
              /\ d - Len(disp) \in 1..Len(new) /\ disp'[d] = new[d - Len(disp)]
              /\ disp'[d] \in DispatchType /\ disp'[d].job \in Jobs
<1>1. disp \in Seq(DispatchType)
  BY DEF CrTypes
<1>2. /\ disp' \in Seq(DispatchType) /\ Len(disp) \in Nat /\ Len(new) \in Nat
      /\ Len(disp') = Len(disp) + Len(new)
  BY <1>1
<1>3. Stored = 1..Len(disp) /\ Stored' = 1..(Len(disp) + Len(new))
  BY <1>2 DEF Stored
<1>4. \A d \in Stored : disp'[d] = disp[d]
  BY <1>1, <1>2, <1>3
<1>5. ASSUME NEW d \in Stored', d \notin Stored
      PROVE  /\ d - Len(disp) \in 1..Len(new) /\ disp'[d] = new[d - Len(disp)]
             /\ disp'[d] \in DispatchType /\ disp'[d].job \in Jobs
  <2>1. d \in Int /\ d > Len(disp) /\ d <= Len(disp) + Len(new)
    BY <1>2, <1>3, <1>5
  <2>2. d - Len(disp) \in 1..Len(new) /\ disp'[d] = new[d - Len(disp)]
    BY <1>1, <1>2, <2>1
  <2>3. new[d - Len(disp)] \in DispatchType
    BY <2>2
  <2> QED
    BY <2>2, <2>3 DEF DispatchType
<1> QED
  BY <1>2, <1>3, <1>4, <1>5

\* A row that is added is nobody's current dispatch and has no Run.
LEMMA RowsAdded ==
  ASSUME CronInv, NEW new \in Seq(DispatchType), disp' = disp \o new,
         \A i \in 1..Len(new) : /\ new[i].status \in { "pending", "skipped" }
                                /\ job[new[i].job].state # None,
         CrTimes', CrCount', now' \in 0..MaxTime, incidents' \in 0..MaxIncidents,
         UNCHANGED << run, live, stale, phase, queue >>,
         \A j \in Jobs : job'[j].current = job[j].current /\ job'[j].state = job[j].state
  PROVE  CrJobs' /\ CrRuns' /\ CrOwners' /\ CrStale'
<1>1. /\ disp' \in Seq(DispatchType) /\ Len(disp) \in Nat /\ Len(new) \in Nat
      /\ Len(disp') = Len(disp) + Len(new) /\ Stored \subseteq Stored'
      /\ \A d \in Stored : disp'[d] = disp[d]
      /\ \A d \in Stored' : d \notin Stored =>
           /\ d - Len(disp) \in 1..Len(new) /\ disp'[d] = new[d - Len(disp)]
           /\ disp'[d] \in DispatchType /\ disp'[d].job \in Jobs
  BY AppendRows DEF CronInv
<1>2. \A d \in Stored' : d \notin Stored =>
        disp'[d].status \in { "pending", "skipped" } /\ job[disp'[d].job].state # None
  <2>1. ASSUME NEW d \in Stored', d \notin Stored
        PROVE  disp'[d].status \in { "pending", "skipped" } /\ job[disp'[d].job].state # None
    <3>1. PICK i \in 1..Len(new) : disp'[d] = new[i]
      BY <1>1, <2>1
    <3> QED
      BY <3>1
  <2> QED
    BY <2>1
<1>3. Stored' \subseteq Ids
  <2>1. Stored' = 1..Len(disp')
    BY DEF Stored
  <2>2. \A d, e \in 1..Len(disp') :
          /\ disp'[d].trigger = "scheduled" => disp'[d].at \in 1..MaxTime
          /\ disp'[d].trigger = "scheduled" /\ disp'[e].trigger = "scheduled"
               /\ disp'[d].job = disp'[e].job /\ disp'[d].at = disp'[e].at => d = e
    <3>1. \A d \in 1..Len(disp') : disp'[d].trigger = "scheduled" => d \in Scheduled'
      BY <2>1 DEF Scheduled
    <3>2. \A d \in Scheduled' : disp'[d].at \in 1..now'
      BY DEF CrTimes
    <3>3. \A d \in Scheduled' : disp'[d].at \in 1..MaxTime
      <4>1. 1..now' \subseteq 1..MaxTime
        BY BoundsAssumption
      <4> QED
        BY <3>2, <4>1
    <3>4. \A d, e \in Scheduled' : disp'[d].job = disp'[e].job /\ disp'[d].at = disp'[e].at => d = e
      BY DEF CrTimes
    <3> QED
      BY <3>1, <3>3, <3>4
  <2>3. Cardinality({ d \in 1..Len(disp') : disp'[d].trigger # "scheduled" }) <= MaxIncidents
    <3>1. Requests' = { d \in 1..Len(disp') : disp'[d].trigger # "scheduled" }
      BY <2>1 DEF Requests, Scheduled
    <3>2. IsFiniteSet(1..Len(disp'))
      BY <1>1, UpTo
    <3>3. Cardinality(Requests') \in Nat
      BY <3>1, <3>2, FS_Subset, FS_CardinalityType
    <3>4. Cardinality(Requests') <= incidents'
      BY DEF CrCount
    <3>5. Cardinality(Requests') <= MaxIncidents
      BY <3>3, <3>4, BoundsAssumption
    <3> QED
      BY <3>1, <3>5, Zenon
  <2> QED
    BY <1>1, <2>1, <2>2, <2>3, RowsFit
<1>4. \A d \in Stored : disp[d].job \in Jobs
  BY RowType DEF CronInv
<1>5. CrJobs'
  <2>1. ASSUME NEW j \in Jobs, job'[j].current # 0
        PROVE  /\ job'[j].current \in Stored'
               /\ disp'[job'[j].current].job = j /\ disp'[job'[j].current].status = "running"
    <3>1. job'[j].current = job[j].current
      OBVIOUS
    <3>2. /\ job[j].current \in Stored
          /\ disp[job[j].current].job = j /\ disp[job[j].current].status = "running"
      BY <2>1, <3>1 DEF CronInv, CrJobs
    <3> QED
      BY <1>1, <3>1, <3>2
  <2>2. ASSUME NEW d \in Stored'
        PROVE  /\ job'[disp'[d].job].state # None
               /\ disp'[d].status = "running" => job'[disp'[d].job].current = d
    <3>1. CASE d \in Stored
      <4>1. disp'[d] = disp[d] /\ disp[d].job \in Jobs
        BY <1>1, <1>4, <3>1
      <4>2. /\ job[disp[d].job].state # None
            /\ disp[d].status = "running" => job[disp[d].job].current = d
        BY <3>1 DEF CronInv, CrJobs
      <4>3. job'[disp[d].job].current = job[disp[d].job].current
            /\ job'[disp[d].job].state = job[disp[d].job].state
        BY <4>1
      <4> QED
        BY <4>1, <4>2, <4>3
    <3>2. CASE d \notin Stored
      BY <1>1, <1>2, <3>2
    <3> QED
      BY <3>1, <3>2
  <2> QED
    BY <2>1, <2>2 DEF CrJobs
<1>6. CrRuns'
  <2>1. \A d \in Stored' : d \notin Stored => run[d] = None
    BY <1>3 DEF CronInv, CrRuns
  <2> QED
    BY ZenonT(60), <1>1, <1>2, <1>3, <2>1 DEF CronInv, CrRuns
<1>7. CrOwners'
  <2>1. live \subseteq Stored
    BY DEF CronInv, CrOwners
  <2>2. \A d : Queued(d)' <=> Queued(d)
    BY DEF Queued
  <2>3. ASSUME NEW d \in Stored', Engaged(d)' PROVE d \in Stored /\ Engaged(d)
    <3>1. d \in Stored
      BY <1>2, <2>1, <2>3 DEF Engaged, Active
    <3> QED
      BY <1>1, <2>2, <2>3, <3>1 DEF Engaged
  <2>4. \A d \in live : d \in Stored /\ disp[d].status \in { "running", "cancelled" }
    BY DEF CronInv, CrOwners
  <2>5. \A d, e \in Stored : Engaged(d) /\ Engaged(e) /\ disp[d].job = disp[e].job => d = e
    BY DEF CronInv, CrOwners
  <2>6. \A d \in Stored : Engaged(d) /\ disp[d].status = "cancelled" => job[disp[d].job].state = "deleted"
    BY DEF CronInv, CrOwners
  <2>7. \A d \in Stored : disp'[d] = disp[d] /\ job'[disp[d].job].state = job[disp[d].job].state
    BY <1>1, <1>4
  <2>8. Stored \subseteq Stored' /\ live' = live
    BY <1>1
  <2> HIDE DEF Engaged
  <2> QED
    BY ZenonT(60), <2>3, <2>4, <2>5, <2>6, <2>7, <2>8 DEF CrOwners
<1>8. CrStale'
  BY DEF CronInv, CrStale, Unfinished, Queued
<1> QED
  BY <1>5, <1>6, <1>7, <1>8

\* A request adds one row.
LEMMA RequestAdded ==
  ASSUME CronInv, NEW r \in DispatchType, disp' = Append(disp, r),
         r.trigger # "scheduled", r.status = "pending", job[r.job].state # None,
         Asked, UNCHANGED << job, run, stale, turn, todo, queue >>
  PROVE  CronInv'
<1> DEFINE new == << r >>
<1>u. /\ phase = "serving" /\ turn = "free" /\ now' = now /\ job' = job /\ run' = run
      /\ stale' = stale /\ live' = live /\ phase' = phase /\ turn' = turn /\ todo' = todo
      /\ queue' = queue /\ refused' = refused /\ incidents' = incidents + 1
      /\ incidents' \in 0..MaxIncidents /\ incidents \in Nat /\ now \in Nat
  BY BoundsAssumption DEF CronInv, CrTypes, Asked, Serving, Incident
<1>n. new \in Seq(DispatchType) /\ disp' = disp \o new /\ Len(new) = 1 /\ new[1] = r
  BY DEF CronInv, CrTypes
<1> HIDE DEF new
<1>a. /\ disp' \in Seq(DispatchType) /\ Len(disp) \in Nat
      /\ Len(disp') = Len(disp) + 1 /\ Stored \subseteq Stored'
      /\ \A d \in Stored : disp'[d] = disp[d]
      /\ \A d \in Stored' : d \notin Stored => d = Len(disp) + 1 /\ disp'[d] = r
  <2>1. /\ disp' \in Seq(DispatchType) /\ Len(disp) \in Nat /\ Len(disp') = Len(disp) + 1
        /\ Stored \subseteq Stored' /\ \A d \in Stored : disp'[d] = disp[d]
        /\ \A d \in Stored' : d \notin Stored =>
             d - Len(disp) \in 1..1 /\ disp'[d] = new[d - Len(disp)]
    BY <1>n, AppendRows DEF CronInv
  <2>2. ASSUME NEW d \in Stored', d \notin Stored PROVE d = Len(disp) + 1 /\ disp'[d] = r
    <3>1. d \in Int
      BY DEF Stored
    <3>2. d - Len(disp) = 1
      BY <2>1, <2>2, <3>1
    <3> QED
      BY <1>n, <2>1, <2>2, <3>1, <3>2
  <2> QED
    BY <2>1, <2>2
<1>t. CrTimes'
  <2>1. Scheduled' = Scheduled /\ Scheduled \subseteq Stored
    BY <1>a DEF Scheduled
  <2>2. ASSUME NEW d \in Scheduled PROVE disp'[d] = disp[d]
    BY <1>a, <2>1
  <2>3. /\ \A d \in Scheduled : disp[d].at \in 1..now
        /\ \A d \in Scheduled : job[disp[d].job].next # 0 => disp[d].at < job[disp[d].job].next
        /\ \A d, e \in Scheduled : disp[d].job = disp[e].job /\ disp[d].at = disp[e].at => d = e
    BY DEF CronInv, CrTimes
  <2>4. /\ \A d \in Scheduled' : disp'[d].at \in 1..now'
        /\ \A d \in Scheduled' :
             job'[disp'[d].job].next # 0 => disp'[d].at < job'[disp'[d].job].next
        /\ \A d, e \in Scheduled' : disp'[d].job = disp'[e].job /\ disp'[d].at = disp'[e].at => d = e
    <3>1. now' = now /\ job' = job
      BY <1>u
    <3>2. \A d \in Scheduled' : d \in Scheduled /\ disp'[d] = disp[d]
      BY <2>1, <2>2
    <3>3. \A d \in Scheduled' : disp'[d].at \in 1..now'
      BY <2>3, <3>1, <3>2
    <3>4. \A d \in Scheduled' :
            job'[disp'[d].job].next # 0 => disp'[d].at < job'[disp'[d].job].next
      BY <2>3, <3>1, <3>2
    <3>5. \A d, e \in Scheduled' : disp'[d].job = disp'[e].job /\ disp'[d].at = disp'[e].at => d = e
      BY ZenonT(60), <2>3, <3>2
    <3> QED
      BY <3>3, <3>4, <3>5
  <2> QED
    BY <2>4 DEF CrTimes
<1>c. CrCount'
  <2>1. Requests' \subseteq Requests \union { Len(disp) + 1 }
    BY <1>a DEF Requests, Scheduled
  <2>2. IsFiniteSet(Requests)
    BY <1>a, UpTo, FS_Subset DEF Requests, Stored
  <2>3. Len(disp) + 1 \notin Requests
    BY <1>a DEF Requests, Stored
  <2>4. /\ IsFiniteSet(Requests \union { Len(disp) + 1 })
        /\ Cardinality(Requests \union { Len(disp) + 1 }) = Cardinality(Requests) + 1
    BY <2>2, <2>3, FS_AddElement
  <2>5. Cardinality(Requests') <= Cardinality(Requests \union { Len(disp) + 1 })
        /\ IsFiniteSet(Requests')
    BY <2>1, <2>4, FS_Subset
  <2>6. Cardinality(Requests) \in Nat /\ Cardinality(Requests') \in Nat
    BY <2>2, <2>5, FS_CardinalityType
  <2>7. Cardinality(Requests') <= Cardinality(Requests) + 1 /\ Cardinality(Requests) <= incidents
    BY <2>4, <2>5 DEF CronInv, CrCount
  <2> QED
    BY <1>u, <2>6, <2>7 DEF CrCount
<1>r. CrJobs' /\ CrRuns' /\ CrOwners' /\ CrStale'
  <2>1. \A i \in 1..Len(new) : new[i].status \in { "pending", "skipped" } /\ job[new[i].job].state # None
    BY <1>n
  <2>2. now' \in 0..MaxTime
    BY <1>u DEF CronInv, CrTypes
  <2> QED
    BY <1>u, <1>n, <1>t, <1>c, <2>1, <2>2, RowsAdded
<1>1. CrTypes'
  BY <1>u, <1>a DEF CronInv, CrTypes
<1>2. CrQueue'
  <2>1. \A i \in 1..Len(queue) : queue[i] \in Stored /\ queue[i] \in Stored'
                                  /\ disp'[queue[i]] = disp[queue[i]]
    BY <1>a DEF CronInv, CrQueue
  <2>2. \A i \in 1..Len(queue) : disp[queue[i]].status \in { "claimed", "cancelled" }
    BY <1>u DEF CronInv, CrQueue
  <2>3. \A i, k \in 1..Len(queue) : queue[i] = queue[k] => i = k
    BY <1>u DEF CronInv, CrQueue
  <2> QED
    BY <1>u, <2>1, <2>2, <2>3 DEF CrQueue, Submits
<1> QED
  BY <1>t, <1>c, <1>r, <1>1, <1>2 DEF CronInv

-----------------------------------------------------------------------------
(* Every action keeps the invariant. *)

LEMMA ClockKeeps ==
  ASSUME CronInv, Clock
  PROVE  CronInv'
<1>1. CrTypes'
  BY BoundsAssumption DEF CronInv, CrTypes, Clock, store, runs, loop
<1>2. CrTimes'
  BY TimesKept, BoundsAssumption DEF CronInv, CrTypes, SameRows, Clock, store,
     JobRecord
<1>3. CrCount'
  BY DEF CronInv, CrCount, Requests, Scheduled, Stored, Clock, store, runs, loop
<1>4. CrJobs'
  BY DEF CronInv, CrTypes, CrJobs, Stored, Clock, store, runs, loop
<1>5. CrRuns'
  BY DEF CronInv, CrTypes, CrRuns, Stored, Clock, store, runs, loop
<1>6. CrOwners'
  BY DEF CronInv, CrTypes, CrRuns, CrOwners, Engaged, Queued, Stored, Active,
     Clock, store, runs, loop
<1>7. CrQueue'
  BY DEF CronInv, CrTypes, CrQueue, Queued, Stored, Active, Submits, Clock, store,
     runs, loop
<1>8. CrStale'
  BY DEF CronInv, CrTypes, CrStale, CrQueue, Unfinished, Queued, RunTerminal,
     Clock, store, runs, loop
<1> QED
  BY <1>1, <1>2, <1>3, <1>4, <1>5, <1>6, <1>7, <1>8 DEF CronInv

LEMMA TickKeeps ==
  ASSUME CronInv, Tick
  PROVE  CronInv'
<1>a. DueJobs \subseteq Jobs /\ \A j \in DueJobs : job[j].state # None /\ job[j].next \in 1..now
  BY DEF DueJobs, None
<1>1. CrTypes'
  BY <1>a DEF CronInv, CrTypes, Tick, Serving, store, runs, loop
<1>2. CrTimes'
  BY <1>a DEF CronInv, CrTimes, Scheduled, Stored, Tick, Serving, store, runs, loop
<1>3. CrCount'
  BY <1>a DEF CronInv, CrCount, Requests, Scheduled, Stored, Tick, Serving, store,
     runs, loop
<1>4. CrJobs'
  BY <1>a DEF CronInv, CrTypes, CrJobs, Stored, Tick, Serving, store, runs, loop
<1>5. CrRuns'
  BY <1>a DEF CronInv, CrTypes, CrRuns, Stored, Tick, Serving, store, runs, loop
<1>6. CrOwners'
  BY <1>a DEF CronInv, CrTypes, CrRuns, CrOwners, Engaged, Queued, Stored, Active,
     Tick, Serving, store, runs, loop
<1>7. CrQueue'
  BY <1>a DEF CronInv, CrTypes, CrQueue, Queued, Stored, Active, Submits, Tick,
     Serving, store, runs, loop
<1>8. CrStale'
  BY <1>a DEF CronInv, CrTypes, CrStale, CrQueue, Unfinished, Queued, RunTerminal,
     Tick, Serving, store, runs, loop
<1> QED
  BY <1>1, <1>2, <1>3, <1>4, <1>5, <1>6, <1>7, <1>8 DEF CronInv

LEMMA MaterializedKeeps ==
  ASSUME CronInv, Materialized
  PROVE  CronInv'
<1>a. IdleJobs \subseteq Jobs
  BY DEF IdleJobs
<1>1. CrTypes'
  BY <1>a DEF CronInv, CrTypes, Materialized, store, runs, loop
<1>2. CrTimes'
  BY <1>a DEF CronInv, CrTimes, Scheduled, Stored, Materialized, store, runs, loop
<1>3. CrCount'
  BY <1>a DEF CronInv, CrCount, Requests, Scheduled, Stored, Materialized, store,
     runs, loop
<1>4. CrJobs'
  BY <1>a DEF CronInv, CrTypes, CrJobs, Stored, Materialized, store, runs, loop
<1>5. CrRuns'
  BY <1>a DEF CronInv, CrTypes, CrRuns, Stored, Materialized, store, runs, loop
<1>6. CrOwners'
  BY <1>a DEF CronInv, CrTypes, CrRuns, CrOwners, Engaged, Queued, Stored, Active,
     Materialized, store, runs, loop
<1>7. CrQueue'
  BY <1>a DEF CronInv, CrTypes, CrQueue, Queued, Stored, Active, Submits,
     Materialized, store, runs, loop
<1>8. CrStale'
  BY <1>a DEF CronInv, CrTypes, CrStale, CrQueue, Unfinished, Queued, RunTerminal,
     Materialized, store, runs, loop
<1> QED
  BY <1>1, <1>2, <1>3, <1>4, <1>5, <1>6, <1>7, <1>8 DEF CronInv

LEMMA ClaimedKeeps ==
  ASSUME CronInv, Claimed
  PROVE  CronInv'
<1>1. CrTypes'
  BY DEF CronInv, CrTypes, Claimed, store, runs, loop
<1>2. CrTimes'
  BY DEF CronInv, CrTimes, Scheduled, Stored, Claimed, store, runs, loop
<1>3. CrCount'
  BY DEF CronInv, CrCount, Requests, Scheduled, Stored, Claimed, store, runs, loop
<1>4. CrJobs'
  BY DEF CronInv, CrTypes, CrJobs, Stored, Claimed, store, runs, loop
<1>5. CrRuns'
  BY DEF CronInv, CrTypes, CrRuns, Stored, Claimed, store, runs, loop
<1>6. CrOwners'
  BY DEF CronInv, CrTypes, CrRuns, CrOwners, Engaged, Queued, Stored, Active,
     Claimed, store, runs, loop
<1>7. CrQueue'
  BY DEF CronInv, CrTypes, CrQueue, Queued, Stored, Active, Submits, Claimed,
     store, runs, loop
<1>8. CrStale'
  BY DEF CronInv, CrTypes, CrStale, CrQueue, Unfinished, Queued, RunTerminal,
     Claimed, store, runs, loop
<1> QED
  BY <1>1, <1>2, <1>3, <1>4, <1>5, <1>6, <1>7, <1>8 DEF CronInv

LEMMA SubmitNextKeeps ==
  ASSUME CronInv, SubmitNext
  PROVE  CronInv'
<1>1. CrTypes'
  BY DEF CronInv, CrTypes, SubmitNext, store, runs, loop
<1>2. CrTimes'
  BY DEF CronInv, CrTimes, Scheduled, Stored, SubmitNext, store, runs, loop
<1>3. CrCount'
  BY DEF CronInv, CrCount, Requests, Scheduled, Stored, SubmitNext, store, runs,
     loop
<1>4. CrJobs'
  BY DEF CronInv, CrTypes, CrJobs, Stored, SubmitNext, store, runs, loop
<1>5. CrRuns'
  BY DEF CronInv, CrTypes, CrRuns, Stored, SubmitNext, store, runs, loop
<1>6. CrOwners'
  BY DEF CronInv, CrTypes, CrRuns, CrOwners, Engaged, Queued, Stored, Active,
     SubmitNext, store, runs, loop
<1>7. CrQueue'
  BY DEF CronInv, CrTypes, CrQueue, Queued, Stored, Active, Submits, SubmitNext,
     store, runs, loop
<1>8. CrStale'
  BY DEF CronInv, CrTypes, CrStale, CrQueue, Unfinished, Queued, RunTerminal,
     SubmitNext, store, runs, loop
<1> QED
  BY <1>1, <1>2, <1>3, <1>4, <1>5, <1>6, <1>7, <1>8 DEF CronInv

LEMMA RemovedKeeps ==
  ASSUME CronInv, NEW j \in Jobs, Removed(j)
  PROVE  CronInv'
<1>a. /\ turn = "remove" /\ turn' = "free" /\ todo' = {} /\ phase' = phase
      /\ job' = job /\ disp' = disp /\ live' = live /\ queue' = queue
  BY DEF Removed, store
<1>1. CrTypes'
  BY DEF CronInv, CrTypes, Removed, store, runs, loop
<1>2. CrTimes'
  BY DEF CronInv, CrTimes, Scheduled, Stored, Removed, store, runs, loop
<1>3. CrCount'
  BY DEF CronInv, CrCount, Requests, Scheduled, Stored, Removed, store, runs, loop
<1>4. CrJobs'
  BY DEF CronInv, CrTypes, CrJobs, Stored, Removed, store, runs, loop
<1>5. CrRuns'
  BY DEF CronInv, CrTypes, CrRuns, Stored, Removed, store, runs, loop
<1>6. CrOwners'
  BY DEF CronInv, CrTypes, CrRuns, CrOwners, Engaged, Queued, Stored, Active,
     Removed, store, runs, loop
<1>7. CrQueue'
  BY <1>a DEF CronInv, CrTypes, CrQueue, Queued, Stored, Submits
<1>8. CrStale'
  BY DEF CronInv, CrTypes, CrStale, CrQueue, Unfinished, Queued, RunTerminal,
     Removed, store, runs, loop
<1> QED
  BY <1>1, <1>2, <1>3, <1>4, <1>5, <1>6, <1>7, <1>8 DEF CronInv

LEMMA CreateKeeps ==
  ASSUME CronInv, NEW j \in Jobs, NEW s \in Schedules[j], NEW at \in RunAts(s),
  Create(j, s, at)
  PROVE  CronInv'
<1> DEFINE new == [ state |-> "scheduled", kind |-> s.kind, policy |-> s.policy,
                      at |-> at, next |-> Initial(s.kind, at), current |-> 0 ]
<1>a. CrTypes /\ now \in 0..MaxTime /\ MaxTime \in Nat /\ incidents \in Nat
  BY BoundsAssumption DEF CronInv, CrTypes
<1>b. /\ job[j] \in JobRecord /\ job[j].next \in Nat /\ job[j].at \in 0..MaxTime
      /\ job[j].state \in { None, "scheduled", "paused", "completed", "deleted" }
      /\ job[j].kind \in { None, "once", "interval" }
      /\ job[j].policy \in { None, "skip", "fire_once", "catch_up" } /\ job[j].current \in Nat
  BY <1>a, JobType
<1>s. s \in [ kind : { "once", "interval" }, policy : { "skip", "fire_once", "catch_up" } ]
  BY SchedulesAssumption
<1>t. at \in 0..MaxTime
  BY <1>a DEF RunAts
<1>i. Initial(s.kind, at) \in 0..(MaxTime + 1) /\ Initial(s.kind, at) > now
  BY <1>a, <1>b, <1>t, InitialFits DEF Create
<1>d. SaveJob(j, new) /\ now' = now /\ incidents' \in Nat /\ incidents' >= incidents
  BY <1>a DEF Create, RunAts, Future, Initial, Serving, Asked, Incident, SaveJob,
     store, runs, loop
<1>c. /\ new \in JobRecord /\ new.current = 0 /\ new.state # None
      /\ job[j].state = None /\ new.next \in Nat
      /\ new.next \in { 0, job[j].next } \/ new.next > now
  BY <1>a, <1>b, <1>s, <1>i, <1>t DEF JobRecord, None, Create
<1> HIDE DEF new
<1>e. /\ job' \in [Jobs -> JobRecord] /\ job'[j] = new
      /\ \A i \in Jobs \ { j } : job'[i] = job[i]
  BY <1>a, <1>c, <1>d, JobSet
<1>1. CrTypes'
  BY <1>a, <1>e, BoundsAssumption DEF CronInv, CrTypes, Create, RunAts, Future,
     Initial, Serving, Asked, Incident, store, runs, loop
<1>2. CrTimes'
  BY <1>a, <1>b, <1>c, <1>d, <1>e, JobType, TimesKept DEF CronInv, SameRows,
     Create, RunAts, Future, Initial, Serving, Asked, Incident, store, runs, loop
<1>3. CrCount'
  BY <1>a, <1>d, CountKept DEF CronInv, SameRows, Create, RunAts, Future, Initial,
     Serving, Asked, Incident, store, runs, loop
<1>4. CrJobs'
  BY <1>a, <1>c, <1>e, RowType DEF CronInv, CrJobs, Stored, Create, RunAts, Future,
     Initial, Serving, Asked, Incident, store, runs, loop
<1>5. CrRuns'
  BY DEF CronInv, CrRuns, Stored, Create, RunAts, Future, Initial, Serving, Asked,
     Incident, store, runs, loop
<1>6. CrOwners'
  BY <1>a, <1>c, <1>e, RowType
  DEF CronInv, CrJobs, CrOwners, Engaged, Queued, Stored, Active, Create, RunAts,
  Future, Initial, Serving, Asked, Incident, store, runs, loop
<1>7. CrQueue'
  BY DEF CronInv, CrTypes, CrQueue, Queued, Stored, Active, Submits, Create,
     RunAts, Future, Initial, Serving, Asked, Incident, SaveJob, store, runs, loop
<1>8. CrStale'
  BY DEF CronInv, CrTypes, CrStale, CrQueue, Unfinished, Queued, RunTerminal,
     Create, RunAts, Future, Initial, Serving, Asked, Incident, SaveJob, store,
     runs, loop
<1> QED
  BY <1>1, <1>2, <1>3, <1>4, <1>5, <1>6, <1>7, <1>8 DEF CronInv

LEMMA EditKeeps ==
  ASSUME CronInv, NEW j \in Jobs, NEW s \in Schedules[j], NEW at \in RunAts(s),
  Edit(j, s, at)
  PROVE  CronInv'
<1> DEFINE revived == IF job[j].kind = "once" /\ job[j].state = "completed"
                          THEN "scheduled" ELSE job[j].state
<1> DEFINE new == [ job[j] EXCEPT !.kind = s.kind, !.policy = s.policy, !.at = at,
                               !.next = Initial(s.kind, at), !.state = revived ]
<1>a. CrTypes /\ now \in 0..MaxTime /\ MaxTime \in Nat /\ incidents \in Nat
  BY BoundsAssumption DEF CronInv, CrTypes
<1>b. /\ job[j] \in JobRecord /\ job[j].next \in Nat /\ job[j].at \in 0..MaxTime
      /\ job[j].state \in { None, "scheduled", "paused", "completed", "deleted" }
      /\ job[j].kind \in { None, "once", "interval" }
      /\ job[j].policy \in { None, "skip", "fire_once", "catch_up" } /\ job[j].current \in Nat
  BY <1>a, JobType
<1>s. s \in [ kind : { "once", "interval" }, policy : { "skip", "fire_once", "catch_up" } ]
  BY SchedulesAssumption
<1>t. at \in 0..MaxTime
  BY <1>a DEF RunAts
<1>i. Initial(s.kind, at) \in 0..(MaxTime + 1) /\ Initial(s.kind, at) > now
  BY <1>a, <1>b, <1>t, InitialFits DEF Edit
<1>k. revived \in { "scheduled", "paused", "completed" }
  BY <1>b DEF Edit
<1>d. SaveJob(j, new) /\ now' = now /\ incidents' \in Nat /\ incidents' >= incidents
  BY <1>a, <1>b DEF JobRecord, Edit, RunAts, Future, Initial, Serving, Asked,
     Incident, SaveJob, store, runs, loop
<1>f. /\ new.state = revived
      /\ new.next = Initial(s.kind, at)
      /\ new.current = job[j].current
  BY <1>b DEF JobRecord
<1>n. /\ s.kind \in { None, "once", "interval" }
      /\ s.policy \in { None, "skip", "fire_once", "catch_up" }
      /\ at \in 0..MaxTime
      /\ Initial(s.kind, at) \in 0..(MaxTime + 1)
      /\ revived \in { None, "scheduled", "paused", "completed", "deleted" }
  BY <1>a, <1>b, <1>s, <1>i, <1>t, <1>k
<1>r. new \in JobRecord
  BY <1>b, <1>n DEF JobRecord
<1> HIDE DEF new, revived
<1>c. /\ new \in JobRecord /\ new.current = job[j].current /\ new.state # None
      /\ job[j].state \notin { None, "deleted" } /\ new.next \in Nat
      /\ new.next \in { 0, job[j].next } \/ new.next > now
  BY <1>a, <1>b, <1>s, <1>i, <1>t, <1>k, <1>f, <1>n, <1>r DEF None, Edit
<1> HIDE DEF new
<1>e. /\ job' \in [Jobs -> JobRecord] /\ job'[j] = new
      /\ \A i \in Jobs \ { j } : job'[i] = job[i]
  BY <1>a, <1>c, <1>d, JobSet
<1>1. CrTypes'
  BY <1>a, <1>e, BoundsAssumption DEF CronInv, CrTypes, Edit, RunAts, Future,
     Initial, Serving, Asked, Incident, store, runs, loop
<1>2. CrTimes'
  BY <1>a, <1>b, <1>c, <1>d, <1>e, JobType, TimesKept DEF CronInv, SameRows, Edit,
     RunAts, Future, Initial, Serving, Asked, Incident, store, runs, loop
<1>3. CrCount'
  BY <1>a, <1>d, CountKept DEF CronInv, SameRows, Edit, RunAts, Future, Initial,
     Serving, Asked, Incident, store, runs, loop
<1>4. CrJobs'
  BY <1>a, <1>c, <1>e, JobsKept DEF CronInv, Edit, RunAts, Future, Initial,
     Serving, Asked, Incident, store, runs, loop
<1>5. CrRuns'
  BY DEF CronInv, CrRuns, Stored, Edit, RunAts, Future, Initial, Serving, Asked,
     Incident, store, runs, loop
<1>6. CrOwners'
  BY SMTT(30), <1>a, <1>c, <1>e, RowType DEF CronInv, CrOwners, Engaged, Queued, Stored,
     Active, Edit, RunAts, Future, Initial, Serving, Asked, Incident, store, runs,
     loop
<1>7. CrQueue'
  BY DEF CronInv, CrTypes, CrQueue, Queued, Stored, Active, Submits, Edit, RunAts,
     Future, Initial, Serving, Asked, Incident, SaveJob, store, runs, loop
<1>8. CrStale'
  BY DEF CronInv, CrTypes, CrStale, CrQueue, Unfinished, Queued, RunTerminal, Edit,
     RunAts, Future, Initial, Serving, Asked, Incident, SaveJob, store, runs, loop
<1> QED
  BY <1>1, <1>2, <1>3, <1>4, <1>5, <1>6, <1>7, <1>8 DEF CronInv

LEMMA EditPolicyKeeps ==
  ASSUME CronInv, NEW j \in Jobs, NEW s \in Schedules[j], EditPolicy(j, s)
  PROVE  CronInv'
<1> DEFINE new == [ job[j] EXCEPT !.policy = s.policy ]
<1>a. CrTypes /\ now \in 0..MaxTime /\ MaxTime \in Nat /\ incidents \in Nat
  BY BoundsAssumption DEF CronInv, CrTypes
<1>b. /\ job[j] \in JobRecord /\ job[j].next \in Nat /\ job[j].at \in 0..MaxTime
      /\ job[j].state \in { None, "scheduled", "paused", "completed", "deleted" }
      /\ job[j].kind \in { None, "once", "interval" }
      /\ job[j].policy \in { None, "skip", "fire_once", "catch_up" } /\ job[j].current \in Nat
  BY <1>a, JobType
<1>s. s \in [ kind : { "once", "interval" }, policy : { "skip", "fire_once", "catch_up" } ]
  BY SchedulesAssumption
<1>d. SaveJob(j, new) /\ now' = now /\ incidents' \in Nat /\ incidents' >= incidents
  BY <1>a DEF EditPolicy, Serving, Asked, Incident, SaveJob, store, runs, loop
<1>f. /\ new.state = job[j].state
      /\ new.next = job[j].next
      /\ new.current = job[j].current
  BY <1>b DEF JobRecord
<1>n. /\ s.policy \in { None, "skip", "fire_once", "catch_up" }
  BY <1>a, <1>b, <1>s
<1>r. new \in JobRecord
  BY <1>b, <1>n DEF JobRecord
<1> HIDE DEF new
<1>c. /\ new \in JobRecord /\ new.current = job[j].current /\ new.state # None
      /\ job[j].state \notin { None, "deleted" } /\ new.next \in Nat
      /\ new.next \in { 0, job[j].next } \/ new.next > now
  BY <1>a, <1>b, <1>s, <1>f, <1>n, <1>r DEF None, EditPolicy
<1> HIDE DEF new
<1>e. /\ job' \in [Jobs -> JobRecord] /\ job'[j] = new
      /\ \A i \in Jobs \ { j } : job'[i] = job[i]
  BY <1>a, <1>c, <1>d, JobSet
<1>1. CrTypes'
  BY <1>a, <1>e, BoundsAssumption DEF CronInv, CrTypes, EditPolicy, Serving, Asked,
     Incident, store, runs, loop
<1>2. CrTimes'
  BY <1>a, <1>b, <1>c, <1>d, <1>e, JobType, TimesKept DEF CronInv, SameRows,
     EditPolicy, Serving, Asked, Incident, store, runs, loop
<1>3. CrCount'
  BY <1>a, <1>d, CountKept DEF CronInv, SameRows, EditPolicy, Serving, Asked,
     Incident, store, runs, loop
<1>4. CrJobs'
  BY <1>a, <1>c, <1>e, JobsKept DEF CronInv, EditPolicy, Serving, Asked, Incident,
     store, runs, loop
<1>5. CrRuns'
  BY DEF CronInv, CrRuns, Stored, EditPolicy, Serving, Asked, Incident, store,
     runs, loop
<1>6. CrOwners'
  BY SMTT(30), <1>a, <1>c, <1>e, RowType DEF CronInv, CrOwners, Engaged, Queued, Stored,
     Active, EditPolicy, Serving, Asked, Incident, store, runs, loop
<1>7. CrQueue'
  BY DEF CronInv, CrTypes, CrQueue, Queued, Stored, Active, Submits, EditPolicy,
     Serving, Asked, Incident, SaveJob, store, runs, loop
<1>8. CrStale'
  BY DEF CronInv, CrTypes, CrStale, CrQueue, Unfinished, Queued, RunTerminal,
     EditPolicy, Serving, Asked, Incident, SaveJob, store, runs, loop
<1> QED
  BY <1>1, <1>2, <1>3, <1>4, <1>5, <1>6, <1>7, <1>8 DEF CronInv

LEMMA PauseKeeps ==
  ASSUME CronInv, NEW j \in Jobs, Pause(j)
  PROVE  CronInv'
<1> DEFINE new == [ job[j] EXCEPT !.state = "paused" ]
<1>a. CrTypes /\ now \in 0..MaxTime /\ MaxTime \in Nat /\ incidents \in Nat
  BY BoundsAssumption DEF CronInv, CrTypes
<1>b. /\ job[j] \in JobRecord /\ job[j].next \in Nat /\ job[j].at \in 0..MaxTime
      /\ job[j].state \in { None, "scheduled", "paused", "completed", "deleted" }
      /\ job[j].kind \in { None, "once", "interval" }
      /\ job[j].policy \in { None, "skip", "fire_once", "catch_up" } /\ job[j].current \in Nat
  BY <1>a, JobType
<1>d. SaveJob(j, new) /\ now' = now /\ incidents' \in Nat /\ incidents' >= incidents
  BY <1>a DEF Pause, Serving, Asked, Incident, SaveJob, store, runs, loop
<1>f. /\ new.state = "paused"
      /\ new.next = job[j].next
      /\ new.current = job[j].current
  BY <1>b DEF JobRecord
<1>n. /\ "paused" \in { None, "scheduled", "paused", "completed", "deleted" }
  BY <1>a, <1>b
<1>r. new \in JobRecord
  BY <1>b, <1>n DEF JobRecord
<1> HIDE DEF new
<1>c. /\ new \in JobRecord /\ new.current = job[j].current /\ new.state # None
      /\ job[j].state \notin { None, "deleted" } /\ new.next \in Nat
      /\ new.next \in { 0, job[j].next } \/ new.next > now
  BY <1>a, <1>b, <1>f, <1>n, <1>r DEF None, Pause
<1> HIDE DEF new
<1>e. /\ job' \in [Jobs -> JobRecord] /\ job'[j] = new
      /\ \A i \in Jobs \ { j } : job'[i] = job[i]
  BY <1>a, <1>c, <1>d, JobSet
<1>1. CrTypes'
  BY <1>a, <1>e, BoundsAssumption DEF CronInv, CrTypes, Pause, Serving, Asked,
     Incident, store, runs, loop
<1>2. CrTimes'
  BY <1>a, <1>b, <1>c, <1>d, <1>e, JobType, TimesKept DEF CronInv, SameRows, Pause,
     Serving, Asked, Incident, store, runs, loop
<1>3. CrCount'
  BY <1>a, <1>d, CountKept DEF CronInv, SameRows, Pause, Serving, Asked, Incident,
     store, runs, loop
<1>4. CrJobs'
  BY <1>a, <1>c, <1>e, JobsKept DEF CronInv, Pause, Serving, Asked, Incident,
     store, runs, loop
<1>5. CrRuns'
  BY DEF CronInv, CrRuns, Stored, Pause, Serving, Asked, Incident, store, runs, loop
<1>6. CrOwners'
  BY SMTT(30), <1>a, <1>c, <1>e, RowType DEF CronInv, CrOwners, Engaged, Queued, Stored,
     Active, Pause, Serving, Asked, Incident, store, runs, loop
<1>7. CrQueue'
  BY DEF CronInv, CrTypes, CrQueue, Queued, Stored, Active, Submits, Pause,
     Serving, Asked, Incident, SaveJob, store, runs, loop
<1>8. CrStale'
  BY DEF CronInv, CrTypes, CrStale, CrQueue, Unfinished, Queued, RunTerminal,
     Pause, Serving, Asked, Incident, SaveJob, store, runs, loop
<1> QED
  BY <1>1, <1>2, <1>3, <1>4, <1>5, <1>6, <1>7, <1>8 DEF CronInv

LEMMA ResumeKeeps ==
  ASSUME CronInv, NEW j \in Jobs, Resume(j)
  PROVE  CronInv'
<1> DEFINE new == [ job[j] EXCEPT !.state = "scheduled", !.next = Initial(job[j].kind, job[j].at) ]
<1>a. CrTypes /\ now \in 0..MaxTime /\ MaxTime \in Nat /\ incidents \in Nat
  BY BoundsAssumption DEF CronInv, CrTypes
<1>b. /\ job[j] \in JobRecord /\ job[j].next \in Nat /\ job[j].at \in 0..MaxTime
      /\ job[j].state \in { None, "scheduled", "paused", "completed", "deleted" }
      /\ job[j].kind \in { None, "once", "interval" }
      /\ job[j].policy \in { None, "skip", "fire_once", "catch_up" } /\ job[j].current \in Nat
  BY <1>a, JobType
<1>i. Initial(job[j].kind, job[j].at) \in 0..(MaxTime + 1) /\ Initial(job[j].kind, job[j].at) > now
  BY <1>a, <1>b, InitialFits DEF Resume
<1>d. SaveJob(j, new) /\ now' = now /\ incidents' \in Nat /\ incidents' >= incidents
  BY <1>a DEF Resume, Future, Initial, Serving, Asked, Incident, SaveJob, store,
     runs, loop
<1>f. /\ new.state = "scheduled"
      /\ new.next = Initial(job[j].kind, job[j].at)
      /\ new.current = job[j].current
  BY <1>b DEF JobRecord
<1>n. /\ "scheduled" \in { None, "scheduled", "paused", "completed", "deleted" }
      /\ Initial(job[j].kind, job[j].at) \in 0..(MaxTime + 1)
  BY <1>a, <1>b, <1>i
<1>r. new \in JobRecord
  BY <1>b, <1>n DEF JobRecord
<1> HIDE DEF new
<1>c. /\ new \in JobRecord /\ new.current = job[j].current /\ new.state # None
      /\ job[j].state \notin { None, "deleted" } /\ new.next \in Nat
      /\ new.next \in { 0, job[j].next } \/ new.next > now
  BY <1>a, <1>b, <1>i, <1>f, <1>n, <1>r DEF None, Resume
<1> HIDE DEF new
<1>e. /\ job' \in [Jobs -> JobRecord] /\ job'[j] = new
      /\ \A i \in Jobs \ { j } : job'[i] = job[i]
  BY <1>a, <1>c, <1>d, JobSet
<1>1. CrTypes'
  BY <1>a, <1>e, BoundsAssumption DEF CronInv, CrTypes, Resume, Future, Initial,
     Serving, Asked, Incident, store, runs, loop
<1>2. CrTimes'
  BY <1>a, <1>b, <1>c, <1>d, <1>e, JobType, TimesKept DEF CronInv, SameRows,
     Resume, Future, Initial, Serving, Asked, Incident, store, runs, loop
<1>3. CrCount'
  BY <1>a, <1>d, CountKept DEF CronInv, SameRows, Resume, Future, Initial, Serving,
     Asked, Incident, store, runs, loop
<1>4. CrJobs'
  BY <1>a, <1>c, <1>e, JobsKept DEF CronInv, Resume, Future, Initial, Serving,
     Asked, Incident, store, runs, loop
<1>5. CrRuns'
  BY DEF CronInv, CrRuns, Stored, Resume, Future, Initial, Serving, Asked,
     Incident, store, runs, loop
<1>6. CrOwners'
  BY SMTT(30), <1>a, <1>c, <1>e, RowType DEF CronInv, CrOwners, Engaged, Queued, Stored,
     Active, Resume, Future, Initial, Serving, Asked, Incident, store, runs, loop
<1>7. CrQueue'
  BY DEF CronInv, CrTypes, CrQueue, Queued, Stored, Active, Submits, Resume,
     Future, Initial, Serving, Asked, Incident, SaveJob, store, runs, loop
<1>8. CrStale'
  BY DEF CronInv, CrTypes, CrStale, CrQueue, Unfinished, Queued, RunTerminal,
     Resume, Future, Initial, Serving, Asked, Incident, SaveJob, store, runs, loop
<1> QED
  BY <1>1, <1>2, <1>3, <1>4, <1>5, <1>6, <1>7, <1>8 DEF CronInv

LEMMA RemoveKeeps ==
  ASSUME CronInv, NEW j \in Jobs, Remove(j)
  PROVE  CronInv'
<1> DEFINE new == [ job[j] EXCEPT !.state = "deleted", !.next = 0 ]
<1>a. CrTypes /\ now \in 0..MaxTime /\ MaxTime \in Nat /\ incidents \in Nat
  BY BoundsAssumption DEF CronInv, CrTypes
<1>b. /\ job[j] \in JobRecord /\ job[j].next \in Nat /\ job[j].at \in 0..MaxTime
      /\ job[j].state \in { None, "scheduled", "paused", "completed", "deleted" }
      /\ job[j].kind \in { None, "once", "interval" }
      /\ job[j].policy \in { None, "skip", "fire_once", "catch_up" } /\ job[j].current \in Nat
  BY <1>a, JobType
<1>d. SaveJob(j, new) /\ now' = now /\ incidents' \in Nat /\ incidents' >= incidents
  BY <1>a DEF Remove, Serving, Asked, Incident, SaveJob, store, runs, loop
<1>f. /\ new.state = "deleted"
      /\ new.next = 0
      /\ new.current = job[j].current
  BY <1>b DEF JobRecord
<1>n. /\ "deleted" \in { None, "scheduled", "paused", "completed", "deleted" }
      /\ 0 \in 0..(MaxTime + 1)
  BY <1>a, <1>b
<1>r. new \in JobRecord
  BY <1>b, <1>n DEF JobRecord
<1> HIDE DEF new
<1>c. /\ new \in JobRecord /\ new.state = "deleted" /\ new.state # None /\ new.current = job[j].current /\ new.next \in Nat
      /\ new.next \in { 0, job[j].next } \/ new.next > now
  BY <1>a, <1>b, <1>f, <1>n, <1>r DEF None, Remove
<1> HIDE DEF new
<1>e. /\ job' \in [Jobs -> JobRecord] /\ job'[j] = new
      /\ \A i \in Jobs \ { j } : job'[i] = job[i]
  BY <1>a, <1>c, <1>d, JobSet
<1>1. CrTypes'
  BY <1>a, <1>e, BoundsAssumption DEF CronInv, CrTypes, Remove, Serving, Asked,
     Incident, store, runs, loop
<1>2. CrTimes'
  BY <1>a, <1>b, <1>c, <1>d, <1>e, JobType, TimesKept DEF CronInv, SameRows,
     Remove, Serving, Asked, Incident, store, runs, loop
<1>3. CrCount'
  BY <1>a, <1>d, CountKept DEF CronInv, SameRows, Remove, Serving, Asked, Incident,
     store, runs, loop
<1>4. CrJobs'
  BY <1>a, <1>c, <1>e, JobsKept DEF CronInv, Remove, Serving, Asked, Incident,
     store, runs, loop
<1>5. CrRuns'
  BY DEF CronInv, CrRuns, Stored, Remove, Serving, Asked, Incident, store, runs,
     loop
<1>6. CrOwners'
  BY <1>a, <1>c, <1>e, RowType DEF CronInv, CrOwners, Engaged, Queued, Stored,
     Active, Remove, Serving, Asked, Incident, store, runs, loop
<1>7. CrQueue'
  BY <1>a, <1>c, <1>e DEF CronInv, CrQueue, Queued, Stored, Active, Submits,
     Remove, Serving, Asked, Incident, store, runs, loop
<1>8. CrStale'
  BY DEF CronInv, CrTypes, CrStale, CrQueue, Unfinished, Queued, RunTerminal,
     Remove, Serving, Asked, Incident, SaveJob, store, runs, loop
<1> QED
  BY <1>1, <1>2, <1>3, <1>4, <1>5, <1>6, <1>7, <1>8 DEF CronInv

LEMMA claim_nextKeeps ==
  ASSUME CronInv, NEW j \in Jobs, claim_next(j)
  PROVE  CronInv'
<1>p. PICK d \in Claimable(j) : disp' = [ disp EXCEPT ![d].status = "claimed" ] /\ queue' = Append(queue, d)
  BY DEF claim_next
<1>u. /\ turn = "claim" /\ todo' \subseteq Jobs
      /\ now' = now /\ job' = job /\ run' = run /\ stale' = stale
      /\ live' = live /\ phase' = phase /\ turn' = turn
      /\ refused' = refused /\ incidents' = incidents
  BY DEF CronInv, CrTypes, claim_next, runs
<1>c. /\ d \in Stored /\ d \in Nat /\ disp[d].job = j /\ disp[d].status = "pending"
      /\ job[j].state = "scheduled"
      /\ \A e \in Stored : disp[e].job = j => disp[e].status \notin Active
  BY DEF Claimable, ActiveOf, Stored, Active
<1>s. /\ disp' \in Seq(DispatchType) /\ SameRows /\ Stored' = Stored
      /\ disp'[d].status = "claimed" /\ \A e \in Stored : e # d => disp'[e] = disp[e]
  BY <1>p, <1>c, StatusSet DEF CronInv, Statuses, Active
<1>q. /\ queue' \in Seq(Nat) /\ Len(queue) \in Nat
      /\ Len(queue') = Len(queue) + 1 /\ queue'[Len(queue) + 1] = d
      /\ \A i \in 1..Len(queue) : queue'[i] = queue[i]
      /\ \A e : Queued(e)' => Queued(e) \/ e = d
  BY <1>p, <1>c, QueueAppend DEF CronInv
<1>1. CrTypes'
  BY <1>p, <1>u, <1>c, <1>s, <1>q, BoundsAssumption DEF CronInv, CrTypes
<1>2. CrTimes'
  BY <1>p, <1>u, <1>c, <1>s, <1>q, TimesKept, JobType,
     BoundsAssumption DEF CronInv, CrTypes, SameRows
<1>3. CrCount'
  BY <1>p, <1>u, <1>c, <1>s, <1>q, CountKept, BoundsAssumption DEF CronInv,
     CrTypes, SameRows
<1>4. CrJobs'
  BY <1>p, <1>u, <1>c, <1>s, <1>q, RowType DEF CronInv, CrJobs, Stored, SameRows
<1>5. CrRuns'
  BY <1>p, <1>u, <1>c, <1>s, <1>q DEF CronInv, CrRuns, Stored, SameRows, None,
     RunTerminal
<1>6. CrOwners'
  BY <1>p, <1>u, <1>c, <1>s, <1>q, RowType DEF CronInv, CrOwners, Engaged, Stored,
     Active, SameRows
<1>7. CrQueue'
  BY <1>p, <1>u, <1>c, <1>s, <1>q, RowType DEF CronInv, CrQueue, Stored, Active,
     Submits, SameRows
<1>8. CrStale'
  BY <1>u DEF CronInv, CrStale, CrQueue, Unfinished
<1> QED
  BY <1>1, <1>2, <1>3, <1>4, <1>5, <1>6, <1>7, <1>8 DEF CronInv

LEMMA cancel_unboundKeeps ==
  ASSUME CronInv, NEW j \in Jobs, cancel_unbound(j)
  PROVE  CronInv'
<1>p. PICK d \in Unbound(j) : disp' = [ disp EXCEPT ![d].status = "cancelled" ]
  BY DEF cancel_unbound
<1>u. /\ turn = "remove" /\ job[j].state = "deleted"
      /\ now' = now /\ job' = job /\ run' = run /\ stale' = stale
      /\ live' = live /\ phase' = phase /\ turn' = turn /\ todo' = todo
      /\ queue' = queue /\ refused' = refused /\ incidents' = incidents
  BY DEF CronInv, CrQueue, cancel_unbound, runs, loop
<1>c. /\ d \in Stored /\ disp[d].job = j /\ disp[d].status \in { "pending", "claimed" }
  BY DEF Unbound
<1>s. /\ disp' \in Seq(DispatchType) /\ SameRows /\ Stored' = Stored
      /\ disp'[d].status = "cancelled" /\ \A e \in Stored : e # d => disp'[e] = disp[e]
  BY <1>p, <1>c, StatusSet DEF CronInv, Statuses, Settled
<1>q. \A e : Queued(e)' <=> Queued(e)
  BY <1>u DEF Queued
<1>1. CrTypes'
  BY <1>p, <1>u, <1>c, <1>s, <1>q, BoundsAssumption DEF CronInv, CrTypes
<1>2. CrTimes'
  BY <1>p, <1>u, <1>c, <1>s, <1>q, TimesKept, JobType,
     BoundsAssumption DEF CronInv, CrTypes, SameRows
<1>3. CrCount'
  BY <1>p, <1>u, <1>c, <1>s, <1>q, CountKept, BoundsAssumption DEF CronInv,
     CrTypes, SameRows
<1>4. CrJobs'
  BY <1>p, <1>u, <1>c, <1>s, <1>q, RowType DEF CronInv, CrJobs, Stored, SameRows
<1>5. CrRuns'
  BY <1>p, <1>u, <1>c, <1>s, <1>q DEF CronInv, CrRuns, Stored, SameRows, None,
     RunTerminal
<1>6. CrOwners'
  BY <1>p, <1>u, <1>c, <1>s, <1>q, RowType DEF CronInv, CrOwners, CrRuns, CrQueue,
     Queued, Engaged, Stored, Active, SameRows
<1>7. CrQueue'
  BY <1>p, <1>u, <1>c, <1>s, <1>q, RowType DEF CronInv, CrQueue, Stored, Active,
     Submits, SameRows
<1>8. CrStale'
  BY <1>p, <1>u, <1>c, <1>s, <1>q DEF CronInv, CrStale, Unfinished, RunTerminal,
     None, Stored
<1> QED
  BY <1>1, <1>2, <1>3, <1>4, <1>5, <1>6, <1>7, <1>8 DEF CronInv

LEMMA bind_runningKeeps ==
  ASSUME CronInv, bind_running
  PROVE  CronInv'
<1> SUFFICES ASSUME MayBind(Head(queue)), turn = "bind", queue # << >> PROVE CronInv'
  <2>1. CASE ~ MayBind(Head(queue))
    <3>1. incidents' \in 0..MaxIncidents /\ incidents' >= incidents
      BY <2>1, BoundsAssumption DEF CronInv, CrTypes, bind_running
    <3> QED
      BY <2>1, <3>1, RaisesKeeps DEF bind_running, Submitting, Submits, store
  <2> QED
    BY <2>1 DEF bind_running, Submitting
<1> DEFINE d == Head(queue)
           j == disp[d].job
<1>p. disp' = [ disp EXCEPT ![d].status = "running" ] /\ SaveJob(j, [ job[j] EXCEPT !.current = d ])
  BY DEF bind_running
<1>u. /\ turn' = "pool"
      /\ now' = now /\ run' = run /\ stale' = stale /\ live' = live
      /\ phase' = phase /\ todo' = todo /\ queue' = queue
      /\ refused' = refused /\ incidents' = incidents
  BY DEF bind_running
<1>h. d = queue[1] /\ 1 \in 1..Len(queue) /\ d \in Nat
  BY DEF CronInv, CrTypes
<1>c. /\ d \in Stored /\ j \in Jobs /\ disp[d].status = "claimed" /\ job[j].state # "deleted"
      /\ phase \in { "serving", "reconcile" }
  BY <1>h, RowType DEF CronInv, CrQueue, MayBind, Submits
<1> HIDE DEF d
<1>s. /\ disp' \in Seq(DispatchType) /\ SameRows /\ Stored' = Stored
      /\ disp'[d].status = "running" /\ \A e \in Stored : e # d => disp'[e] = disp[e]
  BY <1>p, <1>c, StatusSet DEF CronInv, Statuses, Active
<1>r. [ job[j] EXCEPT !.current = d ] \in JobRecord
  BY <1>c, <1>h, JobType DEF CronInv, JobRecord
<1>t. /\ job' \in [Jobs -> JobRecord] /\ job'[j] = [ job[j] EXCEPT !.current = d ]
      /\ \A i \in Jobs \ { j } : job'[i] = job[i]
  BY <1>p, <1>c, <1>r, JobSet DEF CronInv
<1>v. /\ job'[j].current = d /\ job'[j].next = job[j].next /\ job'[j].state = job[j].state
  BY <1>c, <1>t, JobType DEF CronInv, JobRecord
<1> HIDE DEF j
<1>k. disp[d].job = j
  BY DEF j
<1>w. \A i \in Jobs : job'[i].next = job[i].next /\ job'[i].next \in Nat /\ job'[i].state = job[i].state
  BY <1>t, <1>v, JobType DEF CronInv
<1>m. /\ \A e \in Stored : disp[e].job = j /\ disp[e].status = "running" => FALSE
      /\ \A i \in Jobs : job[i].current # 0 => job[i].current # d /\ i # j
      /\ d # 0
  BY SMTT(30), <1>c, <1>h, <1>k, RowType DEF CronInv, CrJobs, CrOwners, Engaged, Active,
     Stored
<1>q. \A e : Queued(e)' <=> Queued(e)
  BY <1>u DEF Queued
<1>1. CrTypes'
  BY <1>p, <1>u, <1>h, <1>c, <1>s, <1>r, <1>t, <1>v, <1>k, <1>w, <1>m, <1>q,
     BoundsAssumption DEF CronInv, CrTypes
<1>2. CrTimes'
  BY <1>p, <1>u, <1>h, <1>c, <1>s, <1>r, <1>t, <1>v, <1>k, <1>w, <1>m, <1>q,
     TimesKept, JobType, BoundsAssumption DEF CronInv, CrTypes, SameRows
<1>3. CrCount'
  BY <1>p, <1>u, <1>h, <1>c, <1>s, <1>r, <1>t, <1>v, <1>k, <1>w, <1>m, <1>q,
     CountKept, BoundsAssumption DEF CronInv, CrTypes, SameRows
<1>4. CrJobs'
  <2>1. ASSUME NEW i \in Jobs, job'[i].current # 0
      PROVE  /\ job'[i].current \in Stored
             /\ disp'[job'[i].current].job = i /\ disp'[job'[i].current].status = "running"
    <3>1. CASE i = j
      BY <1>c, <1>k, <1>s, <1>v, <3>1 DEF SameRows
    <3>2. CASE i # j
      BY <1>s, <1>t, <1>m, <2>1, <3>2 DEF CronInv, CrJobs, SameRows
    <3> QED
      BY <3>1, <3>2
  <2>2. ASSUME NEW e \in Stored
      PROVE  /\ job'[disp'[e].job].state # None
             /\ disp'[e].status = "running" => job'[disp'[e].job].current = e
    <3>1. disp'[e].job = disp[e].job /\ disp[e].job \in Jobs
      BY <1>s, RowType DEF CronInv, SameRows
    <3>2. job'[disp'[e].job].state # None
      BY <1>w, <3>1 DEF CronInv, CrJobs
    <3>3. CASE e = d
      BY <1>k, <1>s, <1>v, <3>1, <3>2, <3>3
    <3>4. CASE e # d
      BY <1>s, <1>t, <1>m, <3>1, <3>2, <3>4 DEF CronInv, CrJobs
    <3> QED
      BY <3>3, <3>4
  <2> QED
    BY <1>s, <2>1, <2>2 DEF CrJobs
<1>5. CrRuns'
  BY <1>p, <1>u, <1>h, <1>c, <1>s, <1>r, <1>t, <1>v, <1>k, <1>w, <1>m,
     <1>q DEF CronInv, CrRuns, Stored, SameRows, None, RunTerminal
<1>6. CrOwners'
  BY <1>p, <1>u, <1>h, <1>c, <1>s, <1>r, <1>t, <1>v, <1>k, <1>w, <1>m, <1>q,
     RowType DEF CronInv, CrOwners, Engaged, Stored, Active, SameRows
<1>7. CrQueue'
  BY SMTT(30), <1>p, <1>u, <1>h, <1>c, <1>s, <1>r, <1>t, <1>v, <1>k, <1>w, <1>m, <1>q,
     RowType DEF CronInv, CrQueue, Stored, Active, Submits, SameRows
<1>8. CrStale'
  BY <1>p, <1>u, <1>h, <1>c, <1>s, <1>r, <1>t, <1>v, <1>k, <1>w, <1>m,
     <1>q DEF CronInv, CrStale, Unfinished, RunTerminal, None, Stored
<1> QED
  BY <1>1, <1>2, <1>3, <1>4, <1>5, <1>6, <1>7, <1>8 DEF CronInv

\* Settling a dispatch frees its job.
LEMMA MarkTerminal ==
  ASSUME CronInv, NEW d \in Stored, mark_terminal(d), disp[d].status = "running"
  PROVE  /\ disp' \in Seq(DispatchType) /\ SameRows /\ Stored' = Stored
         /\ disp'[d].status = Outcome(d) /\ Outcome(d) \in { "succeeded", "failed" }
         /\ \A e \in Stored : e # d => disp'[e] = disp[e]
         /\ job' \in [Jobs -> JobRecord] /\ disp[d].job \in Jobs
         /\ \A i \in Jobs : job'[i].next = job[i].next /\ job'[i].next \in Nat
         /\ \A i \in Jobs : i # disp[d].job => job'[i] = job[i]
         /\ \A e \in Stored : e # d /\ Engaged(e) => disp[e].job # disp[d].job
         /\ CrJobs'
<1> DEFINE j == disp[d].job
           over == job[j].kind = "once" /\ run[d] = "ok"
           state == IF over THEN "completed" ELSE job[j].state
           new == [ job[j] EXCEPT !.current = 0, !.state = state ]
<1>1. j \in Jobs
  BY RowType DEF CronInv
<1>2. /\ job[j] \in JobRecord /\ job[j].next \in Nat
      /\ job[j].state \in { None, "scheduled", "paused", "completed", "deleted" }
  BY <1>1, JobType DEF CronInv
<1>3. disp' = [ disp EXCEPT ![d].status = Outcome(d) ] /\ SaveJob(j, new)
  BY <1>2 DEF mark_terminal, JobRecord
<1>4. Outcome(d) \in { "succeeded", "failed" }
  BY DEF Outcome
<1>5. disp' \in Seq(DispatchType) /\ SameRows /\ Stored' = Stored
      /\ disp'[d].status = Outcome(d) /\ \A e \in Stored : e # d => disp'[e] = disp[e]
  BY <1>3, <1>4, StatusSet DEF CronInv, Statuses, Settled
<1>6. state \in { None, "scheduled", "paused", "completed", "deleted" } /\ 0 \in Nat
      /\ (job[j].state # None => state # None)
  BY <1>2 DEF None
<1> HIDE DEF state, j
<1>7. new \in JobRecord /\ new.current = 0 /\ new.next = job[j].next /\ new.state = state
  BY <1>2, <1>6 DEF JobRecord
<1> HIDE DEF new
<1>8. job' \in [Jobs -> JobRecord] /\ job'[j] = new /\ \A i \in Jobs \ { j } : job'[i] = job[i]
  BY <1>1, <1>3, <1>7, JobSet DEF CronInv
<1>9. \A i \in Jobs : job'[i].next = job[i].next /\ job'[i].next \in Nat
  BY <1>1, <1>7, <1>8, JobType DEF CronInv
<1>10. disp[d].job = j
  BY DEF j
<1>11. \A e \in Stored : e # d /\ Engaged(e) => disp[e].job # j
  BY <1>10 DEF CronInv, CrOwners, Engaged, Active
<1>12. CrJobs'
  <2>1. ASSUME NEW i \in Jobs, job'[i].current # 0
        PROVE  /\ job'[i].current \in Stored
               /\ disp'[job'[i].current].job = i /\ disp'[job'[i].current].status = "running"
    <3>1. i # j /\ job'[i] = job[i]
      BY <1>7, <1>8, <2>1
    <3>2. job[i].current \in Stored /\ disp[job[i].current].job = i
      BY <2>1, <3>1 DEF CronInv, CrJobs
    <3>3. job[i].current # d
      BY <1>10, <3>1, <3>2
    <3> QED
      BY <1>5, <2>1, <3>1, <3>2, <3>3 DEF CronInv, CrJobs
  <2>2. ASSUME NEW e \in Stored
        PROVE  /\ job'[disp'[e].job].state # None
               /\ disp'[e].status = "running" => job'[disp'[e].job].current = e
    <3>1. disp'[e].job = disp[e].job /\ disp[e].job \in Jobs
      BY <1>5, RowType DEF CronInv, SameRows
    <3>2. job'[disp'[e].job].state # None
      BY <1>6, <1>7, <1>8, <3>1 DEF CronInv, CrJobs
    <3>3. CASE e = d
      BY <1>4, <1>5, <3>2, <3>3
    <3>4. CASE e # d
      <4>1. disp'[e].status = "running" => disp[e].job # j
        BY <1>5, <1>11, <3>4 DEF Engaged, Active
      <4> QED
        BY <1>5, <1>8, <3>1, <3>2, <3>4, <4>1 DEF CronInv, CrJobs
    <3> QED
      BY <3>3, <3>4
  <2> QED
    BY <1>5, <2>1, <2>2 DEF CrJobs
<1> QED
  BY <1>1, <1>4, <1>5, <1>8, <1>9, <1>10, <1>11, <1>12

LEMMA SettleRunMarksKeeps ==
  ASSUME CronInv, NEW d \in Ids, SettleRun(d), disp[d].status = "running"
  PROVE  CronInv'
<1>u. /\ turn = "free" /\ d \in live /\ live' = live \ { d } /\ run[d] \in RunTerminal
      /\ now' = now /\ run' = run /\ stale' = stale /\ phase' = phase
      /\ turn' = turn /\ todo' = todo /\ queue' = queue
      /\ refused' = refused /\ incidents' = incidents
  BY DEF SettleRun, runs, loop
<1>h. d \in Stored /\ disp[d].status = "running"
  BY <1>u DEF CronInv, CrOwners
<1>m. /\ disp' \in Seq(DispatchType) /\ SameRows /\ Stored' = Stored
      /\ disp'[d].status = Outcome(d) /\ Outcome(d) \in { "succeeded", "failed" }
      /\ \A e \in Stored : e # d => disp'[e] = disp[e]
      /\ job' \in [Jobs -> JobRecord] /\ disp[d].job \in Jobs
      /\ \A i \in Jobs : job'[i].next = job[i].next /\ job'[i].next \in Nat
      /\ \A i \in Jobs : i # disp[d].job => job'[i] = job[i]
      /\ \A e \in Stored : e # d /\ Engaged(e) => disp[e].job # disp[d].job
      /\ CrJobs'
  BY <1>h, MarkTerminal DEF SettleRun
<1>o. run'[d] \in { "recovery" } \union RunTerminal /\ run' \in [Ids -> RunStates]
      /\ \A e \in Ids : e # d => run'[e] = run[e]
  BY <1>u DEF CronInv, CrTypes, RunStates
<1>q. \A e : Queued(e)' <=> Queued(e)
  BY <1>u DEF Queued
<1>1. CrTypes'
  BY <1>u, <1>h, <1>m, <1>o, <1>q, BoundsAssumption DEF CronInv, CrTypes
<1>2. CrTimes'
  BY <1>u, <1>h, <1>m, <1>o, <1>q, TimesKept, JobType,
     BoundsAssumption DEF CronInv, CrTypes, SameRows
<1>3. CrCount'
  BY <1>u, <1>h, <1>m, <1>o, <1>q, CountKept, BoundsAssumption DEF CronInv,
     CrTypes, SameRows
<1>4. CrJobs'
  BY <1>m
<1>5. CrRuns'
  BY <1>u, <1>h, <1>m, <1>o, <1>q DEF CronInv, CrRuns, Stored, SameRows, None,
     RunTerminal
<1>6. CrOwners'
  BY <1>u, <1>h, <1>m, <1>o, <1>q, RowType DEF CronInv, CrOwners, Engaged, Stored,
     Active, SameRows
<1>7. CrQueue'
  <2>1. \A i \in 1..Len(queue) : phase # "recover" => queue[i] # d
    BY <1>u, <1>h DEF CronInv, CrQueue, Active
  <2>2. \A e \in Stored : disp'[e].status = "claimed" <=> disp[e].status = "claimed"
    BY <1>h, <1>m
  <2>3. \A i \in 1..Len(queue) : queue[i] \in Stored
    BY DEF CronInv, CrQueue
  <2>4. \A i \in 1..Len(queue) : phase # "recover" => disp'[queue[i]] = disp[queue[i]]
    BY <1>m, <2>1, <2>3
  <2> QED
    BY <1>u, <1>m, <1>q, <2>2, <2>3, <2>4 DEF CronInv, CrQueue, Submits
<1>8. CrStale'
  BY <1>u, <1>h, <1>m, <1>o, <1>q DEF CronInv, CrStale, Unfinished, RunTerminal,
     None, Stored
<1> QED
  BY <1>1, <1>2, <1>3, <1>4, <1>5, <1>6, <1>7, <1>8 DEF CronInv

LEMMA SettleRunLeavesKeeps ==
  ASSUME CronInv, NEW d \in Ids, SettleRun(d), disp[d].status # "running"
  PROVE  CronInv'
<1>u. /\ turn = "free" /\ d \in live /\ live' = live \ { d }
      /\ now' = now /\ job' = job /\ disp' = disp /\ run' = run
      /\ stale' = stale /\ phase' = phase /\ turn' = turn /\ todo' = todo
      /\ queue' = queue /\ refused' = refused /\ incidents' = incidents
  BY DEF SettleRun, mark_terminal, store, runs, loop
<1>q. \A e : Queued(e)' <=> Queued(e)
  BY <1>u DEF Queued
<1>1. CrTypes'
  BY <1>u, <1>q, BoundsAssumption DEF CronInv, CrTypes
<1>2. CrTimes'
  BY <1>u, <1>q, TimesKept, JobType, BoundsAssumption DEF CronInv, CrTypes, SameRows
<1>3. CrCount'
  BY <1>u, <1>q, CountKept, BoundsAssumption DEF CronInv, CrTypes, SameRows
<1>4. CrJobs'
  BY <1>u, <1>q, RowType DEF CronInv, CrJobs, Stored, SameRows
<1>5. CrRuns'
  BY <1>u, <1>q DEF CronInv, CrRuns, Stored, SameRows, None, RunTerminal
<1>6. CrOwners'
  BY <1>u, <1>q, RowType DEF CronInv, CrOwners, Engaged, Stored, Active, SameRows
<1>7. CrQueue'
  BY <1>u, <1>q, RowType DEF CronInv, CrQueue, Stored, Active, Submits, SameRows
<1>8. CrStale'
  BY <1>u, <1>q DEF CronInv, CrStale, Unfinished, RunTerminal, None, Stored
<1> QED
  BY <1>1, <1>2, <1>3, <1>4, <1>5, <1>6, <1>7, <1>8 DEF CronInv

LEMMA FinalizeGivesUpKeeps ==
  ASSUME CronInv, NEW d \in Ids, FinalizeGivesUp(d)
  PROVE  CronInv'
<1>u. /\ turn = "free" /\ d \in live /\ live' = live \ { d } /\ run[d] = "running"
      /\ now' = now /\ stale' = stale /\ phase' = phase /\ turn' = turn
      /\ todo' = todo /\ queue' = queue /\ refused' = refused
      /\ incidents' = incidents
      /\ run' = [ run EXCEPT ![d] = "recovery" ]
  BY DEF FinalizeGivesUp, runs, loop
<1>h. /\ d \in Stored /\ disp[d].status = "running"
  BY <1>u DEF CronInv, CrOwners, CrRuns, CrTypes
<1>m. /\ disp' \in Seq(DispatchType) /\ SameRows /\ Stored' = Stored
      /\ disp'[d].status = Outcome(d) /\ Outcome(d) \in { "succeeded", "failed" }
      /\ \A e \in Stored : e # d => disp'[e] = disp[e]
      /\ job' \in [Jobs -> JobRecord] /\ disp[d].job \in Jobs
      /\ \A i \in Jobs : job'[i].next = job[i].next /\ job'[i].next \in Nat
      /\ \A i \in Jobs : i # disp[d].job => job'[i] = job[i]
      /\ \A e \in Stored : e # d /\ Engaged(e) => disp[e].job # disp[d].job
      /\ CrJobs'
  BY <1>h, MarkTerminal DEF FinalizeGivesUp
<1>o. run'[d] \in { "recovery" } \union RunTerminal /\ run' \in [Ids -> RunStates]
      /\ \A e \in Ids : e # d => run'[e] = run[e]
  BY <1>u DEF CronInv, CrTypes, RunStates
<1>q. \A e : Queued(e)' <=> Queued(e)
  BY <1>u DEF Queued
<1>1. CrTypes'
  BY <1>u, <1>h, <1>m, <1>o, <1>q, BoundsAssumption DEF CronInv, CrTypes
<1>2. CrTimes'
  BY <1>u, <1>h, <1>m, <1>o, <1>q, TimesKept, JobType,
     BoundsAssumption DEF CronInv, CrTypes, SameRows
<1>3. CrCount'
  BY <1>u, <1>h, <1>m, <1>o, <1>q, CountKept, BoundsAssumption DEF CronInv,
     CrTypes, SameRows
<1>4. CrJobs'
  BY <1>m
<1>5. CrRuns'
  BY <1>u, <1>h, <1>m, <1>o, <1>q DEF CronInv, CrRuns, Stored, SameRows, None,
     RunTerminal
<1>6. CrOwners'
  BY SMTT(90), <1>u, <1>h, <1>m, <1>o, <1>q, RowType DEF CronInv, CrOwners, Engaged, Stored,
     Active, SameRows
<1>7. CrQueue'
  <2>1. \A i \in 1..Len(queue) : phase # "recover" => queue[i] # d
    BY <1>u, <1>h DEF CronInv, CrQueue, Active
  <2>2. \A e \in Stored : disp'[e].status = "claimed" <=> disp[e].status = "claimed"
    BY <1>h, <1>m
  <2>3. \A i \in 1..Len(queue) : queue[i] \in Stored
    BY DEF CronInv, CrQueue
  <2>4. \A i \in 1..Len(queue) : phase # "recover" => disp'[queue[i]] = disp[queue[i]]
    BY <1>m, <2>1, <2>3
  <2> QED
    BY <1>u, <1>m, <1>q, <2>2, <2>3, <2>4 DEF CronInv, CrQueue, Submits
<1>8. CrStale'
  BY <1>u, <1>h, <1>m, <1>o, <1>q DEF CronInv, CrStale, Unfinished, RunTerminal,
     None, Stored
<1> QED
  BY <1>1, <1>2, <1>3, <1>4, <1>5, <1>6, <1>7, <1>8 DEF CronInv

LEMMA ReconcileRunningMarksKeeps ==
  ASSUME CronInv, ReconcileRunning, run[Head(queue)] \in RunTerminal
  PROVE  CronInv'
<1> DEFINE d == Head(queue)
<1>u. /\ phase = "reconcile" /\ turn = "create" /\ queue # << >> /\ queue' = Tail(queue)
      /\ disp[d].status = "running" /\ run[d] \in RunTerminal /\ mark_terminal(d)
      /\ now' = now /\ run' = run /\ stale' = stale /\ live' = live
      /\ phase' = phase /\ turn' = turn /\ todo' = todo
      /\ refused' = refused /\ incidents' = incidents
  BY DEF ReconcileRunning, Submitting, runs
<1>t. /\ Head(queue) = queue[1] /\ 1 \in 1..Len(queue) /\ queue' \in Seq(Nat)
      /\ Len(queue') = Len(queue) - 1 /\ Len(queue) \in Nat
      /\ \A i \in 1..Len(queue') : i + 1 \in 1..Len(queue) /\ queue'[i] = queue[i + 1]
      /\ \A e : Queued(e)' => Queued(e)
      /\ \A e : Queued(e) => Queued(e)' \/ e = Head(queue)
  BY <1>u, QueueTail DEF CronInv
<1>h. d \in Stored /\ d = queue[1]
  BY <1>t DEF CronInv, CrQueue
<1> HIDE DEF d
<1>m. /\ disp' \in Seq(DispatchType) /\ SameRows /\ Stored' = Stored
      /\ disp'[d].status = Outcome(d) /\ Outcome(d) \in { "succeeded", "failed" }
      /\ \A e \in Stored : e # d => disp'[e] = disp[e]
      /\ job' \in [Jobs -> JobRecord] /\ disp[d].job \in Jobs
      /\ \A i \in Jobs : job'[i].next = job[i].next /\ job'[i].next \in Nat
      /\ \A i \in Jobs : i # disp[d].job => job'[i] = job[i]
      /\ \A e \in Stored : e # d /\ Engaged(e) => disp[e].job # disp[d].job
      /\ CrJobs'
  BY <1>u, <1>h, MarkTerminal
<1>e. \A e \in Stored : Engaged(e)' => Engaged(e) /\ e # d
  BY <1>u, <1>t, <1>h, <1>m DEF CronInv, CrQueue, Engaged, Active
<1>1. CrTypes'
  BY <1>u, <1>t, <1>h, <1>m, <1>e, BoundsAssumption DEF CronInv, CrTypes
<1>2. CrTimes'
  BY <1>u, <1>t, <1>h, <1>m, <1>e, TimesKept, JobType,
     BoundsAssumption DEF CronInv, CrTypes, SameRows
<1>3. CrCount'
  BY <1>u, <1>t, <1>h, <1>m, <1>e, CountKept, BoundsAssumption DEF CronInv,
     CrTypes, SameRows
<1>4. CrJobs'
  BY <1>m
<1>5. CrRuns'
  BY SMTT(90), <1>u, <1>t, <1>h, <1>m, <1>e DEF CronInv, CrRuns, Stored, SameRows, None,
     RunTerminal
<1>6. CrOwners'
  BY SMTT(30), <1>u, <1>h, <1>m, <1>e, RowType DEF CronInv, CrOwners, CrQueue, SameRows
<1>7. CrQueue'
  <2>1. \A i \in 1..Len(queue') : queue'[i] # d
    <3>1. \A i, k \in 1..Len(queue) : queue[i] = queue[k] => i = k
      BY <1>u DEF CronInv, CrQueue
    <3>2. \A i \in 1..Len(queue') : i + 1 # 1
      OBVIOUS
    <3> QED
      BY <1>t, <1>h, <3>1, <3>2
  <2>2. \A e \in Stored : disp'[e].status = "claimed" <=> disp[e].status = "claimed"
    BY <1>u, <1>h, <1>m
  <2>3. \A i \in 1..Len(queue) : queue[i] \in Stored
    BY DEF CronInv, CrQueue
  <2>4. \A i \in 1..Len(queue') : queue'[i] \in Stored /\ disp'[queue'[i]] = disp[queue'[i]]
    BY <1>t, <1>m, <2>1, <2>3
  <2>5. \A e \in Stored : disp[e].status = "claimed" => Queued(e)'
    BY <1>u, <1>t, <1>h DEF CronInv, CrQueue
  <2>6. \A i \in 1..Len(queue') : disp'[queue'[i]].status \in Active /\ queue'[i] \notin live
    BY <1>u, <1>t, <2>4 DEF CronInv, CrQueue
  <2>7. \A i, k \in 1..Len(queue') : queue'[i] = queue'[k] => i = k
    BY <1>u, <1>t DEF CronInv, CrQueue
  <2>8. \A e \in Stored' : disp'[e].status = "claimed" => Queued(e)'
    BY <1>m, <2>2, <2>5
  <2> QED
    BY ZenonT(60), <1>u, <1>m, <2>4, <2>6, <2>7, <2>8 DEF CrQueue, Submits
<1>8. CrStale'
  BY <1>u, <1>t, <1>h, <1>m, <1>e DEF CronInv, CrStale, Unfinished, RunTerminal,
     None, Stored
<1> QED
  BY <1>1, <1>2, <1>3, <1>4, <1>5, <1>6, <1>7, <1>8 DEF CronInv

LEMMA ReconcileRunningLeavesKeeps ==
  ASSUME CronInv, ReconcileRunning, run[Head(queue)] \notin RunTerminal
  PROVE  CronInv'
<1> DEFINE d == Head(queue)
<1>u. /\ phase = "reconcile" /\ turn = "create" /\ queue # << >> /\ queue' = Tail(queue)
      /\ disp[d].status = "running"
      /\ now' = now /\ job' = job /\ disp' = disp /\ run' = run
      /\ stale' = stale /\ live' = live /\ phase' = phase /\ turn' = turn
      /\ todo' = todo /\ refused' = refused /\ incidents' = incidents
  BY DEF ReconcileRunning, Submitting, runs, store
<1>t. /\ Head(queue) = queue[1] /\ 1 \in 1..Len(queue) /\ queue' \in Seq(Nat)
      /\ Len(queue') = Len(queue) - 1 /\ Len(queue) \in Nat
      /\ \A i \in 1..Len(queue') : i + 1 \in 1..Len(queue) /\ queue'[i] = queue[i + 1]
      /\ \A e : Queued(e)' => Queued(e)
      /\ \A e : Queued(e) => Queued(e)' \/ e = Head(queue)
  BY <1>u, QueueTail DEF CronInv
<1>h. d \in Stored /\ d = queue[1]
  BY <1>t DEF CronInv, CrQueue
<1> HIDE DEF d
<1>1. CrTypes'
  BY <1>u, <1>t, <1>h, BoundsAssumption DEF CronInv, CrTypes
<1>2. CrTimes'
  BY <1>u, <1>t, <1>h, TimesKept, JobType, BoundsAssumption DEF CronInv, CrTypes,
     SameRows
<1>3. CrCount'
  BY <1>u, <1>t, <1>h, CountKept, BoundsAssumption DEF CronInv, CrTypes, SameRows
<1>4. CrJobs'
  BY <1>u, <1>t, <1>h, RowType DEF CronInv, CrJobs, Stored, SameRows
<1>5. CrRuns'
  BY <1>u, <1>t, <1>h DEF CronInv, CrRuns, Stored, SameRows, None, RunTerminal
<1>6. CrOwners'
  BY <1>u, <1>t, <1>h, RowType DEF CronInv, CrOwners, Engaged, Stored, Active,
     SameRows
<1>7. CrQueue'
  BY <1>u, <1>t, <1>h, RowType DEF CronInv, CrQueue, Stored, Active, Submits,
     SameRows
<1>8. CrStale'
  BY <1>u, <1>t, <1>h DEF CronInv, CrStale, Unfinished, RunTerminal, None, Stored
<1> QED
  BY <1>1, <1>2, <1>3, <1>4, <1>5, <1>6, <1>7, <1>8 DEF CronInv

LEMMA SubmitFaultsKeeps ==
  ASSUME CronInv, SubmitFaults
  PROVE  CronInv'
<1>1. incidents' \in 0..MaxIncidents /\ incidents' >= incidents
  BY BoundsAssumption DEF CronInv, CrTypes, SubmitFaults, Incident
<1> QED
  BY <1>1, RaisesKeeps DEF SubmitFaults, Submitting, Submits, store

LEMMA CrashKeeps ==
  ASSUME CronInv, Crash
  PROVE  CronInv'
<1>1. incidents' \in 0..MaxIncidents /\ incidents' >= incidents /\ refused' \in BOOLEAN
  BY BoundsAssumption DEF CronInv, CrTypes, Crash, Incident
<1> QED
  BY <1>1, DieKeeps DEF Crash, store

LEMMA create_runKeeps ==
  ASSUME CronInv, create_run
  PROVE  CronInv'
<1> DEFINE d == Head(queue)
           to == IF run[d] = None THEN "created" ELSE run[d]
<1>u. /\ turn = "create" /\ queue # << >> /\ disp[d].status # "running"
      /\ turn' = "receipt" /\ run' = [ run EXCEPT ![d] = to ]
      /\ now' = now /\ job' = job /\ disp' = disp /\ stale' = stale
      /\ live' = live /\ phase' = phase /\ todo' = todo /\ queue' = queue
      /\ refused' = refused /\ incidents' = incidents
  BY DEF create_run, Submitting, store
<1>h. /\ d = queue[1] /\ 1 \in 1..Len(queue) /\ d \in Stored /\ d \in Ids /\ d \in Nat
      /\ phase \in { "serving", "reconcile" }
  <2>1. d = queue[1] /\ 1 \in 1..Len(queue)
    BY <1>u DEF CronInv, CrTypes
  <2>2. d \in Stored
    BY <2>1 DEF CronInv, CrQueue
  <2>3. d \in Ids /\ d \in Nat
    BY <2>2, StoredRows DEF CronInv, Stored
  <2>4. phase \in { "serving", "reconcile" }
    BY <1>u DEF CronInv, CrQueue, Submits
  <2> QED
    BY <2>1, <2>2, <2>3, <2>4
<1> HIDE DEF d
<1>s. disp[d].status \in { "claimed", "cancelled" } /\ Queued(d) /\ (phase = "reconcile" => disp[d].status = "claimed")
  BY <1>u, <1>h DEF CronInv, CrQueue, Active, Queued
<1>o. /\ run' \in [Ids -> RunStates]
      /\ \A e \in Ids : e # d => run'[e] = run[e]
      /\ run'[d] # None /\ (run[d] # None => run'[d] = run[d]) /\ (run[d] = None => run'[d] = "created")
  BY <1>u, <1>h DEF CronInv, CrTypes, RunStates, None
<1> HIDE DEF to
<1>q. \A e : Queued(e)' <=> Queued(e)
  BY <1>u DEF Queued
<1>1. CrTypes'
  BY <1>u, <1>h, <1>s, <1>o, <1>q, BoundsAssumption DEF CronInv, CrTypes
<1>2. CrTimes'
  BY <1>u, <1>h, <1>s, <1>o, <1>q, TimesKept, JobType,
     BoundsAssumption DEF CronInv, CrTypes, SameRows
<1>3. CrCount'
  BY <1>u, <1>h, <1>s, <1>o, <1>q, CountKept, BoundsAssumption DEF CronInv,
     CrTypes, SameRows
<1>4. CrJobs'
  BY <1>u, <1>h, <1>s, <1>o, <1>q, RowType DEF CronInv, CrJobs, Stored, SameRows
<1>5. CrRuns'
  BY <1>u, <1>h, <1>s, <1>o, <1>q DEF CronInv, CrRuns, Stored, SameRows, None,
     RunTerminal
<1>6. CrOwners'
  <2>1. ASSUME NEW e \in Stored, Engaged(e)' PROVE Engaged(e)
    BY <1>u, <1>h, <1>s, <1>o, <1>q, <2>1, StoredRows DEF CronInv, Engaged, Active,
       Stored
  <2> QED
    BY <1>u, <2>1 DEF CronInv, CrOwners, Stored
<1>7. CrQueue'
  BY <1>u, <1>h, <1>s, <1>o, <1>q, RowType DEF CronInv, CrQueue, Stored, Active,
     Submits, SameRows
<1>8. CrStale'
  BY <1>u, <1>h, <1>s, <1>o, <1>q DEF CronInv, CrStale, Unfinished, RunTerminal,
     None, Stored
<1> QED
  BY <1>1, <1>2, <1>3, <1>4, <1>5, <1>6, <1>7, <1>8 DEF CronInv

LEMMA BindReceiptKeeps ==
  ASSUME CronInv, BindReceipt
  PROVE  CronInv'
<1> DEFINE d == Head(queue)
<1> SUFFICES ASSUME ~ (run[d] = "created" /\ d \in stale) PROVE CronInv'
  <2>1. CASE run[d] = "created" /\ d \in stale
    <3>1. incidents' \in 0..MaxIncidents /\ incidents' >= incidents
      BY BoundsAssumption DEF CronInv, CrTypes, BindReceipt, Apply
    <3> QED
      BY <2>1, <3>1, RaisesKeeps DEF BindReceipt, Apply, Submitting, Submits, store
  <2> QED
    BY <2>1
<1> DEFINE to == IF run[d] = "created" THEN "receipted" ELSE run[d]
<1>u. /\ turn = "receipt" /\ queue # << >>
      /\ turn' = "queue" /\ run' = [ run EXCEPT ![d] = to ]
      /\ now' = now /\ job' = job /\ disp' = disp /\ stale' = stale
      /\ live' = live /\ phase' = phase /\ todo' = todo /\ queue' = queue
      /\ refused' = refused /\ incidents' = incidents
  BY DEF BindReceipt, Apply, Submitting, store
<1>h. /\ d = queue[1] /\ 1 \in 1..Len(queue) /\ d \in Stored /\ d \in Ids /\ d \in Nat
      /\ phase \in { "serving", "reconcile" }
  <2>1. d = queue[1] /\ 1 \in 1..Len(queue)
    BY <1>u DEF CronInv, CrTypes
  <2>2. d \in Stored
    BY <2>1 DEF CronInv, CrQueue
  <2>3. d \in Ids /\ d \in Nat
    BY <2>2, StoredRows DEF CronInv, Stored
  <2>4. phase \in { "serving", "reconcile" }
    BY <1>u DEF CronInv, CrQueue, Submits
  <2> QED
    BY <2>1, <2>2, <2>3, <2>4
<1> HIDE DEF d
<1>o. /\ run' \in [Ids -> RunStates]
      /\ \A e \in Ids : e # d => run'[e] = run[e]
      /\ (run[d] = "created" => run'[d] = "receipted") /\ (run[d] # "created" => run'[d] = run[d])
      /\ (run'[d] = None <=> run[d] = None)
  BY <1>u, <1>h DEF CronInv, CrTypes, RunStates, None
<1> HIDE DEF to
<1>q. \A e : Queued(e)' <=> Queued(e)
  BY <1>u DEF Queued
<1>1. CrTypes'
  BY <1>u, <1>h, <1>o, <1>q, BoundsAssumption DEF CronInv, CrTypes
<1>2. CrTimes'
  BY <1>u, <1>h, <1>o, <1>q, TimesKept, JobType, BoundsAssumption DEF CronInv,
     CrTypes, SameRows
<1>3. CrCount'
  BY <1>u, <1>h, <1>o, <1>q, CountKept, BoundsAssumption DEF CronInv, CrTypes,
     SameRows
<1>4. CrJobs'
  BY <1>u, <1>h, <1>o, <1>q, RowType DEF CronInv, CrJobs, Stored, SameRows
<1>5. CrRuns'
  BY <1>u, <1>h, <1>o, <1>q DEF CronInv, CrRuns, Stored, SameRows, None, RunTerminal
<1>6. CrOwners'
  <2>1. ASSUME NEW e \in Stored, Engaged(e)' PROVE Engaged(e)
    BY <1>u, <1>h, <1>o, <1>q, <2>1, StoredRows DEF CronInv, Engaged, Active, Stored
  <2> QED
    BY <1>u, <2>1 DEF CronInv, CrOwners, Stored
<1>7. CrQueue'
  BY SMTT(30), <1>u, <1>h, <1>o, <1>q, RowType DEF CronInv, CrQueue, Stored, Active, Submits,
     SameRows
<1>8. CrStale'
  BY <1>u, <1>h, <1>o, <1>q DEF CronInv, CrStale, Unfinished, RunTerminal, None,
     Stored
<1> QED
  BY <1>1, <1>2, <1>3, <1>4, <1>5, <1>6, <1>7, <1>8 DEF CronInv

LEMMA QueueRunKeeps ==
  ASSUME CronInv, QueueRun
  PROVE  CronInv'
<1> DEFINE d == Head(queue)
<1> SUFFICES ASSUME ~ (run[d] = "receipted" /\ d \in stale) PROVE CronInv'
  <2>1. CASE run[d] = "receipted" /\ d \in stale
    <3>1. incidents' \in 0..MaxIncidents /\ incidents' >= incidents
      BY BoundsAssumption DEF CronInv, CrTypes, QueueRun, Apply
    <3> QED
      BY <2>1, <3>1, RaisesKeeps DEF QueueRun, Apply, Submitting, Submits, store
  <2> QED
    BY <2>1
<1> DEFINE to == IF run[d] = "receipted" THEN "queued" ELSE run[d]
<1>u. /\ turn = "queue" /\ queue # << >>
      /\ turn' = "bind" /\ run' = [ run EXCEPT ![d] = to ]
      /\ now' = now /\ job' = job /\ disp' = disp /\ stale' = stale
      /\ live' = live /\ phase' = phase /\ todo' = todo /\ queue' = queue
      /\ refused' = refused /\ incidents' = incidents
  BY DEF QueueRun, Apply, Submitting, store
<1>h. /\ d = queue[1] /\ 1 \in 1..Len(queue) /\ d \in Stored /\ d \in Ids /\ d \in Nat
      /\ phase \in { "serving", "reconcile" }
  <2>1. d = queue[1] /\ 1 \in 1..Len(queue)
    BY <1>u DEF CronInv, CrTypes
  <2>2. d \in Stored
    BY <2>1 DEF CronInv, CrQueue
  <2>3. d \in Ids /\ d \in Nat
    BY <2>2, StoredRows DEF CronInv, Stored
  <2>4. phase \in { "serving", "reconcile" }
    BY <1>u DEF CronInv, CrQueue, Submits
  <2> QED
    BY <2>1, <2>2, <2>3, <2>4
<1> HIDE DEF d
<1>o. /\ run' \in [Ids -> RunStates]
      /\ \A e \in Ids : e # d => run'[e] = run[e]
      /\ (run[d] = "receipted" => run'[d] = "queued") /\ (run[d] # "receipted" => run'[d] = run[d])
      /\ (run'[d] = None <=> run[d] = None)
  BY <1>u, <1>h DEF CronInv, CrTypes, RunStates, None
<1> HIDE DEF to
<1>q. \A e : Queued(e)' <=> Queued(e)
  BY <1>u DEF Queued
<1>1. CrTypes'
  BY <1>u, <1>h, <1>o, <1>q, BoundsAssumption DEF CronInv, CrTypes
<1>2. CrTimes'
  BY <1>u, <1>h, <1>o, <1>q, TimesKept, JobType, BoundsAssumption DEF CronInv,
     CrTypes, SameRows
<1>3. CrCount'
  BY <1>u, <1>h, <1>o, <1>q, CountKept, BoundsAssumption DEF CronInv, CrTypes,
     SameRows
<1>4. CrJobs'
  BY <1>u, <1>h, <1>o, <1>q, RowType DEF CronInv, CrJobs, Stored, SameRows
<1>5. CrRuns'
  BY <1>u, <1>h, <1>o, <1>q DEF CronInv, CrRuns, Stored, SameRows, None, RunTerminal
<1>6. CrOwners'
  <2>1. ASSUME NEW e \in Stored, Engaged(e)' PROVE Engaged(e)
    BY <1>u, <1>h, <1>o, <1>q, <2>1, StoredRows DEF CronInv, Engaged, Active, Stored
  <2> QED
    BY <1>u, <2>1 DEF CronInv, CrOwners, Stored
<1>7. CrQueue'
  BY SMTT(30), <1>u, <1>h, <1>o, <1>q, RowType DEF CronInv, CrQueue, Stored, Active, Submits,
     SameRows
<1>8. CrStale'
  BY <1>u, <1>h, <1>o, <1>q DEF CronInv, CrStale, Unfinished, RunTerminal, None,
     Stored
<1> QED
  BY <1>1, <1>2, <1>3, <1>4, <1>5, <1>6, <1>7, <1>8 DEF CronInv

LEMMA PoolSubmitKeeps ==
  ASSUME CronInv, PoolSubmit
  PROVE  CronInv'
<1> DEFINE d == Head(queue)
<1> SUFFICES ASSUME d \notin stale PROVE CronInv'
  <2>1. CASE d \in stale
    <3>1. incidents' \in 0..MaxIncidents /\ incidents' >= incidents
      BY BoundsAssumption DEF CronInv, CrTypes, PoolSubmit
    <3> QED
      BY <2>1, <3>1, RaisesKeeps DEF PoolSubmit, Submitting, Submits, store
  <2> QED
    BY <2>1
<1>u. /\ turn = "pool" /\ queue # << >> /\ queue' = Tail(queue)
      /\ turn' = "free" /\ live' = live \union { d }
      /\ now' = now /\ job' = job /\ disp' = disp /\ run' = run
      /\ stale' = stale /\ phase' = phase /\ todo' = todo
      /\ refused' = refused /\ incidents' = incidents
  BY DEF PoolSubmit, Submitting, store
<1>h. /\ d = queue[1] /\ 1 \in 1..Len(queue) /\ d \in Stored /\ d \in Ids /\ d \in Nat
      /\ phase \in { "serving", "reconcile" }
  <2>1. d = queue[1] /\ 1 \in 1..Len(queue)
    BY <1>u DEF CronInv, CrTypes
  <2>2. d \in Stored
    BY <2>1 DEF CronInv, CrQueue
  <2>3. d \in Ids /\ d \in Nat
    BY <2>2, StoredRows DEF CronInv, Stored
  <2>4. phase \in { "serving", "reconcile" }
    BY <1>u DEF CronInv, CrQueue, Submits
  <2> QED
    BY <2>1, <2>2, <2>3, <2>4
<1>t. /\ Head(queue) = queue[1] /\ 1 \in 1..Len(queue) /\ queue' \in Seq(Nat)
      /\ Len(queue') = Len(queue) - 1 /\ Len(queue) \in Nat
      /\ \A i \in 1..Len(queue') : i + 1 \in 1..Len(queue) /\ queue'[i] = queue[i + 1]
      /\ \A e : Queued(e)' => Queued(e)
      /\ \A e : Queued(e) => Queued(e)' \/ e = Head(queue)
  BY <1>u, QueueTail DEF CronInv
<1>s. disp[d].status = "running"
  BY <1>u, <1>h DEF CronInv, CrQueue
<1> HIDE DEF d
<1>1. CrTypes'
  BY <1>u, <1>h, <1>t, <1>s, BoundsAssumption DEF CronInv, CrTypes
<1>2. CrTimes'
  BY <1>u, <1>h, <1>t, <1>s, TimesKept, JobType, BoundsAssumption DEF CronInv,
     CrTypes, SameRows
<1>3. CrCount'
  BY <1>u, <1>h, <1>t, <1>s, CountKept, BoundsAssumption DEF CronInv, CrTypes,
     SameRows
<1>4. CrJobs'
  BY <1>u, <1>h, <1>t, <1>s, RowType DEF CronInv, CrJobs, Stored, SameRows
<1>5. CrRuns'
  BY <1>u, <1>h, <1>t, <1>s DEF CronInv, CrRuns, Stored, SameRows, None, RunTerminal
<1>6. CrOwners'
  <2>1. ASSUME NEW e \in Stored, Engaged(e)' PROVE Engaged(e)
    BY <1>u, <1>t, <1>s, <2>1 DEF Engaged, Active
  <2> QED
    BY <1>u, <1>h, <1>s, <2>1 DEF CronInv, CrOwners, Stored
<1>7. CrQueue'
  BY <1>u, <1>h, <1>t, <1>s, RowType DEF CronInv, CrQueue, Stored, Active, Submits,
     SameRows
<1>8. CrStale'
  BY <1>u, <1>h, <1>t, <1>s DEF CronInv, CrStale, Unfinished, RunTerminal, None,
     Stored
<1> QED
  BY <1>1, <1>2, <1>3, <1>4, <1>5, <1>6, <1>7, <1>8 DEF CronInv

LEMMA StartRunKeeps ==
  ASSUME CronInv, NEW d \in Ids, StartRun(d)
  PROVE  CronInv'
<1>u. /\ turn = "free" /\ d \in live /\ run[d] = "queued" /\ run' = [ run EXCEPT ![d] = "running" ]
      /\ now' = now /\ job' = job /\ disp' = disp /\ stale' = stale
      /\ live' = live /\ phase' = phase /\ turn' = turn /\ todo' = todo
      /\ queue' = queue /\ refused' = refused /\ incidents' = incidents
  BY DEF StartRun, loop, store
<1>h. d \in Stored /\ disp[d].status = "running"
  BY <1>u DEF CronInv, CrOwners, StartRun, Bound
<1>o. /\ run' \in [Ids -> RunStates]
      /\ \A e \in Ids : e # d => run'[e] = run[e]
  BY <1>u DEF CronInv, CrTypes, RunStates, RunTerminal
<1>q. \A e : Queued(e)' <=> Queued(e)
  BY <1>u DEF Queued
<1>1. CrTypes'
  BY <1>u, <1>h, <1>o, <1>q, BoundsAssumption DEF CronInv, CrTypes
<1>2. CrTimes'
  BY <1>u, <1>h, <1>o, <1>q, TimesKept, JobType, BoundsAssumption DEF CronInv,
     CrTypes, SameRows
<1>3. CrCount'
  BY <1>u, <1>h, <1>o, <1>q, CountKept, BoundsAssumption DEF CronInv, CrTypes,
     SameRows
<1>4. CrJobs'
  BY <1>u, <1>h, <1>o, <1>q, RowType DEF CronInv, CrJobs, Stored, SameRows
<1>5. CrRuns'
  BY <1>u, <1>h, <1>o, <1>q DEF CronInv, CrRuns, Stored, SameRows, None, RunTerminal
<1>6. CrOwners'
  <2>1. ASSUME NEW e \in Stored, Engaged(e)' PROVE Engaged(e)
    BY <1>u, <1>h, <1>o, <1>q, <2>1, StoredRows DEF CronInv, Engaged, Active,
       Stored, None, RunTerminal
  <2> QED
    BY <1>u, <2>1 DEF CronInv, CrOwners, Stored
<1>7. CrQueue'
  BY <1>u, <1>h, <1>o, <1>q, RowType DEF CronInv, CrQueue, Stored, Active, Submits,
     SameRows
<1>8. CrStale'
  BY <1>u, <1>h, <1>o, <1>q DEF CronInv, CrStale, Unfinished, RunTerminal, None,
     Stored
<1> QED
  BY <1>1, <1>2, <1>3, <1>4, <1>5, <1>6, <1>7, <1>8 DEF CronInv

LEMMA FinishRunKeeps ==
  ASSUME CronInv, NEW d \in Ids, NEW end \in RunTerminal, FinishRun(d, end)
  PROVE  CronInv'
<1>u. /\ turn = "free" /\ d \in live /\ run[d] \in { "running", "queued" }
      /\ run' = [ run EXCEPT ![d] = end ]
      /\ now' = now /\ job' = job /\ disp' = disp /\ stale' = stale
      /\ live' = live /\ phase' = phase /\ turn' = turn /\ todo' = todo
      /\ queue' = queue /\ refused' = refused /\ incidents' = incidents
  BY DEF FinishRun, loop, store
<1>h. d \in Stored /\ disp[d].status \in { "running", "cancelled" }
  BY <1>u DEF CronInv, CrOwners
<1>o. /\ run' \in [Ids -> RunStates]
      /\ \A e \in Ids : e # d => run'[e] = run[e]
  BY <1>u DEF CronInv, CrTypes, RunStates, RunTerminal
<1>q. \A e : Queued(e)' <=> Queued(e)
  BY <1>u DEF Queued
<1>1. CrTypes'
  BY <1>u, <1>h, <1>o, <1>q, BoundsAssumption DEF CronInv, CrTypes
<1>2. CrTimes'
  BY <1>u, <1>h, <1>o, <1>q, TimesKept, JobType, BoundsAssumption DEF CronInv,
     CrTypes, SameRows
<1>3. CrCount'
  BY <1>u, <1>h, <1>o, <1>q, CountKept, BoundsAssumption DEF CronInv, CrTypes,
     SameRows
<1>4. CrJobs'
  BY <1>u, <1>h, <1>o, <1>q, RowType DEF CronInv, CrJobs, Stored, SameRows
<1>5. CrRuns'
  BY <1>u, <1>h, <1>o, <1>q DEF CronInv, CrRuns, Stored, RunTerminal, None
<1>6. CrOwners'
  <2>1. ASSUME NEW e \in Stored, Engaged(e)' PROVE Engaged(e)
    BY <1>u, <1>h, <1>o, <1>q, <2>1, StoredRows DEF CronInv, Engaged, Active,
       Stored, None, RunTerminal
  <2> QED
    BY <1>u, <2>1 DEF CronInv, CrOwners, Stored
<1>7. CrQueue'
  BY <1>u, <1>h, <1>o, <1>q, RowType DEF CronInv, CrQueue, Stored, Active, Submits,
     SameRows
<1>8. CrStale'
  BY <1>u, <1>h, <1>o, <1>q DEF CronInv, CrStale, Unfinished, RunTerminal, None,
     Stored
<1> QED
  BY <1>1, <1>2, <1>3, <1>4, <1>5, <1>6, <1>7, <1>8 DEF CronInv

LEMMA ParkRunKeeps ==
  ASSUME CronInv, NEW d \in Ids, ParkRun(d)
  PROVE  CronInv'
<1>u. /\ turn = "free" /\ d \in live /\ live' = live \ { d }
      /\ run[d] \in { "running", "recovery" } /\ run' = [ run EXCEPT ![d] = "recovery" ]
      /\ now' = now /\ job' = job /\ disp' = disp /\ stale' = stale
      /\ phase' = phase /\ turn' = turn /\ todo' = todo /\ queue' = queue
      /\ refused' = refused /\ incidents' = incidents
  BY DEF ParkRun, loop, store
<1>h. d \in Stored /\ disp[d].status = "running"
  BY <1>u DEF CronInv, CrOwners, CrRuns
<1>o. /\ run' \in [Ids -> RunStates]
      /\ \A e \in Ids : e # d => run'[e] = run[e]
  BY <1>u DEF CronInv, CrTypes, RunStates, RunTerminal
<1>q. \A e : Queued(e)' <=> Queued(e)
  BY <1>u DEF Queued
<1>1. CrTypes'
  BY <1>u, <1>h, <1>o, <1>q, BoundsAssumption DEF CronInv, CrTypes
<1>2. CrTimes'
  BY <1>u, <1>h, <1>o, <1>q, TimesKept, JobType, BoundsAssumption DEF CronInv,
     CrTypes, SameRows
<1>3. CrCount'
  BY <1>u, <1>h, <1>o, <1>q, CountKept, BoundsAssumption DEF CronInv, CrTypes,
     SameRows
<1>4. CrJobs'
  BY <1>u, <1>h, <1>o, <1>q, RowType DEF CronInv, CrJobs, Stored, SameRows
<1>5. CrRuns'
  BY <1>u, <1>h, <1>o, <1>q DEF CronInv, CrRuns, Stored, SameRows, None, RunTerminal
<1>6. CrOwners'
  <2>1. ASSUME NEW e \in Stored, Engaged(e)' PROVE Engaged(e)
    BY <1>u, <1>h, <1>o, <1>q, <2>1, StoredRows DEF CronInv, Engaged, Active,
       Stored, None, RunTerminal
  <2> QED
    BY <1>u, <2>1 DEF CronInv, CrOwners, Stored
<1>7. CrQueue'
  BY <1>u, <1>h, <1>o, <1>q, RowType DEF CronInv, CrQueue, Stored, Active, Submits,
     SameRows
<1>8. CrStale'
  BY <1>u, <1>h, <1>o, <1>q DEF CronInv, CrStale, Unfinished, RunTerminal, None,
     Stored
<1> QED
  BY <1>1, <1>2, <1>3, <1>4, <1>5, <1>6, <1>7, <1>8 DEF CronInv

LEMMA RecoverRunKeeps ==
  ASSUME CronInv, NEW d \in Ids, NEW end \in RunTerminal, RecoverRun(d, end)
  PROVE  CronInv'
<1>u. /\ turn = "free" /\ phase = "serving" /\ run[d] = "recovery" /\ run' = [ run EXCEPT ![d] = end ]
      /\ incidents' \in 0..MaxIncidents /\ incidents' >= incidents
      /\ now' = now /\ job' = job /\ disp' = disp /\ stale' = stale
      /\ live' = live /\ phase' = phase /\ turn' = turn /\ todo' = todo
      /\ queue' = queue /\ refused' = refused
  BY BoundsAssumption DEF CronInv, CrTypes, RecoverRun, Asked, Serving, Incident,
     loop, store
<1>h. d \in Stored /\ disp[d].status \notin { "cancelled", "pending", "skipped", "claimed" }
  BY <1>u DEF CronInv, CrRuns, None
<1>o. /\ run' \in [Ids -> RunStates]
      /\ \A e \in Ids : e # d => run'[e] = run[e]
  BY <1>u DEF CronInv, CrTypes, RunStates, RunTerminal
<1>q. \A e : Queued(e)' <=> Queued(e)
  BY <1>u DEF Queued
<1>1. CrTypes'
  BY <1>u, <1>h, <1>o, <1>q, BoundsAssumption DEF CronInv, CrTypes
<1>2. CrTimes'
  BY <1>u, <1>h, <1>o, <1>q, TimesKept, JobType, BoundsAssumption DEF CronInv,
     CrTypes, SameRows
<1>3. CrCount'
  BY <1>u, <1>h, <1>o, <1>q, CountKept, BoundsAssumption DEF CronInv, CrTypes,
     SameRows
<1>4. CrJobs'
  BY <1>u, <1>h, <1>o, <1>q, RowType DEF CronInv, CrJobs, Stored, SameRows
<1>5. CrRuns'
  BY <1>u, <1>h, <1>o, <1>q DEF CronInv, CrRuns, Stored, SameRows, None, RunTerminal
<1>6. CrOwners'
  <2>1. ASSUME NEW e \in Stored, Engaged(e)' PROVE Engaged(e)
    BY <1>u, <1>h, <1>o, <1>q, <2>1, StoredRows DEF CronInv, Engaged, Active,
       Stored, None, RunTerminal
  <2> QED
    BY <1>u, <2>1 DEF CronInv, CrOwners, Stored
<1>7. CrQueue'
  BY <1>u, <1>q DEF CronInv, CrQueue, Stored, Submits
<1>8. CrStale'
  BY <1>u, <1>h, <1>o, <1>q DEF CronInv, CrStale, Unfinished, RunTerminal, None,
     Stored
<1> QED
  BY <1>1, <1>2, <1>3, <1>4, <1>5, <1>6, <1>7, <1>8 DEF CronInv

LEMMA StartKeeps ==
  ASSUME CronInv, Start
  PROVE  CronInv'
<1> DEFINE ds == { d \in Stored : disp[d].status \in Active }
<1>u. /\ phase = "down" /\ phase' = "reconcile" /\ turn' = "create" /\ queue' \in InOrder(ds)
      /\ now' = now /\ job' = job /\ disp' = disp /\ run' = run
      /\ stale' = stale /\ live' = live /\ todo' = todo
      /\ refused' = refused /\ incidents' = incidents
  BY DEF Start, store, runs
<1>f. IsFiniteSet(ds) /\ ds \in SUBSET Nat
  BY UpTo, FS_Subset DEF CronInv, CrTypes, Stored
<1> DEFINE q == queue'
<1> HIDE DEF ds
<1>o. /\ queue' \in Seq(Nat) /\ \A i \in 1..Len(queue') : queue'[i] \in ds
      /\ \A i, k \in 1..Len(queue') : queue'[i] = queue'[k] => i = k
      /\ \A d \in ds : Queued(d)'
  BY <1>u, <1>f, OrderedRows DEF Queued
<1>d. ds = { d \in Stored : disp[d].status \in Active }
  BY DEF ds
<1>1. CrTypes'
  BY <1>u, <1>f, <1>o, <1>d, BoundsAssumption DEF CronInv, CrTypes
<1>2. CrTimes'
  BY <1>u, <1>f, <1>o, <1>d, TimesKept, JobType, BoundsAssumption DEF CronInv,
     CrTypes, SameRows
<1>3. CrCount'
  BY <1>u, <1>f, <1>o, <1>d, CountKept, BoundsAssumption DEF CronInv, CrTypes,
     SameRows
<1>4. CrJobs'
  BY <1>u, <1>f, <1>o, <1>d, RowType DEF CronInv, CrJobs, Stored, SameRows
<1>5. CrRuns'
  BY <1>u, <1>f, <1>o, <1>d DEF CronInv, CrRuns, Stored, SameRows, None, RunTerminal
<1>6. CrOwners'
  BY <1>u, <1>f, <1>o, <1>d, RowType DEF CronInv, CrOwners, Engaged, Stored,
     Active, SameRows
<1>7. CrQueue'
  BY <1>u, <1>f, <1>o, <1>d, RowType DEF CronInv, CrQueue, Stored, Active, Submits,
     SameRows
<1>8. CrStale'
  BY <1>u, <1>f, <1>o, <1>d DEF CronInv, CrStale, Unfinished, RunTerminal, None,
     Stored
<1> QED
  BY <1>1, <1>2, <1>3, <1>4, <1>5, <1>6, <1>7, <1>8 DEF CronInv

LEMMA ReconciledKeeps ==
  ASSUME CronInv, Reconciled
  PROVE  CronInv'
<1>u. /\ phase = "reconcile" /\ queue = << >> /\ phase' = "recover" /\ turn' = "free"
      /\ queue' \in InOrder(Unfinished)
      /\ now' = now /\ job' = job /\ disp' = disp /\ run' = run
      /\ stale' = stale /\ live' = live /\ todo' = todo
      /\ refused' = refused /\ incidents' = incidents
  BY DEF Reconciled, store, runs
<1>s. Unfinished \subseteq Stored
  BY DEF CronInv, CrRuns, Unfinished
<1>g. IsFiniteSet(Stored) /\ Stored \in SUBSET Nat
  BY UpTo DEF CronInv, CrTypes, Stored
<1>f. IsFiniteSet(Unfinished) /\ Unfinished \in SUBSET Nat
  BY <1>s, <1>g, FS_Subset
<1>o. /\ queue' \in Seq(Nat) /\ \A i \in 1..Len(queue') : queue'[i] \in Unfinished
      /\ \A i, k \in 1..Len(queue') : queue'[i] = queue'[k] => i = k
      /\ \A d \in Unfinished : Queued(d)'
  BY <1>u, <1>f, OrderedRows DEF Queued
<1>e. \A d : ~ Queued(d)
  BY <1>u DEF Queued
<1>w. Unfinished' = Unfinished
  BY <1>u DEF Unfinished
<1>1. CrTypes'
  BY <1>u, <1>s, <1>g, <1>f, <1>o, <1>e, <1>w, BoundsAssumption DEF CronInv, CrTypes
<1>2. CrTimes'
  BY <1>u, <1>s, <1>g, <1>f, <1>o, <1>e, <1>w, TimesKept, JobType,
     BoundsAssumption DEF CronInv, CrTypes, SameRows
<1>3. CrCount'
  BY <1>u, <1>s, <1>g, <1>f, <1>o, <1>e, <1>w, CountKept,
     BoundsAssumption DEF CronInv, CrTypes, SameRows
<1>4. CrJobs'
  BY <1>u, <1>s, <1>g, <1>f, <1>o, <1>e, <1>w, RowType DEF CronInv, CrJobs, Stored,
     SameRows
<1>5. CrRuns'
  BY <1>u, <1>s, <1>g, <1>f, <1>o, <1>e, <1>w DEF CronInv, CrRuns, Stored,
     SameRows, None, RunTerminal
<1>6. CrOwners'
  BY <1>u, <1>s, <1>g, <1>f, <1>o, <1>e, <1>w, RowType DEF CronInv, CrOwners,
     Engaged, Stored, Active, SameRows
<1>7. CrQueue'
  BY <1>u, <1>s, <1>g, <1>f, <1>o, <1>e, <1>w, RowType DEF CronInv, CrQueue,
     Stored, Active, Submits, SameRows
<1>8. CrStale'
  BY <1>u, <1>o, <1>w DEF CronInv, CrStale
<1> QED
  BY <1>1, <1>2, <1>3, <1>4, <1>5, <1>6, <1>7, <1>8 DEF CronInv

LEMMA RecoveredKeeps ==
  ASSUME CronInv, Recovered
  PROVE  CronInv'
<1>u. /\ phase = "recover" /\ queue = << >> /\ phase' = "serving"
      /\ now' = now /\ job' = job /\ disp' = disp /\ run' = run
      /\ stale' = stale /\ live' = live /\ turn' = turn /\ todo' = todo
      /\ queue' = queue /\ refused' = refused /\ incidents' = incidents
  BY DEF Recovered, store, runs, loop
<1>e. \A d : ~ Queued(d) /\ ~ Queued(d)'
  BY <1>u DEF Queued
<1>1. CrTypes'
  BY <1>u, <1>e, BoundsAssumption DEF CronInv, CrTypes
<1>2. CrTimes'
  BY <1>u, <1>e, TimesKept, JobType, BoundsAssumption DEF CronInv, CrTypes, SameRows
<1>3. CrCount'
  BY <1>u, <1>e, CountKept, BoundsAssumption DEF CronInv, CrTypes, SameRows
<1>4. CrJobs'
  BY <1>u, <1>e, RowType DEF CronInv, CrJobs, Stored, SameRows
<1>5. CrRuns'
  BY <1>u, <1>e DEF CronInv, CrRuns, Stored, SameRows, None, RunTerminal
<1>6. CrOwners'
  BY <1>u, <1>e, RowType DEF CronInv, CrOwners, Engaged, Stored, Active, SameRows
<1>7. CrQueue'
  BY <1>u, <1>e, RowType DEF CronInv, CrQueue, Stored, Active, Submits, SameRows
<1>8. CrStale'
  BY <1>u, <1>e DEF CronInv, CrStale, Unfinished, RunTerminal, None, Stored
<1> QED
  BY <1>1, <1>2, <1>3, <1>4, <1>5, <1>6, <1>7, <1>8 DEF CronInv

LEMMA RecoverRefusedKeeps ==
  ASSUME CronInv, NEW d \in Ids, NEW to, Recover(d, to), run[d] \in RunTerminal
  PROVE  CronInv'
<1>1. incidents' \in 0..MaxIncidents /\ incidents' >= incidents
  BY BoundsAssumption DEF CronInv, CrTypes, Recover
<1>2. Die /\ refused' \in BOOLEAN /\ UNCHANGED << now, job, disp, run >>
  BY DEF Recover, store
<1> QED
  BY <1>1, <1>2, DieKeeps

LEMMA RecoverAdoptsKeeps ==
  ASSUME CronInv, NEW d \in Ids, NEW to \in { "running", "queued", "recovery",
  "ok", "failed" }, Recover(d, to), run[d] \notin RunTerminal
  PROVE  CronInv'
<1>u. /\ phase = "recover" /\ queue # << >> /\ d = Head(queue) /\ queue' = Tail(queue)
      /\ run[d] \in { "created", "receipted", "queued", "running", "recovery" }
      /\ run[d] = "recovery" => to = "recovery"
      /\ run[d] \in { "created", "receipted", "queued" } => to = "queued"
      /\ run[d] = "running" /\ d \in live => to \notin RunTerminal
      /\ run' = [ run EXCEPT ![d] = to ] /\ stale' = stale \ { d }
      /\ live' = IF to = "queued" THEN live \union { d } ELSE live
      /\ now' = now /\ job' = job /\ disp' = disp /\ phase' = phase
      /\ turn' = turn /\ todo' = todo /\ refused' = refused
      /\ incidents' = incidents
  BY DEF Recover, store, RunTerminal
<1>t. /\ Head(queue) = queue[1] /\ 1 \in 1..Len(queue) /\ queue' \in Seq(Nat)
      /\ Len(queue') = Len(queue) - 1 /\ Len(queue) \in Nat
      /\ \A i \in 1..Len(queue') : i + 1 \in 1..Len(queue) /\ queue'[i] = queue[i + 1]
      /\ \A e : Queued(e)' => Queued(e)
      /\ \A e : Queued(e) => Queued(e)' \/ e = Head(queue)
  BY <1>u, QueueTail DEF CronInv
<1>g. /\ d \in Stored /\ d = queue[1]
  BY <1>u, <1>t DEF CronInv, CrQueue
<1>s. disp[d].status \in { "pending" } \union Active \union Settled
  BY <1>g, RowType DEF CronInv, DispatchType
<1>h. /\ d \in Stored /\ d = queue[1]
      /\ disp[d].status \in { "running", "cancelled", "succeeded", "failed" }
      /\ to # "recovery" => disp[d].status \in { "running", "cancelled" }
      /\ to \in RunTerminal \union { "running" } => disp[d].status = "running"
      /\ to = "recovery" => disp[d].status # "cancelled"
  BY <1>u, <1>g, <1>s DEF CronInv, CrQueue, CrRuns, Active, Settled, None,
     RunTerminal
<1>o. /\ run' \in [Ids -> RunStates]
      /\ \A e \in Ids : e # d => run'[e] = run[e]
      /\ run'[d] = to
  BY <1>u DEF CronInv, CrTypes, RunStates, RunTerminal
<1>1. CrTypes'
  BY <1>u, <1>t, <1>g, <1>s, <1>h, <1>o, BoundsAssumption DEF CronInv, CrTypes
<1>2. CrTimes'
  BY <1>u, <1>t, <1>g, <1>s, <1>h, <1>o, TimesKept, JobType,
     BoundsAssumption DEF CronInv, CrTypes, SameRows
<1>3. CrCount'
  BY <1>u, <1>t, <1>g, <1>s, <1>h, <1>o, CountKept, BoundsAssumption DEF CronInv,
     CrTypes, SameRows
<1>4. CrJobs'
  BY <1>u, <1>t, <1>g, <1>s, <1>h, <1>o, RowType DEF CronInv, CrJobs, Stored,
     SameRows
<1>5. CrRuns'
  BY <1>u, <1>t, <1>g, <1>s, <1>h, <1>o DEF CronInv, CrRuns, Stored, SameRows,
     None, RunTerminal
<1>6. CrOwners'
  <2>1. ASSUME NEW e \in Stored, Engaged(e)' PROVE Engaged(e)
    <3>1. CASE e # d
      BY <1>u, <1>o, <2>1, <3>1, StoredRows DEF CronInv, Engaged
    <3>2. CASE e = d
      BY <1>u, <1>h, <2>1, <3>2 DEF Engaged, Active, None, RunTerminal
    <3> QED
      BY <3>1, <3>2
  <2> QED
    BY <1>u, <1>h, <2>1 DEF CronInv, CrOwners, Stored
<1>7. CrQueue'
  BY <1>u, <1>t, <1>g, <1>s, <1>h, <1>o, RowType DEF CronInv, CrQueue, Stored,
     Active, Submits, SameRows
<1>8. CrStale'
  BY <1>u, <1>t, <1>g, <1>s, <1>h, <1>o DEF CronInv, CrStale, Unfinished,
     RunTerminal, None, Stored
<1> QED
  BY <1>1, <1>2, <1>3, <1>4, <1>5, <1>6, <1>7, <1>8 DEF CronInv

LEMMA TriggerKeeps ==
  ASSUME CronInv, NEW j \in Jobs, Trigger(j)
  PROVE  CronInv'
<1> DEFINE r == New(j, "run_now", 0, "pending")
<1>1. r.job = j /\ r.trigger # "scheduled" /\ r.status = "pending"
  BY DEF New
<1>2. 0 \in 0..MaxTime
  BY BoundsAssumption
<1>3. r \in DispatchType
  BY <1>2 DEF New, DispatchType
<1>4. disp' = Append(disp, r) /\ job[j].state # None /\ Asked
      /\ UNCHANGED << job, run, stale, turn, todo, queue >>
  BY DEF Trigger, runs, loop
<1> HIDE DEF r
<1> QED
  BY <1>1, <1>3, <1>4, RequestAdded

LEMMA RetryKeeps ==
  ASSUME CronInv, NEW d \in Ids, Retry(d)
  PROVE  CronInv'
<1> DEFINE r == New(disp[d].job, "retry", 0, "pending")
<1>1. r.job = disp[d].job /\ r.trigger # "scheduled" /\ r.status = "pending"
  BY DEF New
<1>2. 0 \in 0..MaxTime
  BY BoundsAssumption
<1>3. d \in Stored /\ disp[d].job \in Jobs /\ job[disp[d].job].state # None
  BY RowType DEF CronInv, CrJobs, Retry
<1>4. r \in DispatchType
  BY <1>2, <1>3 DEF New, DispatchType
<1>5. disp' = Append(disp, r) /\ Asked /\ UNCHANGED << job, run, stale, turn, todo, queue >>
  BY DEF Retry, runs, loop
<1> HIDE DEF r
<1> QED
  BY <1>1, <1>3, <1>4, <1>5, RequestAdded

\* The occurrences of a tick lie between the two cursors.
LEMMA _materialize_dueKeeps ==
  ASSUME CronInv, NEW j \in Jobs, _materialize_due(j)
  PROVE  CronInv'
<1> DEFINE next == IF Times(j) \in { Latest(j), Due(j) } THEN After(j)
                   ELSE job[j].next + Cardinality(Times(j))
           status == IF Skips(j) THEN "skipped" ELSE "pending"
<1>u. /\ turn = "materialize" /\ phase = "serving" /\ j \in todo /\ todo' = todo \ { j }
      /\ disp' = disp \o Dispatched(j, Times(j), status)
      /\ SaveJob(j, [ job[j] EXCEPT !.next = next ])
      /\ now' = now /\ run' = run /\ stale' = stale /\ live' = live /\ phase' = phase
      /\ turn' = turn /\ queue' = queue /\ refused' = refused /\ incidents' = incidents
  BY DEF CronInv, CrQueue, _materialize_due, First, runs
<1>j. /\ job[j].state # None /\ job[j].next \in 1..now /\ now \in Nat /\ now \in 0..MaxTime
      /\ MaxTime \in Nat /\ job[j].next \in Nat /\ job[j] \in JobRecord
  BY <1>u, JobType, BoundsAssumption DEF CronInv, CrTypes, CrQueue
<1>t. PICK a, b \in Nat :
        /\ Times(j) = a..b /\ a <= b + 1 /\ job[j].next <= a /\ b <= now
        /\ next \in { 0 } \union ((b + 1)..(now + 1))
  BY <1>j, TimesShape DEF CronInv
<1>s. status \in { "skipped", "pending" }
  OBVIOUS
<1> HIDE DEF next, status
<1> DEFINE n == b - a + 1
           new == [ i \in 1..n |-> New(j, "scheduled", a + i - 1, status) ]
<1>d. disp' = disp \o new /\ n \in Nat
  <2>1. Dispatched(j, a..b, status) = new
    BY <1>t, IntervalRows
  <2> HIDE DEF new
  <2> QED
    BY <1>u, <1>t, <2>1
<1>r. ASSUME NEW i \in 1..n
      PROVE  /\ new[i] \in DispatchType /\ new[i].job = j /\ new[i].trigger = "scheduled"
             /\ new[i].status = status /\ new[i].at = a + i - 1 /\ a + i - 1 \in 1..now
             /\ a + i - 1 \in a..b
  <2>1. a + i - 1 \in a..b /\ a + i - 1 \in 1..now /\ a + i - 1 \in 0..MaxTime
    BY <1>j, <1>t
  <2>2. new[i] = New(j, "scheduled", a + i - 1, status)
    OBVIOUS
  <2>3. /\ new[i].job = j /\ new[i].trigger = "scheduled"
        /\ new[i].status = status /\ new[i].at = a + i - 1
    BY <2>2 DEF New
  <2>4. New(j, "scheduled", a + i - 1, status) \in DispatchType
    BY <2>1, <1>s DEF New, DispatchType, Settled
  <2> HIDE DEF new
  <2> QED
    BY <2>1, <2>2, <2>3, <2>4
<1>n. new \in Seq(DispatchType) /\ Len(new) = n
  <2>1. new \in [1..n -> DispatchType]
    BY <1>r
  <2> HIDE DEF new, n
  <2> QED
    BY <1>d, <2>1
<1> HIDE DEF new, n
<1>a. /\ disp' \in Seq(DispatchType) /\ Len(disp) \in Nat
      /\ Len(disp') = Len(disp) + n /\ Stored \subseteq Stored'
      /\ \A d \in Stored : disp'[d] = disp[d]
      /\ \A d \in Stored' : d \notin Stored =>
           d - Len(disp) \in 1..n /\ disp'[d] = new[d - Len(disp)]
  BY <1>d, <1>n, AppendRows DEF CronInv
<1>v. [ job[j] EXCEPT !.next = next ] \in JobRecord
  <2>1. next \in 0..(MaxTime + 1)
    BY <1>j, <1>t
  <2> QED
    BY <1>j, <2>1 DEF JobRecord
<1>w. /\ job' \in [Jobs -> JobRecord] /\ job'[j] = [ job[j] EXCEPT !.next = next ]
      /\ \A i \in Jobs \ { j } : job'[i] = job[i]
  BY <1>u, <1>v, JobSet DEF CronInv
<1>x. job'[j].next = next /\ job'[j].current = job[j].current /\ job'[j].state = job[j].state
  BY <1>j, <1>w DEF JobRecord
<1>y. \A i \in Jobs : job'[i].current = job[i].current /\ job'[i].state = job[i].state
  BY <1>w, <1>x
<1>o. ASSUME NEW d \in Scheduled', d \notin Stored
      PROVE  /\ disp'[d].job = j /\ d - Len(disp) \in 1..n /\ d \in Int
             /\ disp'[d].at = a + (d - Len(disp)) - 1 /\ disp'[d].at \in a..b
             /\ disp'[d].at \in 1..now
  <2>1. d \in Stored' /\ d \in Int
    BY DEF Scheduled, Stored
  <2> QED
    BY <1>a, <1>o, <1>r, <2>1
<1>p. ASSUME NEW d \in Scheduled', d \in Stored
      PROVE  /\ d \in Scheduled /\ disp'[d] = disp[d] /\ disp[d].at \in 1..now /\ disp[d].job \in Jobs
             /\ job[disp[d].job].next # 0 => disp[d].at < job[disp[d].job].next
  <2>1. d \in Scheduled /\ disp'[d] = disp[d] /\ disp[d].job \in Jobs
    BY <1>a, <1>p, RowType DEF CronInv, Scheduled
  <2> QED
    BY <2>1 DEF CronInv, CrTimes
<1>z. next \in Nat /\ (next # 0 => b < next)
  BY <1>t, <1>j
<1>q. \A x \in Int : x < job[j].next => x < a
  BY <1>t, <1>j
<1>2. CrTimes'
  <2>1. ASSUME NEW d \in Scheduled'
        PROVE  /\ disp'[d].at \in 1..now'
               /\ job'[disp'[d].job].next # 0 => disp'[d].at < job'[disp'[d].job].next
    <3>1. CASE d \notin Stored
      <4>1. disp'[d].job = j /\ disp'[d].at \in 1..now /\ disp'[d].at \in a..b
        BY <1>o, <3>1
      <4>2. next # 0 => disp'[d].at < next
        BY <1>t, <1>z, <4>1
      <4> QED
        BY <1>u, <1>x, <4>1, <4>2
    <3>2. CASE d \in Stored /\ disp[d].job = j
      <4>1. disp'[d].job = j /\ disp'[d].at \in 1..now /\ disp'[d].at < job[j].next
        BY <1>j, <1>p, <3>2
      <4>2. next # 0 => disp'[d].at < next
        BY <1>t, <1>z, <1>q, <4>1
      <4> QED
        BY <1>u, <1>x, <4>1, <4>2
    <3>3. CASE d \in Stored /\ disp[d].job # j
      <4>1. disp'[d] = disp[d] /\ disp[d].at \in 1..now /\ job'[disp[d].job] = job[disp[d].job]
        BY <1>p, <1>w, <3>3
      <4> QED
        BY <1>u, <1>p, <3>3, <4>1
    <3> QED
      BY <3>1, <3>2, <3>3
  <2>2. ASSUME NEW d \in Scheduled', NEW e \in Scheduled',
               disp'[d].job = disp'[e].job, disp'[d].at = disp'[e].at
        PROVE  d = e
    <3>1. CASE d \in Stored /\ e \in Stored
      BY <1>p, <2>2, <3>1 DEF CronInv, CrTimes
    <3>2. CASE d \notin Stored /\ e \notin Stored
      BY SMTT(30), <1>a, <1>o, <2>2, <3>2
    <3>3. CASE d \in Stored /\ e \notin Stored
      <4>1. /\ disp'[d].at \in 1..now /\ disp'[d] = disp[d]
            /\ job[disp[d].job].next # 0 => disp[d].at < job[disp[d].job].next
        BY <1>p, <3>3
      <4>2. disp'[e].job = j /\ disp'[e].at \in a..b
        BY <1>o, <3>3
      <4>3. disp'[d].at < a
        <5>1. disp[d].job = j /\ job[j].next # 0
          BY <1>j, <2>2, <4>1, <4>2
        <5>2. disp[d].at < job[j].next /\ disp[d].at \in Int
          BY <4>1, <5>1
        <5> QED
          BY <1>q, <4>1, <5>2
      <4> QED
        BY <1>t, <2>2, <4>1, <4>2, <4>3
    <3>4. CASE d \notin Stored /\ e \in Stored
      <4>1. /\ disp'[e].at \in 1..now /\ disp'[e] = disp[e]
            /\ job[disp[e].job].next # 0 => disp[e].at < job[disp[e].job].next
        BY <1>p, <3>4
      <4>2. disp'[d].job = j /\ disp'[d].at \in a..b
        BY <1>o, <3>4
      <4>3. disp'[e].at < a
        <5>1. disp[e].job = j /\ job[j].next # 0
          BY <1>j, <2>2, <4>1, <4>2
        <5>2. disp[e].at < job[j].next /\ disp[e].at \in Int
          BY <4>1, <5>1
        <5> QED
          BY <1>q, <4>1, <5>2
      <4> QED
        BY <1>t, <2>2, <4>1, <4>2, <4>3
    <3> QED
      BY <3>1, <3>2, <3>3, <3>4
  <2> QED
    BY <2>1, <2>2 DEF CrTimes
<1>3. CrCount'
  <2>1. Requests' = Requests
    <3>1. \A d \in Stored' : d \notin Stored => disp'[d].trigger = "scheduled"
      BY <1>a, <1>r
    <3> QED
      BY <1>a, <3>1 DEF Requests, Scheduled
  <2> QED
    BY <1>u, <2>1 DEF CronInv, CrCount
<1>4. CrJobs' /\ CrRuns' /\ CrOwners' /\ CrStale'
  <2>1. \A i \in 1..Len(new) : new[i].status \in { "pending", "skipped" } /\ job[new[i].job].state # None
    BY <1>s, <1>j, <1>n, <1>r
  <2>2. now' \in 0..MaxTime /\ incidents' \in 0..MaxIncidents
    BY <1>u DEF CronInv, CrTypes
  <2> QED
    BY <1>u, <1>d, <1>n, <1>y, <1>2, <1>3, <2>1, <2>2, RowsAdded
<1>1. CrTypes'
  BY <1>u, <1>a, <1>w DEF CronInv, CrTypes
<1>5. CrQueue'
  <2>1. \A i \in todo' : job'[i].state # None /\ job'[i].next \in 1..now
    BY <1>u, <1>w DEF CronInv, CrTypes, CrQueue
  <2> QED
    BY ZenonT(60), <1>u, <1>a, <2>1 DEF CronInv, CrQueue, Submits
<1> QED
  BY <1>1, <1>2, <1>3, <1>4, <1>5 DEF CronInv

-----------------------------------------------------------------------------
(* The invariant. *)

LEMMA InitHolds ==
  ASSUME Init
  PROVE  CronInv
<1>u. /\ now = 0 /\ disp = << >> /\ stale = {} /\ live = {} /\ todo = {} /\ queue = << >>
      /\ phase = "serving" /\ turn = "free" /\ incidents = 0 /\ Len(disp) = 0
      /\ job = [ j \in Jobs |-> NoJob ] /\ run = [ d \in Ids |-> None ] /\ refused = FALSE
      /\ Stored = {} /\ \A d : ~ Queued(d)
  BY DEF Init, Stored, Queued
<1>e. Scheduled = {} /\ Requests = {}
  BY <1>u DEF Scheduled, Requests
<1>1. CrTypes
  <2>1. 0 \in 0..MaxTime /\ 0 \in 0..(MaxTime + 1) /\ 0 \in 0..MaxIncidents /\ 0 \in Nat
    BY BoundsAssumption
  <2>2. NoJob \in JobRecord
    BY <2>1 DEF NoJob, JobRecord
  <2>3. run \in [Ids -> RunStates]
    BY <1>u DEF RunStates
  <2>4. refused \in BOOLEAN
    BY <1>u
  <2> HIDE DEF NoJob
  <2> QED
    BY <1>u, <2>1, <2>2, <2>3, <2>4 DEF CrTypes
<1>2. CrTimes
  BY <1>e DEF CrTimes
<1>3. CrCount
  <2>1. Cardinality(Requests) = 0
    BY <1>e, FS_EmptySet
  <2> QED
    BY <1>u, <2>1 DEF CrCount
<1>4. CrJobs
  BY <1>u DEF CrJobs, NoJob
<1>5. CrRuns
  BY <1>u DEF CrRuns
<1>6. CrOwners
  BY <1>u DEF CrOwners
<1>7. CrQueue
  BY <1>u DEF CrQueue
<1>8. CrStale
  BY <1>u DEF CrStale
<1> QED
  BY <1>1, <1>2, <1>3, <1>4, <1>5, <1>6, <1>7, <1>8 DEF CronInv

LEMMA RequestKeeps ==
  ASSUME CronInv, Requested
  PROVE  CronInv'
<1>1. ASSUME NEW j \in Jobs, NEW s \in Schedules[j], NEW at \in RunAts(s), Create(j, s, at) \/ Edit(j, s, at)
      PROVE  CronInv'
  BY <1>1, CreateKeeps, EditKeeps
<1>2. ASSUME NEW j \in Jobs, NEW s \in Schedules[j], EditPolicy(j, s) PROVE CronInv'
  BY <1>2, EditPolicyKeeps
<1>3. ASSUME NEW j \in Jobs, Pause(j) \/ Resume(j) \/ Trigger(j) \/ Remove(j) PROVE CronInv'
  BY <1>3, PauseKeeps, ResumeKeeps, TriggerKeeps, RemoveKeeps
<1>4. ASSUME NEW d \in Ids, Retry(d) PROVE CronInv'
  BY <1>4, RetryKeeps
<1>5. ASSUME NEW d \in Ids, NEW end \in RunTerminal, RecoverRun(d, end) PROVE CronInv'
  BY <1>5, RecoverRunKeeps
<1> QED
  BY <1>1, <1>2, <1>3, <1>4, <1>5 DEF Requested

LEMMA SchedulingKeeps ==
  ASSUME CronInv, Scheduling
  PROVE  CronInv'
<1>1. CASE Materialized \/ Claimed
  BY <1>1, MaterializedKeeps, ClaimedKeeps
<1>2. ASSUME NEW j \in Jobs, _materialize_due(j) \/ claim_next(j) \/ cancel_unbound(j) \/ Removed(j)
      PROVE  CronInv'
  BY <1>2, _materialize_dueKeeps, claim_nextKeeps, cancel_unboundKeeps, RemovedKeeps
<1> QED
  BY <1>1, <1>2 DEF Scheduling

LEMMA RunStepKeeps ==
  ASSUME CronInv, NEW d \in Ids, RunStep(d)
  PROVE  CronInv'
<1>1. CASE SettleRun(d)
  BY <1>1, SettleRunMarksKeeps, SettleRunLeavesKeeps
<1>2. CASE StartRun(d) \/ FinalizeGivesUp(d) \/ ParkRun(d)
  BY <1>2, StartRunKeeps, FinalizeGivesUpKeeps, ParkRunKeeps
<1>3. ASSUME NEW end \in RunTerminal, FinishRun(d, end) PROVE CronInv'
  BY <1>3, FinishRunKeeps
<1> QED
  BY <1>1, <1>2, <1>3 DEF RunStep

LEMMA StartingKeeps ==
  ASSUME CronInv, Starting
  PROVE  CronInv'
<1>1. CASE Start \/ Reconciled \/ Recovered
  BY <1>1, StartKeeps, ReconciledKeeps, RecoveredKeeps
<1>2. CASE ReconcileRunning
  BY <1>2, ReconcileRunningMarksKeeps, ReconcileRunningLeavesKeeps
<1>3. ASSUME NEW d \in Ids, NEW to \in { "running", "queued", "recovery", "ok", "failed" }, Recover(d, to)
      PROVE  CronInv'
  BY <1>3, RecoverRefusedKeeps, RecoverAdoptsKeeps
<1> QED
  BY <1>1, <1>2, <1>3 DEF Starting

LEMMA StutterKeeps ==
  ASSUME CronInv, UNCHANGED vars
  PROVE  CronInv'
<1>u. /\ now' = now /\ job' = job /\ disp' = disp /\ run' = run
      /\ stale' = stale /\ live' = live /\ phase' = phase /\ turn' = turn
      /\ todo' = todo /\ queue' = queue /\ refused' = refused
      /\ incidents' = incidents
  BY DEF vars
<1> QED
  BY <1>u DEF CronInv, CrTypes, CrTimes, CrCount, CrJobs, CrRuns, CrOwners,
     CrQueue, CrStale,
     Scheduled, Requests, Stored, Queued, Engaged, Unfinished

LEMMA NextKeeps ==
  ASSUME CronInv, [Next]_vars
  PROVE  CronInv'
<1>1. CASE Clock \/ Tick \/ SubmitFaults \/ Crash
  BY <1>1, ClockKeeps, TickKeeps, SubmitFaultsKeeps, CrashKeeps
<1>2. CASE Requested \/ Scheduling \/ Starting
  BY <1>2, RequestKeeps, SchedulingKeeps, StartingKeeps
<1>3. CASE Submission
  BY <1>3, create_runKeeps, BindReceiptKeeps, QueueRunKeeps, bind_runningKeeps,
     PoolSubmitKeeps,
     SubmitNextKeeps DEF Submission
<1>4. ASSUME NEW d \in Ids, RunStep(d) PROVE CronInv'
  BY <1>4, RunStepKeeps
<1>5. CASE UNCHANGED vars
  BY <1>5, StutterKeeps
<1> QED
  BY <1>1, <1>2, <1>3, <1>4, <1>5 DEF Next

(* The inductive invariant: what every request, tick, claim, submission,   *)
(* settlement, death and recovery of durable Cron keeps true of its rows,  *)
(* Runs, tasks and queue.                                                  *)
THEOREM CronInvariant == Spec => []CronInv
<1>1. Init => CronInv
  BY InitHolds
<1>2. CronInv /\ [Next]_vars => CronInv'
  BY NextKeeps
<1> HIDE DEF CronInv
<1> QED
  BY <1>1, <1>2, PTL DEF Spec

LEMMA CyclesHold ==
  ASSUME CronInv
  PROVE  CyclesSound
<1>s. /\ Stored \subseteq Ids /\ Len(disp) \in Nat /\ Len(disp) <= Cardinality(Ids)
      /\ \A d \in Stored : disp[d] \in DispatchType /\ disp[d].job \in Jobs
  BY StoredRows
<1>1. TypeOK
  <2>1. \A j \in Jobs :
          /\ job[j].state \in { None, "scheduled", "paused", "completed", "deleted" }
          /\ job[j].next \in 0..(MaxTime + 1)
          /\ job[j].current \in 0..Len(disp)
    <3>1. ASSUME NEW j \in Jobs
          PROVE  /\ job[j].state \in { None, "scheduled", "paused", "completed", "deleted" }
                 /\ job[j].next \in 0..(MaxTime + 1) /\ job[j].current \in Nat
      BY DEF CronInv, CrTypes, JobRecord
    <3>2. \A j \in Jobs : job[j].current # 0 => job[j].current \in 1..Len(disp)
      BY DEF CronInv, CrJobs, Stored
    <3> QED
      BY <1>s, <3>1, <3>2
  <2>2. Len(disp) \in 0..Cardinality(Ids)
    <3> DEFINE n == Cardinality(Jobs) * MaxTime + MaxIncidents
    <3>1. n \in Nat
      <4>1. Cardinality(Jobs) \in Nat /\ MaxTime \in Nat /\ MaxIncidents \in Nat
        BY JobsAssumption, FS_CardinalityType, BoundsAssumption
      <4> QED
        BY <4>1
    <3>3. Ids = 1..n
      BY DEF Ids
    <3> HIDE DEF n
    <3>2. Cardinality(Ids) \in Nat
      BY <3>1, <3>3, UpTo
    <3> QED
      BY <1>s, <3>2
  <2>3. live \subseteq Stored /\ stale \subseteq Unfinished
    BY DEF CronInv, CrOwners, CrStale
  <2>4. refused \in BOOLEAN /\ run \in [Ids -> RunStates]
    BY DEF CronInv, CrTypes
  <2> QED
    BY <2>1, <2>2, <2>3, <2>4 DEF CronInv, CrTypes, CrQueue, TypeOK, RunStates,
       Submits
<1>2. OneCycleAtATime
  <2>1. \A d, e \in live : disp[d].job = disp[e].job => d = e
    BY DEF CronInv, CrOwners, Engaged
  <2>2. ASSUME NEW d \in Stored
        PROVE  disp[d].status = "running" <=> job[disp[d].job].current = d
    <3>1. disp[d].job \in Jobs /\ d # 0
      BY <1>s DEF Stored
    <3> QED
      BY <3>1 DEF CronInv, CrJobs
  <2> QED
    BY <2>1, <2>2 DEF OneCycleAtATime
<1>3. PeriodOnce
  BY DEF CronInv, CrTimes, Scheduled, PeriodOnce
<1>4. BoundBeforeTask
  BY DEF CronInv, CrOwners, BoundBeforeTask
<1> QED
  BY <1>1, <1>2, <1>3, <1>4 DEF CyclesSound

(* The dispatches of a job are its cycles: one at a time, one per period,  *)
(* each bound before it executes, whatever is requested and however often  *)
(* the process dies in between.                                            *)
THEOREM CyclesAlwaysSound == Spec => []CyclesSound
<1>1. CronInv => CyclesSound
  BY CyclesHold
<1> HIDE DEF CronInv, CyclesSound
<1> QED
  BY <1>1, CronInvariant, PTL

-----------------------------------------------------------------------------
(* A settled dispatch. *)

StatusKept == \A d \in Stored : disp[d].status \in Settled => disp'[d].status = disp[d].status

LEMMA StatusMoves ==
  ASSUME CronInv, NEW d \in Stored, NEW s, disp' = [ disp EXCEPT ![d].status = s ],
         disp[d].status \notin Settled
  PROVE  StatusKept
<1>1. disp \in Seq(DispatchType)
  BY DEF CronInv, CrTypes
<1>2. \A e \in Stored : e # d => disp'[e] = disp[e]
  BY <1>1 DEF Stored
<1> QED
  BY <1>2 DEF StatusKept

LEMMA MarkKeepsStatus ==
  ASSUME CronInv, NEW d \in Stored, mark_terminal(d)
  PROVE  StatusKept
<1>1. CASE disp[d].status = "running"
  BY <1>1, StatusMoves DEF mark_terminal, Settled
<1>2. CASE disp[d].status # "running"
  BY <1>2 DEF mark_terminal, store, StatusKept
<1> QED
  BY <1>1, <1>2

LEMMA RequestKeepsStatus ==
  ASSUME CronInv, Requested
  PROVE  StatusKept
<1>1. CASE disp' = disp
  BY <1>1 DEF StatusKept
<1>2. ASSUME NEW r, disp' = Append(disp, r) PROVE StatusKept
  <2>1. disp \in Seq(DispatchType)
    BY DEF CronInv, CrTypes
  <2>2. \A d \in Stored : disp'[d] = disp[d]
    BY <1>2, <2>1 DEF Stored
  <2> QED
    BY <2>2 DEF StatusKept
<1> QED
  BY <1>1, <1>2 DEF Requested, Create, Edit, EditPolicy, Pause, Resume, Remove,
     Trigger, Retry,
     RecoverRun, store

LEMMA SchedulingKeepsStatus ==
  ASSUME CronInv, Scheduling
  PROVE  StatusKept
<1>1. CASE disp' = disp
  BY <1>1 DEF StatusKept
<1>2. ASSUME NEW j \in Jobs, _materialize_due(j) PROVE StatusKept
  <2>1. \E status : disp' = disp \o Dispatched(j, Times(j), status)
    BY <1>2 DEF _materialize_due
  <2>2. PICK status : disp' = disp \o Dispatched(j, Times(j), status)
    BY <2>1
  <2>3. /\ disp \in Seq(DispatchType) /\ job[j].next \in 1..now
    BY <1>2 DEF CronInv, CrTypes, CrQueue, _materialize_due, First
  <2>4. PICK a, b \in Nat : Times(j) = a..b /\ a <= b + 1
    BY <2>3, TimesShape DEF CronInv
  <2>5. Dispatched(j, Times(j), status) =
          [ i \in 1..(b - a + 1) |-> New(j, "scheduled", a + i - 1, status) ]
    BY <2>4, IntervalRows
  <2> DEFINE rows == Dispatched(j, Times(j), status)
             n == b - a + 1
  <2>6. n \in Nat /\ rows = [ i \in 1..n |-> New(j, "scheduled", a + i - 1, status) ]
    BY <2>4, <2>5
  <2>7. \E S : rows \in Seq(S)
    <3> DEFINE S == { New(j, "scheduled", a + i - 1, status) : i \in 1..n }
    <3>1. rows \in [1..n -> S]
      BY <2>6
    <3>2. n \in Nat
      BY <2>6
    <3> HIDE DEF rows, n, S
    <3>3. rows \in Seq(S)
      BY <3>1, <3>2
    <3> QED
      BY <3>3
  <2> HIDE DEF rows
  <2>8. disp' = disp \o rows
    BY <2>2 DEF rows
  <2>9. \A d \in Stored : disp'[d] = disp[d]
    BY <2>3, <2>7, <2>8 DEF Stored
  <2> QED
    BY <2>9 DEF StatusKept
<1>3. ASSUME NEW j \in Jobs, claim_next(j) PROVE StatusKept
  <2>1. PICK d \in Stored : disp[d].status = "pending" /\ disp' = [ disp EXCEPT ![d].status = "claimed" ]
    BY <1>3 DEF claim_next, Claimable
  <2> QED
    BY <2>1, StatusMoves DEF Settled
<1>4. ASSUME NEW j \in Jobs, cancel_unbound(j) PROVE StatusKept
  <2>1. PICK d \in Stored : /\ disp[d].status \in { "pending", "claimed" }
                            /\ disp' = [ disp EXCEPT ![d].status = "cancelled" ]
    BY <1>4 DEF cancel_unbound, Unbound
  <2> QED
    BY <2>1, StatusMoves DEF Settled
<1> QED
  BY <1>1, <1>2, <1>3, <1>4 DEF Scheduling, Materialized, Claimed, Removed, store

LEMMA OthersKeepStatus ==
  ASSUME CronInv, [Next]_vars, ~ Requested, ~ Scheduling
  PROVE  StatusKept
<1>1. CASE disp' = disp
  BY <1>1 DEF StatusKept
<1>2. CASE bind_running
  <2>1. CASE disp' = disp
    BY <2>1 DEF StatusKept
  <2>2. CASE disp' # disp
    <3>1. /\ queue # << >> /\ disp[Head(queue)].status = "claimed"
          /\ disp' = [ disp EXCEPT ![Head(queue)].status = "running" ]
      BY <1>2, <2>2 DEF bind_running, MayBind, Submitting, store
    <3>2. Head(queue) \in Stored
      BY <3>1 DEF CronInv, CrTypes, CrQueue
    <3> QED
      BY <3>1, <3>2, StatusMoves DEF Settled
  <2> QED
    BY <2>1, <2>2
<1>3. ASSUME NEW d \in Ids, SettleRun(d) \/ FinalizeGivesUp(d) PROVE StatusKept
  <2>1. d \in Stored /\ mark_terminal(d)
    BY <1>3 DEF SettleRun, FinalizeGivesUp, CronInv, CrOwners
  <2> QED
    BY <2>1, MarkKeepsStatus
<1>4. CASE ReconcileRunning
  <2>1. CASE disp' = disp
    BY <2>1 DEF StatusKept
  <2>2. CASE disp' # disp
    <3>1. queue # << >> /\ mark_terminal(Head(queue))
      BY <1>4, <2>2 DEF ReconcileRunning, Submitting, store
    <3>2. Head(queue) \in Stored
      BY <3>1 DEF CronInv, CrTypes, CrQueue
    <3> QED
      BY <3>1, <3>2, MarkKeepsStatus
  <2> QED
    BY <2>1, <2>2
<1>5. CASE Submission
  <2>1. bind_running \/ disp' = disp
    BY <1>5 DEF Submission, create_run, BindReceipt, QueueRun, Apply, PoolSubmit,
       SubmitNext, store
  <2> QED
    BY <1>1, <1>2, <2>1
<1>6. ASSUME NEW d \in Ids, RunStep(d) PROVE StatusKept
  <2>1. SettleRun(d) \/ FinalizeGivesUp(d) \/ disp' = disp
    BY <1>6 DEF RunStep, StartRun, FinishRun, ParkRun, store
  <2> QED
    BY <1>1, <1>3, <2>1
<1>7. CASE Starting
  <2>1. ReconcileRunning \/ disp' = disp
    BY <1>7 DEF Starting, Start, Reconciled, Recovered, Recover, store
  <2> QED
    BY <1>1, <1>4, <2>1
<1>8. Clock \/ Tick \/ SubmitFaults \/ Crash \/ UNCHANGED vars => disp' = disp
  BY DEF Clock, Tick, SubmitFaults, Crash, vars, store
<1> QED
  BY <1>1, <1>5, <1>6, <1>7, <1>8 DEF Next

(* A dispatch that is settled keeps its status: a cancelled dispatch is    *)
(* not bound after all, and the outcome of a Run is projected once.        *)
THEOREM SettledStays == Spec => SettledForGood
<1>1. CronInv /\ [Next]_vars =>
        [ \A d \in Stored : disp[d].status \in Settled => disp'[d].status = disp[d].status ]_vars
  BY RequestKeepsStatus, SchedulingKeepsStatus, OthersKeepStatus DEF StatusKept
<1> HIDE DEF CronInv
<1> QED
  BY <1>1, CronInvariant, PTL DEF Spec, SettledForGood
=============================================================================
