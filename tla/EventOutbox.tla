----------------------------- MODULE EventOutbox -----------------------------
(***************************************************************************)
(* The transactional outbox of the Gateway (gateway/outbox.py), the        *)
(* writer that fills it (StateController._write_event) and the archive     *)
(* that releases hot event bodies (GatewayEventArchiveService).            *)
(*                                                                         *)
(* An event is << stream, sequence >>.  SQLite rows survive a crash; the   *)
(* dispatcher's claim and due list, the JSONL index and the EventBus memory*)
(* do not.  Every SQLite transaction is one step; the physical call of a   *)
(* sink and the file operations of the archive are steps of their own.     *)
(***************************************************************************)
EXTENDS Integers, Sequences

CONSTANTS
  Streams,        \* stream_id: one per Run
  Sinks,          \* enabled event_sinks
  FailingSinks,   \* sinks whose physical call may raise
  MaxEvents,      \* bound: events per stream
  MaxAttempts,    \* retry_max_attempts
  MaxCrashes,     \* bound: process deaths
  TornWrites      \* a crash may leave part of a JSONL record on disk

\* The EventBus never raises: a full queue of a subscriber is passed over.
ASSUME SinkAssumption == FailingSinks \subseteq Sinks \ { "eventbus" }
ASSUME AttemptAssumption == MaxAttempts \in Nat \ {0}
ASSUME BoundAssumption ==
  MaxEvents \in Nat /\ MaxCrashes \in Nat
ASSUME TornAssumption == TornWrites \in BOOLEAN

VARIABLES
  last,       \* event_sequences.last_sequence of each stream
  over,       \* streams whose Run is terminal
  status,     \* event_deliveries.status of each event and sink
  att,        \* event_delivery_attempts: the statuses in attempt order
  completed,  \* events whose event_outbox row has completed_at
  proc,       \* "up", "down" or "recovering"
  crashes,    \* process deaths so far
  due,        \* rows the running drain_once has yet to claim
  claim,      \* the ClaimedDelivery in hand
  draining,   \* _drain_lock is held
  file,       \* the JSONL file of each stream: bodies, line ends, fragments
  known,      \* JsonlEventSink._known
  bus,        \* what the EventBus has handed to its subscribers, in order
  published,  \* GatewayEventBus._published_ids
  arch,       \* gateway_event_archives in creation order
  body,       \* storage_tier of each event
  archiver    \* where the archive worker is

delivery == << status, att, completed >>
dispatch == << due, claim, draining >>
jsonl    == << file, known >>
eventbus == << bus, published >>
archive  == << arch, body, archiver >>
vars == << last, over, delivery, proc, crashes, dispatch, jsonl, eventbus,
           archive >>

Events   == Streams \X (1..MaxEvents)
Written  == { e \in Events : e[2] <= last[e[1]] }
Final    == { "delivered", "dead_lettered" }
NoClaim  == [ stage |-> "none" ]
NoIndex  == { 0 }
EOL      == 0
Fragment == -1
Idle     == [ at |-> "idle", id |-> 0 ]

(* Events of the same stream that precede e. *)
Earlier(e) == { d \in Written : d[1] = e[1] /\ d[2] < e[2] }

Init ==
  /\ last = [ s \in Streams |-> 0 ]
  /\ over = {}
  /\ status = [ e \in Events |-> [ k \in Sinks |-> "none" ] ]
  /\ att = [ e \in Events |-> [ k \in Sinks |-> << >> ] ]
  /\ completed = {}
  /\ proc = "up" /\ crashes = 0
  /\ due = {} /\ claim = NoClaim /\ draining = FALSE
  /\ file = [ s \in Streams |-> << >> ]
  /\ known = [ s \in Streams |-> NoIndex ]
  /\ bus = [ s \in Streams |-> << >> ]
  /\ published = {}
  /\ arch = << >>
  /\ body = [ e \in Events |-> "hot" ]
  /\ archiver = Idle
-----------------------------------------------------------------------------
(* One domain transaction appends the next event of the stream, its outbox *)
(* row and one pending Delivery for every enabled sink.                    *)
WriteEvent(s) ==
  /\ proc = "up" /\ s \notin over /\ last[s] < MaxEvents
  /\ last' = [ last EXCEPT ![s] = @ + 1 ]
  /\ status' = [ status EXCEPT
       ![<< s, last[s] + 1 >>] = [ k \in Sinks |-> "pending" ] ]
  /\ completed' = IF Sinks = {} THEN completed \cup { << s, last[s] + 1 >> }
                                ELSE completed
  /\ UNCHANGED << over, att, proc, crashes, dispatch, jsonl, eventbus, archive >>

(* The Run of the stream reaches a terminal status. *)
FinishRun(s) ==
  /\ proc = "up" /\ s \notin over /\ last[s] > 0
  /\ over' = over \cup { s }
  /\ UNCHANGED << last, delivery, proc, crashes, dispatch, jsonl, eventbus, archive >>
-----------------------------------------------------------------------------
(* OutboxDispatcher *)

(* Slip: only fresh rows hold back the later events of a sink.             *)
SlipDueOvertakes ==
  { row \in Written \X Sinks : LET e == row[1] k == row[2] IN
      /\ status[e][k] \in { "pending", "retrying" }
      /\ \A d \in Earlier(e) : status[d][k] # "pending" }

Due ==
  { row \in Written \X Sinks : LET e == row[1] k == row[2] IN
      /\ status[e][k] \in { "pending", "retrying" }
      /\ \A d \in Earlier(e) : status[d][k] \in Final }

(* drain_once takes the lock and reads the due rows; it claims them one by *)
(* one in the order of their timestamps, here any order.                   *)
DrainBegins ==
  /\ proc = "up" /\ ~ draining /\ Due # {}
  /\ due' = Due
  /\ draining' = TRUE
  /\ UNCHANGED << last, over, delivery, proc, crashes, claim,
                  jsonl, eventbus, archive >>

Claim ==
  /\ proc = "up" /\ draining /\ claim = NoClaim
  /\ \E row \in due : LET e == row[1] k == row[2] IN
       /\ status[e][k] \in { "pending", "retrying" }
       /\ body[e] = "hot"
       /\ status' = [ status EXCEPT ![e][k] = "delivering" ]
       /\ att' = [ att EXCEPT ![e][k] = Append(@, "delivering") ]
       /\ claim' = [ stage |-> "claimed", event |-> e, sink |-> k ]
       /\ due' = due \ { row }
  /\ UNCHANGED << last, over, completed, proc, crashes, draining,
                  jsonl, eventbus, archive >>

DrainEnds ==
  /\ proc = "up" /\ draining /\ claim = NoClaim /\ due = {}
  /\ draining' = FALSE
  /\ UNCHANGED << last, over, delivery, proc, crashes, due, claim,
                  jsonl, eventbus, archive >>

(* GatewayEventBus.deliver_from_outbox *)
DeliverToBus ==
  /\ proc = "up" /\ claim.stage = "claimed" /\ claim.sink = "eventbus"
  /\ LET e == claim.event IN
       /\ bus' = IF e \in published THEN bus
                 ELSE [ bus EXCEPT ![e[1]] = Append(@, e[2]) ]
       /\ published' = published \cup { e }
  /\ claim' = [ claim EXCEPT !.stage = "sent" ]
  /\ UNCHANGED << last, over, delivery, proc, crashes, due, draining, jsonl, archive >>

(* A line of the file that _load_index cannot parse: a fragment, or two    *)
(* bodies without a line end between them.                                 *)
Damaged(f) ==
  \E i \in DOMAIN f :
     \/ f[i] = Fragment
     \/ f[i] # EOL /\ i + 1 \in DOMAIN f /\ f[i + 1] # EOL

Bodies(f) == { f[i] : i \in { j \in DOMAIN f : f[j] > EOL } }

(* Slip: the index starts empty instead of being read from the file. *)
SlipIndex(s) == IF known[s] = NoIndex THEN {} ELSE known[s]

(* The index in memory, read from the file when there is none. *)
Index(s) == IF known[s] = NoIndex THEN Bodies(file[s]) ELSE known[s]

Loadable(s) == known[s] # NoIndex \/ ~ Damaged(file[s])

AppendOnce ==
  /\ proc = "up" /\ claim.stage = "claimed" /\ claim.sink = "jsonl"
  /\ LET s == claim.event[1]
         n == claim.event[2] IN
       /\ Loadable(s)
       /\ file' = IF n \in Index(s) THEN file
                  ELSE [ file EXCEPT ![s] = @ \o << n, EOL >> ]
       /\ known' = [ known EXCEPT ![s] = Index(s) \cup { n } ]
  /\ claim' = [ claim EXCEPT !.stage = "sent" ]
  /\ UNCHANGED << last, over, delivery, proc, crashes, due, draining, eventbus,
                  archive >>

(* What the append in hand can leave in the file when it does not return.  *)
Remains ==
  IF /\ claim.stage = "claimed" /\ claim.sink = "jsonl"
     /\ Loadable(claim.event[1])
     /\ claim.event[2] \notin Index(claim.event[1])
  THEN { << >> } \cup IF TornWrites
         THEN { << Fragment >>, << claim.event[2] >>, << claim.event[2], EOL >> }
         ELSE {}
  ELSE { << >> }

(* The physical call raises: an error of the sink, or a damaged file.      *)
SinkRaises ==
  /\ proc = "up" /\ claim.stage = "claimed"
  /\ LET s == claim.event[1] IN
       \/ /\ claim.sink \in FailingSinks
          /\ \E r \in Remains : file' = [ file EXCEPT ![s] = @ \o r ]
          /\ known' = IF claim.sink = "jsonl" /\ Loadable(s)
                      THEN [ known EXCEPT ![s] = Index(s) ] ELSE known
       \/ /\ claim.sink = "jsonl" /\ ~ Loadable(s)
          /\ UNCHANGED jsonl
  /\ claim' = [ claim EXCEPT !.stage = "raised" ]
  /\ UNCHANGED << last, over, delivery, proc, crashes, due, draining, eventbus,
                  archive >>

Settle(outcome) ==
  LET rows == att[claim.event][claim.sink] IN
    [ rows EXCEPT ![Len(rows)] = outcome ]

(* _complete_outbox_if_ready, with the row of claim already updated. *)
Ready(e) == \A k \in Sinks : status'[e][k] = "delivered"

FinishSuccess ==
  /\ proc = "up" /\ claim.stage = "sent"
  /\ LET e == claim.event IN
       /\ att' = [ att EXCEPT ![e][claim.sink] = Settle("succeeded") ]
       /\ status' = [ status EXCEPT ![e][claim.sink] = "delivered" ]
       /\ completed' = IF Ready(e) THEN completed \cup { e } ELSE completed
  /\ claim' = NoClaim
  /\ UNCHANGED << last, over, proc, crashes, due, draining,
                  jsonl, eventbus, archive >>

FinishFailure ==
  /\ proc = "up" /\ claim.stage = "raised"
  /\ LET e == claim.event
         dead == Len(att[e][claim.sink]) >= MaxAttempts IN
       /\ att' = [ att EXCEPT ![e][claim.sink] = Settle("failed") ]
       /\ status' = [ status EXCEPT
            ![e][claim.sink] = IF dead THEN "dead_lettered" ELSE "retrying" ]
  /\ claim' = NoClaim
  /\ UNCHANGED << last, over, completed, proc, crashes, due, draining, jsonl, eventbus, archive >>
-----------------------------------------------------------------------------
(* GatewayEventArchiveService *)

Holds(a, e) == a.stream = e[1] /\ a.first <= e[2] /\ e[2] <= a.last

(* gateway_events.archive_id is set *)
Reserved(e) == \E i \in DOMAIN arch : Holds(arch[i], e)

(* No required Delivery is open and no attempt is in flight. *)
Releasable(e) ==
  /\ \A k \in Sinks : status[e][k] = "delivered"
  /\ \A k \in Sinks : \A i \in DOMAIN att[e][k] : att[e][k][i] # "delivering"

(* The oldest unreserved hot events of a finished Run, as far as the       *)
(* retention cutoff and the segment size reach, become a preparing archive.*)
ArchivePrepare(s) ==
  /\ proc = "up" /\ archiver = Idle /\ s \in over
  /\ \E lo, hi \in 1..last[s] :
       /\ lo <= hi
       /\ \A n \in 1..(lo - 1) : Reserved(<< s, n >>)
       /\ \A n \in lo..hi : ~ Reserved(<< s, n >>) /\ Releasable(<< s, n >>)
       /\ arch' = Append(arch, [ stream |-> s, first |-> lo, last |-> hi,
                                  status |-> "preparing", onDisk |-> FALSE ])
  /\ archiver' = [ at |-> "write", id |-> Len(arch) + 1 ]
  /\ UNCHANGED << last, over, delivery, proc, crashes, dispatch, jsonl, eventbus,
                  body >>

(* Partial file, fsync, atomic replace. *)
ArchiveWrite ==
  /\ proc = "up" /\ archiver.at = "write"
  /\ arch' = [ arch EXCEPT ![archiver.id].onDisk = TRUE ]
  /\ archiver' = [ archiver EXCEPT !.at = "verify" ]
  /\ UNCHANGED << last, over, delivery, proc, crashes, dispatch, jsonl, eventbus,
                  body >>

(* The transaction that follows a verified file. *)
Verified(i) ==
  /\ arch' = [ arch EXCEPT ![i].status = "verified" ]
  /\ body' = [ e \in Events |-> IF Holds(arch[i], e) THEN "archived" ELSE body[e] ]

ArchiveVerify ==
  /\ proc = "up" /\ archiver.at = "verify"
  /\ Verified(archiver.id)
  /\ archiver' = Idle
  /\ UNCHANGED << last, over, delivery, proc, crashes, dispatch, jsonl, eventbus >>

(* An I/O error escapes process_due and ends the scheduler's task; the     *)
(* archive stays preparing until the next start.                           *)
ArchiveRaises ==
  /\ proc = "up" /\ archiver.at \in { "write", "verify" }
  /\ archiver' = [ at |-> "dead", id |-> 0 ]
  /\ UNCHANGED << last, over, delivery, proc, crashes, dispatch, jsonl, eventbus,
                  arch, body >>
-----------------------------------------------------------------------------
(* Process death and restart *)

Crash ==
  /\ proc # "down" /\ crashes < MaxCrashes
  /\ proc' = "down" /\ crashes' = crashes + 1
  /\ IF claim = NoClaim THEN file' = file
     ELSE \E r \in Remains : file' = [ file EXCEPT ![claim.event[1]] = @ \o r ]
  /\ known' = [ s \in Streams |-> NoIndex ]
  /\ published' = {}
  /\ due' = {} /\ claim' = NoClaim /\ draining' = FALSE
  /\ archiver' = Idle
  /\ UNCHANGED << last, over, delivery, bus, arch, body >>

(* Slip: the row of an interrupted call is left delivering.                *)
SlipReconcileStuck ==
  /\ proc = "down"
  /\ proc' = "recovering"
  /\ att' = [ e \in Events |-> [ k \in Sinks |-> [ i \in DOMAIN att[e][k] |->
       IF att[e][k][i] = "delivering" THEN "interrupted" ELSE att[e][k][i] ] ] ]
  /\ UNCHANGED << last, over, crashes, status, dispatch, jsonl, eventbus, archive >>
  /\ completed' = completed \cup { e \in Written : Ready(e) }

(* OutboxDispatcher.reconcile_startup *)
Reconcile ==
  /\ proc = "down"
  /\ proc' = "recovering"
  /\ status' = [ e \in Events |-> [ k \in Sinks |->
       IF status[e][k] = "delivering" THEN "retrying" ELSE status[e][k] ] ]
  /\ att' = [ e \in Events |-> [ k \in Sinks |-> [ i \in DOMAIN att[e][k] |->
       IF att[e][k][i] = "delivering" THEN "interrupted" ELSE att[e][k][i] ] ] ]
  /\ completed' = completed \cup
       { e \in Written : Ready(e) }
  /\ UNCHANGED << last, over, crashes, dispatch, jsonl, eventbus, archive >>

Preparing == { i \in DOMAIN arch : arch[i].status = "preparing" }

(* recover_preparing: a formal file is verified as it is, a missing one    *)
(* fails the archive.                                                      *)
RecoverPreparing ==
  /\ proc = "recovering"
  /\ \E i \in Preparing :
       \/ arch[i].onDisk /\ Verified(i)
       \/ /\ arch' = [ arch EXCEPT ![i].status =
                         IF arch[i].onDisk THEN "recovery_required" ELSE "failed" ]
          /\ UNCHANGED body
  /\ UNCHANGED << last, over, delivery, proc, crashes, dispatch, jsonl, eventbus,
                  archiver >>

Serve ==
  /\ proc = "recovering" /\ Preparing = {}
  /\ proc' = "up"
  /\ UNCHANGED << last, over, delivery, crashes, dispatch, jsonl, eventbus, archive >>
-----------------------------------------------------------------------------
Dispatch ==
  \/ DrainBegins \/ Claim \/ DeliverToBus \/ AppendOnce \/ SinkRaises
  \/ FinishSuccess \/ FinishFailure \/ DrainEnds

ArchiveStep ==
  \/ \E s \in Streams : ArchivePrepare(s)
  \/ ArchiveWrite \/ ArchiveVerify \/ ArchiveRaises

Startup == Reconcile \/ RecoverPreparing \/ Serve

Next ==
  \/ \E s \in Streams : WriteEvent(s) \/ FinishRun(s)
  \/ Dispatch
  \/ ArchiveStep
  \/ Crash
  \/ Startup

Spec == Init /\ [][Next]_vars

(* The dispatcher task polls for as long as the process lives, and the     *)
(* Gateway is started again after it dies.                                 *)
FairSpec == Spec /\ WF_vars(Dispatch) /\ WF_vars(Startup)

TypeOK ==
  /\ last \in [ Streams -> 0..MaxEvents ]
  /\ over \subseteq Streams
  /\ status \in [ Events -> [ Sinks -> { "none", "pending", "delivering",
                                        "retrying" } \cup Final ] ]
  /\ \A e \in Events, k \in Sinks :
       att[e][k] \in Seq({ "delivering", "succeeded", "failed", "interrupted" })
  /\ completed \subseteq Written
  /\ proc \in { "up", "down", "recovering" } /\ crashes \in 0..MaxCrashes
  /\ due \subseteq Written \X Sinks /\ draining \in BOOLEAN
  /\ claim = NoClaim \/ claim \in [ stage : { "claimed", "sent", "raised" },
                                   event : Written, sink : Sinks ]
  /\ file \in [ Streams -> Seq(Fragment..MaxEvents) ]
  /\ known \in [ Streams -> SUBSET (0..MaxEvents) ]
  /\ bus \in [ Streams -> Seq(1..MaxEvents) ]
  /\ published \subseteq Written
  /\ \A i \in DOMAIN arch :
       arch[i] \in [ stream : Streams, first : 1..MaxEvents, last : 1..MaxEvents,
         status : { "preparing", "verified", "failed", "recovery_required" },
         onDisk : BOOLEAN ]
  /\ body \in [ Events -> { "hot", "archived" } ]
  /\ archiver \in [ at : { "idle", "write", "verify", "dead" }, id : 0..Len(arch) ]

(* A sink is offered the events of a stream strictly in sequence: while a  *)
(* Delivery is being attempted or is settled, every earlier one of the same*)
(* sink and stream is settled (the NOT EXISTS of _due_deliveries), however *)
(* attempts fail, are retried or are cut by a restart.                     *)
SinkInSequence ==
  \A e \in Written, k \in Sinks :
    status[e][k] \in { "delivering" } \cup Final =>
      \A d \in Earlier(e) : status[d][k] \in Final

(* Subscribers of the EventBus see a stream without gaps: a publication is *)
(* the successor of the previous one or, after a restart that cut a        *)
(* Delivery, its repetition.  GatewayEventBus keeps _published_ids only in *)
(* memory, so a repetition cannot be excluded.                             *)
BusWithoutGaps ==
  \A s \in Streams : \A i \in DOMAIN bus[s] :
    IF i = 1 THEN bus[s][i] = 1 ELSE bus[s][i] - bus[s][i - 1] \in { 0, 1 }

(* JsonlEventSink.append_once writes an event at most once, also when the  *)
(* process dies between the fsync of the file and the durable success of   *)
(* the Delivery and the restarted Gateway delivers again.                  *)
JsonlAtMostOnce ==
  \A s \in Streams : \A i, j \in DOMAIN file[s] :
    i < j /\ file[s][i] > EOL => file[s][i] # file[s][j]

(* A Delivery recorded as delivered to the JSONL sink can be read back: its*)
(* body stands in the file as a line of its own.                           *)
DeliveredReadable ==
  \A e \in Written :
    ("jsonl" \in Sinks /\ status[e]["jsonl"] = "delivered") =>
      LET f == file[e[1]] IN
        \E i \in DOMAIN f :
          /\ f[i] = e[2]
          /\ i < Len(f) => f[i + 1] = EOL
          /\ i > 1 => f[i - 1] = EOL

(* One physical attempt at a time: only the newest attempt of a Delivery   *)
(* may be unsettled, exactly while the row is delivering, and in a live    *)
(* process such a row is the claim in hand, so no Delivery is stuck        *)
(* between claim and settlement.                                           *)
OneLiveAttempt ==
  \A e \in Written, k \in Sinks :
    /\ \A i \in DOMAIN att[e][k] :
         att[e][k][i] = "delivering" <=> /\ i = Len(att[e][k])
                                         /\ status[e][k] = "delivering"
    /\ (proc = "up" /\ status[e][k] = "delivering") =>
         claim # NoClaim /\ claim.event = e /\ claim.sink = k

(* Order of delivery, per sink and on the bus, with one attempt at a time. *)
SinksInOrder == SinkInSequence /\ BusWithoutGaps /\ OneLiveAttempt

(* An event never loses its canonical bytes: a released hot body is held by*)
(* exactly one archive, verified and on disk, whatever the moment the      *)
(* archiver or the process died.                                           *)
BodyNeverLost ==
  \A e \in Written : body[e] = "archived" =>
    \E i \in DOMAIN arch :
      /\ Holds(arch[i], e) /\ arch[i].status = "verified" /\ arch[i].onDisk
      /\ \A j \in DOMAIN arch : Holds(arch[j], e) => j = i

(* A Delivery that may still be claimed has its hot body: the archive never*)
(* takes it away first, so _claim never meets "Due delivery has no hot     *)
(* canonical event body", which would end the dispatcher.                  *)
OpenDeliveryHasBody ==
  \A e \in Written, k \in Sinks :
    status[e][k] \notin Final => body[e] = "hot"

(* An event is kept where it is due, hot for an open Delivery, one line in  *)
(* the JSONL file, one verified archive afterwards, whatever dies meanwhile. *)
EventsKept ==
  /\ TypeOK /\ JsonlAtMostOnce /\ DeliveredReadable
  /\ BodyNeverLost /\ OpenDeliveryHasBody

(* Every Delivery is delivered or dead-lettered in the end, whatever       *)
(* attempts fail and wherever the process dies.                            *)
EveryDeliverySettles ==
  \A e \in Events : \A k \in Sinks :
    status[e][k] # "none" ~> status[e][k] \in Final
=============================================================================
