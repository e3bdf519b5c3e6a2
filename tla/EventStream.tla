----------------------------- MODULE EventStream -----------------------------
(***************************************************************************)
(* One client following the event stream of one Run, end to end: the Run   *)
(* task that writes events (gateway/runtime_pool.py), the EventBus with its*)
(* bounded subscriber queue (gateway/events.py), the WebSocket handler that*)
(* replays SQLite and then forwards live events (gateway/api.py), and      *)
(* GatewayClient.subscribe, which polls, reconnects and replays            *)
(* (gateway/client.py).  An event is its stream_sequence.  The outbox feeds*)
(* the bus in sequence, repeating at most the event a crash cut            *)
(* (EventOutbox!BusWithoutGaps).                                           *)
(***************************************************************************)
EXTENDS Integers, Sequences

CONSTANTS
  QueueSize,      \* GatewayEventBus.queue_size
  MaxEvents,      \* bound: events of the Run
  MaxDrops,       \* bound: connections lost or closed by the peer
  MaxCrashes,     \* bound: deaths of the Gateway
  SilentFinish    \* a Run may end without a terminal event

ASSUME QueueAssumption == QueueSize \in Nat \ {0}
ASSUME StreamBounds == MaxEvents \in Nat /\ MaxDrops \in Nat /\ MaxCrashes \in Nat
ASSUME SilentAssumption == SilentFinish \in BOOLEAN

VARIABLES
  log,        \* kinds of the committed events: "plain" or "terminal"
  run,        \* "active", "closing" (final, terminal event unwritten), "final"
  gateway,    \* "up" or "down"
  crashes, drops,
  delivered,  \* events whose EventBus Delivery is durable
  inBus,      \* the event after those has been handed to the bus
  dropped,    \* the queue of the present connection has overflowed
  conn,       \* where the WebSocket handler is
  last_sent,  \* its cursor
  batch,      \* rows it read from SQLite and has yet to send
  queue,      \* its EventSubscription
  live,       \* the live event waiting behind the gap being filled
  wire,       \* messages sent and not yet received
  pc,         \* where GatewayClient.subscribe is
  sequence,   \* its cursor
  seen        \* the events it has yielded

store  == << log, run >>
proc   == << gateway, crashes, drops >>
outbox == << delivered, inBus, dropped >>
server == << conn, last_sent, batch, queue, live >>
client == << pc, sequence, seen >>
vars   == << store, proc, outbox, server, wire, client >>

Final == run # "active"
Numbers(a, b) == [ i \in 1..(b - a) |-> a + i ]
None == 0

Init ==
  /\ log = << >> /\ run = "active"
  /\ gateway = "up" /\ crashes = 0 /\ drops = 0
  /\ delivered = 0 /\ inBus = FALSE /\ dropped = FALSE
  /\ conn = "none" /\ last_sent = 0 /\ batch = << >> /\ queue = << >> /\ live = None
  /\ wire = << >>
  /\ pc = "connecting" /\ sequence = 0 /\ seen = << >>
-----------------------------------------------------------------------------
(* The Run.  _emit and the transitions of the FSM append events; _finish_run*)
(* makes the Run final in a transaction before its terminal event.          *)

Emit ==
  /\ gateway = "up" /\ run = "active" /\ Len(log) < MaxEvents
  /\ log' = Append(log, "plain")
  /\ UNCHANGED << run, proc, outbox, server, wire, client >>

FinishRun ==
  /\ gateway = "up" /\ run = "active" /\ Len(log) < MaxEvents
  /\ log' = Append(log, "plain")
  /\ run' = "closing"
  /\ UNCHANGED << proc, outbox, server, wire, client >>

(* RuntimePool.cancel finishes a Run whose task died before its handlers,   *)
(* RecoveryCoordinator one it found after a restart: no terminal event.     *)
FinishSilently ==
  /\ SilentFinish /\ gateway = "up" /\ run = "active" /\ Len(log) < MaxEvents
  /\ log' = Append(log, "plain")
  /\ run' = "final"
  /\ UNCHANGED << proc, outbox, server, wire, client >>

EmitTerminal ==
  /\ gateway = "up" /\ run = "closing"
  /\ log' = Append(log, "terminal")
  /\ run' = "final"
  /\ UNCHANGED << proc, outbox, server, wire, client >>

(* A Run that ends in RECOVERY_REQUIRED writes run_failed or run_cancelled  *)
(* and may be resumed later.                                                *)
EmitParked ==
  /\ gateway = "up" /\ run = "active" /\ Len(log) < MaxEvents
  /\ log' = Append(log, "terminal")
  /\ UNCHANGED << run, proc, outbox, server, wire, client >>
-----------------------------------------------------------------------------
(* The EventBus *)

(* Slip: the subscription starts only after the replay. *)
SlipPublish ==
  /\ gateway = "up" /\ ~ inBus /\ delivered < Len(log)
  /\ inBus' = TRUE
  /\ IF conn = "live" /\ Len(queue) < QueueSize
     THEN queue' = Append(queue, delivered + 1) /\ UNCHANGED dropped
     ELSE UNCHANGED queue /\ dropped' = (dropped \/ conn = "live")
  /\ UNCHANGED << store, proc, delivered, conn, last_sent, batch, live, wire,
                  client >>

(* deliver_from_outbox: a full queue drops the event. *)
Publish ==
  /\ gateway = "up" /\ ~ inBus /\ delivered < Len(log)
  /\ inBus' = TRUE
  /\ IF conn # "none" /\ Len(queue) < QueueSize
     THEN queue' = Append(queue, delivered + 1) /\ UNCHANGED dropped
     ELSE UNCHANGED queue /\ dropped' = (dropped \/ conn # "none")
  /\ UNCHANGED << store, proc, delivered, conn, last_sent, batch, live, wire,
                  client >>

Settle ==
  /\ gateway = "up" /\ inBus
  /\ delivered' = delivered + 1 /\ inBus' = FALSE
  /\ UNCHANGED << store, proc, dropped, server, wire, client >>
-----------------------------------------------------------------------------
(* The WebSocket handler *)

(* The handler subscribes before it reads the rows to replay. *)
Accept ==
  /\ gateway = "up" /\ conn = "none" /\ pc = "connecting"
  /\ conn' = "subscribed" /\ last_sent' = sequence
  /\ batch' = << >> /\ queue' = << >> /\ live' = None
  /\ wire' = << >> /\ dropped' = FALSE
  /\ pc' = "reading"
  /\ UNCHANGED << store, proc, delivered, inBus, sequence, seen >>

ReadReplay ==
  /\ gateway = "up" /\ conn = "subscribed"
  /\ batch' = Numbers(last_sent, Len(log))
  /\ conn' = "sending"
  /\ UNCHANGED << store, proc, outbox, last_sent, queue, live, wire, client >>

SendBatch ==
  /\ gateway = "up" /\ conn = "sending" /\ batch # << >>
  /\ wire' = Append(wire, Head(batch))
  /\ last_sent' = Head(batch)
  /\ batch' = Tail(batch)
  /\ UNCHANGED << store, proc, outbox, conn, queue, live, client >>

(* The batch is out; a live event waiting behind it follows. *)
BatchSent ==
  /\ gateway = "up" /\ conn = "sending" /\ batch = << >>
  /\ IF live > last_sent
     THEN wire' = Append(wire, live) /\ last_sent' = live
     ELSE UNCHANGED << wire, last_sent >>
  /\ live' = None
  /\ conn' = "live"
  /\ UNCHANGED << store, proc, outbox, batch, queue, client >>

TakeStale ==
  /\ gateway = "up" /\ conn = "live" /\ queue # << >> /\ Head(queue) <= last_sent
  /\ queue' = Tail(queue)
  /\ UNCHANGED << store, proc, outbox, conn, last_sent, batch, live, wire, client >>

(* Slip: a live event is forwarded whatever it skips. *)
SlipTakeNext ==
  /\ gateway = "up" /\ conn = "live" /\ queue # << >> /\ Head(queue) > last_sent
  /\ wire' = Append(wire, Head(queue))
  /\ last_sent' = Head(queue)
  /\ queue' = Tail(queue)
  /\ UNCHANGED << store, proc, outbox, conn, batch, live, client >>

TakeNext ==
  /\ gateway = "up" /\ conn = "live" /\ queue # << >> /\ Head(queue) = last_sent + 1
  /\ wire' = Append(wire, Head(queue))
  /\ last_sent' = Head(queue)
  /\ queue' = Tail(queue)
  /\ UNCHANGED << store, proc, outbox, conn, batch, live, client >>

(* A gap: the rows between the cursor and the live event are read first.    *)
TakeAfterGap ==
  /\ gateway = "up" /\ conn = "live" /\ queue # << >> /\ Head(queue) > last_sent + 1
  /\ live' = Head(queue)
  /\ batch' = Numbers(last_sent, Head(queue) - 1)
  /\ queue' = Tail(queue)
  /\ conn' = "sending"
  /\ UNCHANGED << store, proc, outbox, last_sent, wire, client >>
-----------------------------------------------------------------------------
(* GatewayClient.subscribe *)

(* Rows replayed over HTTP are yielded up to the first terminal event. *)
Stops(n) == n > sequence /\ log[n] = "terminal"
Yield(n) ==
  /\ \A i \in (sequence + 1)..(n - 1) : log[i] # "terminal"
  /\ n = Len(log) \/ Stops(n)
  /\ seen' = seen \o Numbers(sequence, n)
  /\ sequence' = n

Receive ==
  /\ pc = "reading" /\ wire # << >>
  /\ wire' = Tail(wire)
  /\ IF Head(wire) <= sequence THEN UNCHANGED client
     ELSE /\ sequence' = Head(wire)
          /\ seen' = Append(seen, Head(wire))
          /\ pc' = IF log[Head(wire)] = "terminal" THEN "returned" ELSE "reading"
  /\ UNCHANGED << store, proc, outbox, server >>

(* Slip: the client waits for the connection to tell it that the Run ended. *)
SlipPoll ==
  /\ pc = "reading" /\ conn = "none" /\ Final
  /\ pc' = "polled"
  /\ UNCHANGED << store, proc, outbox, server, wire, sequence, seen >>

(* Half a second without a message: the status of the Run is asked for.     *)
Poll ==
  /\ pc = "reading" /\ wire = << >> /\ conn # "none" /\ gateway = "up" /\ Final
  /\ pc' = "polled"
  /\ UNCHANGED << store, proc, outbox, server, wire, sequence, seen >>

PollReplay ==
  /\ pc = "polled" /\ gateway = "up"
  /\ \E n \in sequence..Len(log) :
       Yield(n) /\ pc' = IF Stops(n) THEN "returned" ELSE "reading"
  /\ UNCHANGED << store, proc, outbox, server, wire >>

(* The connection is gone, or a request of the poll failed. *)
Broken ==
  /\ \/ pc = "reading" /\ wire = << >> /\ conn = "none"
     \/ pc = "polled" /\ gateway = "down"
     \/ pc = "connecting" /\ gateway = "down"
  /\ pc' = "handler"
  /\ UNCHANGED << store, proc, outbox, server, wire, sequence, seen >>

(* The exception handler asks for the Run, then for the events. *)
HandlerStatus ==
  /\ pc = "handler" /\ gateway = "up"
  /\ pc' = IF Final THEN "replayFinal" ELSE "replayActive"
  /\ UNCHANGED << store, proc, outbox, server, wire, sequence, seen >>

HandlerReplay ==
  /\ pc \in { "replayFinal", "replayActive" } /\ gateway = "up"
  /\ \E n \in sequence..Len(log) :
       /\ Yield(n)
       /\ pc' = IF Stops(n) \/ pc = "replayFinal" THEN "returned" ELSE "connecting"
  /\ UNCHANGED << store, proc, outbox, server, wire >>

(* A request of the handler fails: the exception leaves the generator. *)
HandlerRaises ==
  /\ pc \in { "handler", "replayFinal", "replayActive" } /\ gateway = "down"
  /\ pc' = "raised"
  /\ UNCHANGED << store, proc, outbox, server, wire, sequence, seen >>
-----------------------------------------------------------------------------
Disconnect ==
  /\ conn' = "none" /\ batch' = << >> /\ queue' = << >> /\ live' = None
  /\ UNCHANGED last_sent

(* The connection is lost; what is on the wire may still arrive. *)
Drop ==
  /\ conn # "none" /\ drops < MaxDrops
  /\ drops' = drops + 1
  /\ Disconnect
  /\ UNCHANGED << store, gateway, crashes, outbox, wire, client >>

(* The peer closes cleanly: the iteration ends and so does subscribe.       *)
CloseCleanly ==
  /\ conn # "none" /\ drops < MaxDrops /\ pc = "reading" /\ wire = << >>
  /\ drops' = drops + 1
  /\ Disconnect
  /\ pc' = "returned"
  /\ UNCHANGED << store, gateway, crashes, outbox, wire, sequence, seen >>

Crash ==
  /\ gateway = "up" /\ crashes < MaxCrashes
  /\ gateway' = "down" /\ crashes' = crashes + 1
  /\ Disconnect
  /\ inBus' = FALSE
  /\ run' = IF run = "closing" THEN "final" ELSE run
  /\ UNCHANGED << log, drops, delivered, dropped, wire, client >>

Restart ==
  /\ gateway = "down"
  /\ gateway' = "up"
  /\ UNCHANGED << store, crashes, drops, outbox, server, wire, client >>
-----------------------------------------------------------------------------
RunStep == Emit \/ FinishRun \/ FinishSilently \/ EmitTerminal \/ EmitParked
BusStep == Publish \/ Settle
ServerStep ==
  \/ Accept \/ ReadReplay \/ SendBatch \/ BatchSent
  \/ TakeStale \/ TakeNext \/ TakeAfterGap
ClientStep ==
  \/ Receive \/ Poll \/ PollReplay \/ Broken
  \/ HandlerStatus \/ HandlerReplay \/ HandlerRaises
Failure == Drop \/ CloseCleanly \/ Crash

Next == RunStep \/ BusStep \/ ServerStep \/ ClientStep \/ Failure \/ Restart

Spec == Init /\ [][Next]_vars

(* The Run task finishes what it started; dispatcher, handler and client    *)
(* are asyncio tasks of live processes; the Gateway is started again.       *)
FairSpec ==
  /\ Spec
  /\ WF_vars(EmitTerminal) /\ WF_vars(BusStep) /\ WF_vars(Restart)
  /\ WF_vars(ServerStep)
  /\ WF_vars(Receive) /\ WF_vars(Poll) /\ WF_vars(PollReplay) /\ WF_vars(Broken)
  /\ WF_vars(HandlerStatus \/ HandlerReplay \/ HandlerRaises)

TypeOK ==
  /\ log \in Seq({ "plain", "terminal" })
  /\ run \in { "active", "closing", "final" }
  /\ gateway \in { "up", "down" }
  /\ crashes \in Nat /\ drops \in Nat
  /\ delivered \in 0..Len(log) /\ inBus \in BOOLEAN /\ dropped \in BOOLEAN
  /\ conn \in { "none", "subscribed", "sending", "live" }
  /\ last_sent \in 0..Len(log) /\ live \in 0..Len(log)
  /\ batch \in Seq(1..Len(log)) /\ queue \in Seq(1..Len(log))
  /\ wire \in Seq(1..Len(log))
  /\ pc \in { "connecting", "reading", "polled", "handler", "replayFinal",
              "replayActive", "returned", "raised" }
  /\ sequence \in 0..Len(log) /\ seen \in Seq(1..Len(log))

(* The client yields the events of the Run in sequence, each once and none  *)
(* left out, although the queue drops what a slow connection cannot take,   *)
(* the bus repeats after a crash, live events overtake the replay, and      *)
(* polling, reconnecting and the exception handler all move the cursor.     *)
SeenInSequence == seen = Numbers(0, sequence)

Ended == pc \in { "returned", "raised" }

(* subscribe comes to an end once the Run is final and its terminal event   *)
(* committed, also when an overflowing queue, a lost connection or a        *)
(* lagging outbox keeps the event from coming live: the poll and the        *)
(* exception handler find it in SQLite.                                     *)
SubscriptionEnds ==
  (Final /\ \E i \in DOMAIN log : log[i] = "terminal") ~> Ended

(* Nothing falls between replay and live delivery: as long as the queue     *)
(* does not overflow, every committed event reaches a client that stays.    *)
EveryEventShown ==
  \A n \in 1..(MaxEvents + 1) :
    Len(log) >= n ~> (sequence >= n \/ Ended \/ dropped)

=============================================================================
