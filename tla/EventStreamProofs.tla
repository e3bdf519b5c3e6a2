-------------------------- MODULE EventStreamProofs --------------------------
(***************************************************************************)
(* What the readers of a Run's events are told, the client of an event     *)
(* stream (EventStream) and the Observer (Observer).                        *)
(*                                                                         *)
(* SeenInSequence for every queue size and any number of events, dropped   *)
(* connections and deaths of the Gateway.  The inductive invariant says    *)
(* what is under way between SQLite and the client: the rows still to send *)
(* continue the server's cursor, a live event held back continues the rows,*)
(* and the messages on the wire run up to the server's cursor starting no  *)
(* later than just after the client's.                                     *)
(*                                                                         *)
(* ObserverSound for any number of events, observations, reconciliations   *)
(* and deaths: ObInv says where the offset of the Observer's row stands in *)
(* the stream and what has been derived from the events before it.         *)
(***************************************************************************)
EXTENDS EventStream, Observer, TLAPS

Kinds == { "plain", "terminal" }

Typed ==
  /\ log \in Seq(Kinds)
  /\ delivered \in Nat /\ last_sent \in Nat /\ sequence \in Nat /\ live \in Nat
  /\ batch \in Seq(Nat) /\ queue \in Seq(Nat) /\ wire \in Seq(Nat)
  /\ seen \in Seq(Nat)

(* Only committed events are under way. *)
Committed ==
  /\ delivered <= Len(log) /\ (inBus => delivered < Len(log))
  /\ last_sent + Len(batch) <= Len(log) /\ live <= Len(log)
  /\ sequence <= Len(log)
  /\ \A i \in 1..Len(queue) : queue[i] \in 1..Len(log)

BatchContinues == \A i \in 1..Len(batch) : batch[i] = last_sent + i

LiveContinues == live # None => live = last_sent + Len(batch) + 1

(* No live event is held back but in front of a batch. *)
LiveOnlyBehindBatch ==
  conn \in { "subscribed", "live" } => live = None /\ batch = << >>

WireReaches ==
  /\ \A i \in 1..Len(wire) : wire[i] = last_sent - Len(wire) + i
  /\ 0 <= last_sent - Len(wire) /\ last_sent - Len(wire) <= sequence

Inv ==
  /\ Typed /\ Committed /\ BatchContinues /\ LiveContinues
  /\ LiveOnlyBehindBatch /\ WireReaches /\ SeenInSequence

(* Numbers(a, b) is the sequence a + 1, ..., b. *)
LEMMA NumbersFacts ==
  ASSUME NEW a \in Nat, NEW b \in Nat, a <= b
  PROVE  /\ Numbers(a, b) \in Seq(Nat)
         /\ Len(Numbers(a, b)) = b - a
         /\ \A i \in 1..(b - a) : Numbers(a, b)[i] = a + i
  BY DEF Numbers

LEMMA PrefixFacts ==
  ASSUME NEW b \in Nat
  PROVE  /\ Numbers(0, b) \in Seq(Nat)
         /\ Len(Numbers(0, b)) = b
         /\ \A i \in 1..b : Numbers(0, b)[i] = i
  BY DEF Numbers

(* Two sequences are equal when their elements are. *)
LEMMA SeqEqual ==
  ASSUME NEW s \in Seq(Nat), NEW t \in Seq(Nat), Len(s) = Len(t),
         \A i \in 1..Len(s) : s[i] = t[i]
  PROVE  s = t
  OBVIOUS

LEMMA ConcatFacts ==
  ASSUME NEW s \in Seq(Nat), NEW t \in Seq(Nat)
  PROVE  /\ s \o t \in Seq(Nat)
         /\ Len(s \o t) = Len(s) + Len(t)
         /\ \A i \in 1..(Len(s) + Len(t)) :
              (s \o t)[i] = IF i <= Len(s) THEN s[i] ELSE t[i - Len(s)]
  OBVIOUS

(* Reading on from where the last reading stopped reads everything. *)
LEMMA NumbersConcat ==
  ASSUME NEW a \in Nat, NEW b \in Nat, a <= b
  PROVE  Numbers(0, a) \o Numbers(a, b) = Numbers(0, b)
<1>1. PICK s \in Seq(Nat) : s = Numbers(0, a)
  BY PrefixFacts
<1>2. PICK t \in Seq(Nat) : t = Numbers(a, b)
  BY NumbersFacts
<1>3. PICK u \in Seq(Nat) : u = Numbers(0, b)
  BY PrefixFacts
<1>4. Len(s) = a /\ \A i \in 1..a : s[i] = i
  BY <1>1, PrefixFacts
<1>5. Len(t) = b - a /\ \A i \in 1..(b - a) : t[i] = a + i
  BY <1>2, NumbersFacts
<1>6. Len(u) = b /\ \A i \in 1..b : u[i] = i
  BY <1>3, PrefixFacts
<1>7a. s \o t \in Seq(Nat) /\ Len(s \o t) = Len(s) + Len(t)
  BY ConcatFacts
<1>7b. Len(s) + Len(t) = b
  BY <1>4, <1>5
<1>7. s \o t \in Seq(Nat) /\ Len(s \o t) = b
  BY <1>7a, <1>7b
<1>8. \A i \in 1..b : (s \o t)[i] = i
  BY <1>4, <1>5, ConcatFacts
<1>9. s \o t = u
  BY <1>6, <1>7, <1>8, SeqEqual
<1> QED
  BY <1>1, <1>2, <1>3, <1>9

LEMMA NumbersAppend ==
  ASSUME NEW a \in Nat
  PROVE  Append(Numbers(0, a), a + 1) = Numbers(0, a + 1)
<1>1. PICK s \in Seq(Nat) : s = Numbers(0, a)
  BY PrefixFacts
<1>2. a + 1 \in Nat
  OBVIOUS
<1>3. PICK u \in Seq(Nat) : u = Numbers(0, a + 1)
  BY <1>2, PrefixFacts
<1>4. Len(s) = a /\ \A i \in 1..a : s[i] = i
  BY <1>1, PrefixFacts
<1>5. Len(u) = a + 1 /\ \A i \in 1..(a + 1) : u[i] = i
  BY <1>2, <1>3, PrefixFacts
<1>6. /\ Append(s, a + 1) \in Seq(Nat) /\ Len(Append(s, a + 1)) = a + 1
      /\ \A i \in 1..(a + 1) : Append(s, a + 1)[i] = i
  BY <1>4
<1>7. Append(s, a + 1) = u
  BY <1>5, <1>6, SeqEqual
<1> QED
  BY <1>1, <1>3, <1>7

(* Taking the first element, and adding a last one. *)
LEMMA HeadTail ==
  ASSUME NEW s \in Seq(Nat), s # << >>
  PROVE  /\ Head(s) \in Nat /\ Head(s) = s[1] /\ Len(s) \in Nat /\ Len(s) >= 1
         /\ Tail(s) \in Seq(Nat) /\ Len(Tail(s)) = Len(s) - 1
         /\ \A i \in 1..(Len(s) - 1) : Tail(s)[i] = s[i + 1]
  OBVIOUS

LEMMA AppendFacts ==
  ASSUME NEW s \in Seq(Nat), NEW e \in Nat
  PROVE  /\ Append(s, e) \in Seq(Nat) /\ Len(Append(s, e)) = Len(s) + 1
         /\ \A i \in 1..Len(s) : Append(s, e)[i] = s[i]
         /\ Append(s, e)[Len(s) + 1] = e
  OBVIOUS

LEMMA InvInit == Init => Inv
<1> SUFFICES ASSUME Init PROVE Inv
  OBVIOUS
<1>1. seen = Numbers(0, 0)
  BY DEF Init, Numbers
<1> QED
  BY <1>1 DEF Init, Inv, Typed, Committed, BatchContinues, LiveContinues,
              LiveOnlyBehindBatch, WireReaches, SeenInSequence, None

(* Steps of the Run and of the bus do not touch the server's cursor, the    *)
(* wire or the client.                                                      *)
LEMMA InvUnchanged ==
  ASSUME Inv, log' \in Seq(Kinds), Len(log) <= Len(log'),
         delivered' \in Nat, delivered' <= Len(log'), inBus' => delivered' < Len(log'),
         queue' \in Seq(Nat), \A i \in 1..Len(queue') : queue'[i] \in 1..Len(log'),
         UNCHANGED << conn, last_sent, batch, live, wire, sequence, seen >>
  PROVE  Inv'
<1>1. Typed' /\ Committed'
  BY DEF Inv, Typed, Committed
<1> QED
  BY <1>1 DEF Inv, BatchContinues, LiveContinues, LiveOnlyBehindBatch, WireReaches,
              SeenInSequence, Numbers

(* A lost connection forgets what the server had yet to send. *)
LEMMA InvDisconnect ==
  ASSUME Inv, UNCHANGED << log, delivered, wire, sequence, seen >>,
         inBus' => inBus, Disconnect
  PROVE  Inv'
<1>1. Typed' /\ Committed'
  BY DEF Inv, Typed, Committed, Disconnect, None
<1> QED
  BY <1>1 DEF Inv, BatchContinues, LiveContinues, LiveOnlyBehindBatch, WireReaches,
              SeenInSequence, Numbers, Disconnect, None

(* A message put on the wire is the successor of the server's cursor. *)
LEMMA WireExtends ==
  ASSUME Inv, wire' = Append(wire, last_sent + 1), last_sent' = last_sent + 1,
         sequence' = sequence
  PROVE  WireReaches' /\ wire' \in Seq(Nat)
<1>1. wire \in Seq(Nat) /\ last_sent \in Nat /\ last_sent + 1 \in Nat /\ sequence \in Nat
  BY DEF Inv, Typed
<1>2. /\ wire' \in Seq(Nat) /\ Len(wire') = Len(wire) + 1
      /\ \A i \in 1..Len(wire) : wire'[i] = wire[i]
      /\ wire'[Len(wire) + 1] = last_sent + 1
  BY <1>1, AppendFacts
<1>3. Len(wire) \in Nat
  BY <1>1
<1>4. \A i \in 1..Len(wire) : wire[i] = last_sent - Len(wire) + i
  BY DEF Inv, WireReaches
<1>5. \A i \in 1..Len(wire') : wire'[i] = last_sent' - Len(wire') + i
  BY <1>1, <1>2, <1>3, <1>4
<1>6. 0 <= last_sent - Len(wire) /\ last_sent - Len(wire) <= sequence
  BY DEF Inv, WireReaches
<1> QED
  BY <1>1, <1>2, <1>3, <1>5, <1>6 DEF WireReaches

(* Everything before the replayed rows was yielded, so they continue it. *)
LEMMA InvYield ==
  ASSUME Inv, NEW n \in sequence..Len(log), Yield(n),
         UNCHANGED << store, outbox, server, wire >>
  PROVE  Inv'
<1>1. sequence \in Nat /\ n \in Nat /\ sequence <= n /\ n <= Len(log)
  BY DEF Inv, Typed
<1>2. seen' = Numbers(0, n) /\ sequence' = n
  BY <1>1, NumbersConcat DEF Inv, SeenInSequence, Yield
<1>3. seen' \in Seq(Nat)
  BY <1>1, <1>2, PrefixFacts
<1>4. SeenInSequence'
  BY <1>2 DEF SeenInSequence, Numbers
<1>5. Typed' /\ Committed'
  BY <1>1, <1>2, <1>3 DEF Inv, Typed, Committed, store, outbox, server
<1>6. WireReaches'
  BY <1>1, <1>2 DEF Inv, Typed, WireReaches, server
<1> QED
  BY <1>4, <1>5, <1>6
     DEF Inv, BatchContinues, LiveContinues, LiveOnlyBehindBatch, server

LEMMA InvRun == ASSUME Inv, RunStep PROVE Inv'
<1>1. log' \in Seq(Kinds) /\ Len(log') = Len(log) + 1
  <2>1. \A k \in Kinds : Append(log, k) \in Seq(Kinds) /\ Len(Append(log, k)) = Len(log) + 1
    BY DEF Inv, Typed
  <2>2. log' = Append(log, "plain") \/ log' = Append(log, "terminal")
    BY DEF RunStep, Emit, FinishRun, FinishSilently, EmitTerminal, EmitParked
  <2> QED
    BY <2>1, <2>2 DEF Kinds
<1>2. UNCHANGED << delivered, inBus, conn, last_sent, batch, queue, live, wire,
                   sequence, seen >>
  BY DEF RunStep, Emit, FinishRun, FinishSilently, EmitTerminal, EmitParked,
         outbox, server, client
<1>3. Len(log) \in Nat /\ delivered \in Nat /\ queue \in Seq(Nat)
  BY DEF Inv, Typed
<1>4. /\ delivered <= Len(log') /\ (inBus => delivered < Len(log'))
      /\ \A i \in 1..Len(queue) : queue[i] \in 1..Len(log')
  BY <1>1, <1>3 DEF Inv, Committed
<1> QED
  BY <1>1, <1>2, <1>3, <1>4, InvUnchanged

LEMMA InvPublish == ASSUME Inv, Publish PROVE Inv'
<1>1. /\ queue \in Seq(Nat) /\ delivered \in Nat /\ Len(log) \in Nat
      /\ delivered + 1 \in 1..Len(log) /\ delivered + 1 \in Nat
  BY DEF Inv, Typed, Publish
<1>2. \A i \in 1..Len(queue) : queue[i] \in 1..Len(log)
  BY DEF Inv, Committed
<1>3. queue' = queue \/ queue' = Append(queue, delivered + 1)
  BY DEF Publish
<1>4. queue' \in Seq(Nat) /\ \A i \in 1..Len(queue') : queue'[i] \in 1..Len(log)
  <2>1. CASE queue' = queue
    BY <1>1, <1>2, <2>1
  <2>2. CASE queue' = Append(queue, delivered + 1)
    <3>1. /\ queue' \in Seq(Nat) /\ Len(queue') = Len(queue) + 1
          /\ \A i \in 1..Len(queue) : queue'[i] = queue[i]
          /\ queue'[Len(queue) + 1] = delivered + 1
      BY <1>1, <2>2, AppendFacts
    <3>2. Len(queue) \in Nat
      BY <1>1
    <3>3. \A i \in 1..Len(queue') : i \in 1..Len(queue) \/ i = Len(queue) + 1
      BY <3>1, <3>2
    <3> QED
      BY <1>1, <1>2, <3>1, <3>3
  <2> QED
    BY <1>3, <2>1, <2>2
<1> QED
  BY <1>1, <1>4, InvUnchanged DEF Inv, Typed, Publish, store, client

LEMMA InvAccept == ASSUME Inv, Accept PROVE Inv'
<1>1. Typed' /\ Committed'
  BY DEF Accept, Inv, Typed, Committed, store, outbox, None
<1>2. SeenInSequence'
  BY DEF Accept, Inv, SeenInSequence, Numbers
<1> QED
  BY <1>1, <1>2
     DEF Accept, Inv, Typed, BatchContinues, LiveContinues, LiveOnlyBehindBatch,
         WireReaches, None

LEMMA InvReadReplay == ASSUME Inv, ReadReplay PROVE Inv'
<1>1. last_sent \in Nat /\ Len(log) \in Nat /\ last_sent <= Len(log) /\ log \in Seq(Kinds)
  BY DEF Inv, Typed, Committed
<1>2. /\ batch' \in Seq(Nat) /\ Len(batch') = Len(log) - last_sent
      /\ \A i \in 1..(Len(log) - last_sent) : batch'[i] = last_sent + i
  BY <1>1, NumbersFacts DEF ReadReplay
<1>3. Typed' /\ Committed'
  BY <1>1, <1>2 DEF ReadReplay, Inv, Typed, Committed, store, outbox, client
<1>4. SeenInSequence' /\ WireReaches'
  BY DEF ReadReplay, Inv, SeenInSequence, WireReaches, Numbers, client
<1>5. live = None
  BY DEF ReadReplay, Inv, LiveOnlyBehindBatch
<1> QED
  BY <1>1, <1>2, <1>3, <1>4, <1>5
     DEF ReadReplay, Inv, BatchContinues, LiveContinues, LiveOnlyBehindBatch

LEMMA InvSendBatch == ASSUME Inv, SendBatch PROVE Inv'
<1>1. batch \in Seq(Nat) /\ batch # << >> /\ last_sent \in Nat /\ log \in Seq(Kinds)
  BY DEF Inv, Typed, SendBatch
<1>2. /\ Head(batch) = batch[1] /\ Len(batch) \in Nat /\ Len(batch) >= 1
      /\ batch' \in Seq(Nat) /\ Len(batch') = Len(batch) - 1
      /\ \A i \in 1..(Len(batch) - 1) : batch'[i] = batch[i + 1]
  BY <1>1, HeadTail DEF SendBatch
<1>3. Head(batch) = last_sent + 1
  BY <1>1, <1>2 DEF Inv, BatchContinues
<1>4. wire' = Append(wire, last_sent + 1) /\ last_sent' = last_sent + 1
  BY <1>3 DEF SendBatch
<1>5. WireReaches' /\ wire' \in Seq(Nat)
  BY <1>4, WireExtends DEF SendBatch, client
<1>6. Typed' /\ Committed'
  BY <1>1, <1>2, <1>4, <1>5 DEF SendBatch, Inv, Typed, Committed, store, outbox, client
<1>7. \A i \in 1..Len(batch) : batch[i] = last_sent + i
  BY DEF Inv, BatchContinues
<1>8. BatchContinues' /\ LiveContinues'
  <2>1. \A i \in 1..Len(batch') : batch'[i] = last_sent' + i
    BY <1>1, <1>2, <1>4, <1>7
  <2>2. live' = live /\ last_sent' + Len(batch') = last_sent + Len(batch)
    BY <1>1, <1>2, <1>4 DEF SendBatch
  <2>3. live # None => live = last_sent + Len(batch) + 1
    BY DEF Inv, LiveContinues
  <2>4. live' # None => live' = last_sent' + Len(batch') + 1
    BY <2>2, <2>3 DEF None
  <2> QED
    BY <2>1, <2>4 DEF BatchContinues, LiveContinues, None
<1>9. LiveOnlyBehindBatch' /\ SeenInSequence'
  BY DEF SendBatch, Inv, LiveOnlyBehindBatch, SeenInSequence, Numbers, client
<1> QED
  BY <1>5, <1>6, <1>8, <1>9 DEF Inv

LEMMA InvBatchSent == ASSUME Inv, BatchSent PROVE Inv'
<1>1. /\ Len(batch) = 0 /\ batch = << >> /\ batch' = << >> /\ live' = None
      /\ last_sent \in Nat /\ live \in Nat /\ log \in Seq(Kinds) /\ wire \in Seq(Nat)
  BY DEF Inv, Typed, BatchSent
<1>2. /\ WireReaches' /\ wire' \in Seq(Nat) /\ last_sent' \in Nat
      /\ last_sent' <= Len(log)
  <2>1. CASE live > last_sent
    <3>1. live = last_sent + 1
      BY <1>1, <2>1 DEF Inv, LiveContinues, None
    <3>2. WireReaches' /\ wire' \in Seq(Nat)
      BY <2>1, <3>1, WireExtends DEF BatchSent, client
    <3> QED
      BY <1>1, <2>1, <3>1, <3>2 DEF BatchSent, Inv, Committed
  <2>2. CASE ~ (live > last_sent)
    BY <1>1, <2>2 DEF BatchSent, Inv, Committed, WireReaches, client
  <2> QED
    BY <2>1, <2>2
<1>3. Typed' /\ Committed'
  BY <1>1, <1>2 DEF BatchSent, Inv, Typed, Committed, store, outbox, client, None
<1>4. SeenInSequence'
  BY DEF BatchSent, Inv, SeenInSequence, Numbers, client
<1> QED
  BY <1>1, <1>2, <1>3, <1>4
     DEF Inv, BatchContinues, LiveContinues, LiveOnlyBehindBatch

(* What all three ways of taking a live event know of it. *)
LEMMA Taken ==
  ASSUME Inv, queue # << >>, queue' = Tail(queue)
  PROVE  /\ queue' \in Seq(Nat) /\ \A i \in 1..Len(queue') : queue'[i] \in 1..Len(log)
         /\ Head(queue) \in Nat /\ Head(queue) <= Len(log)
<1>1. queue \in Seq(Nat) /\ log \in Seq(Kinds)
  BY DEF Inv, Typed
<1>2. /\ Head(queue) = queue[1] /\ Len(queue) \in Nat /\ Len(queue) >= 1
      /\ queue' \in Seq(Nat) /\ Len(queue') = Len(queue) - 1
      /\ \A i \in 1..(Len(queue) - 1) : queue'[i] = queue[i + 1]
  BY <1>1, HeadTail
<1>3. \A i \in 1..Len(queue) : queue[i] \in 1..Len(log)
  BY DEF Inv, Committed
<1> QED
  BY <1>1, <1>2, <1>3

LEMMA InvTakeNext == ASSUME Inv, TakeNext PROVE Inv'
<1>1. /\ queue' \in Seq(Nat) /\ \A i \in 1..Len(queue') : queue'[i] \in 1..Len(log)
      /\ Head(queue) <= Len(log)
  BY Taken DEF TakeNext
<1>2. batch = << >> /\ live = None /\ Len(batch) = 0
  BY DEF TakeNext, Inv, LiveOnlyBehindBatch
<1>3. wire' = Append(wire, last_sent + 1) /\ last_sent' = last_sent + 1
  BY DEF TakeNext
<1>4. WireReaches' /\ wire' \in Seq(Nat)
  BY <1>3, WireExtends DEF TakeNext, client
<1>5. last_sent \in Nat /\ last_sent + 1 <= Len(log)
  BY <1>1 DEF TakeNext, Inv, Typed
<1>6. Typed' /\ Committed'
  BY <1>1, <1>2, <1>3, <1>4, <1>5
     DEF TakeNext, Inv, Typed, Committed, store, outbox, client
<1>7. SeenInSequence'
  BY DEF TakeNext, Inv, SeenInSequence, Numbers, client
<1> QED
  BY <1>2, <1>4, <1>6, <1>7
     DEF TakeNext, Inv, BatchContinues, LiveContinues, LiveOnlyBehindBatch

LEMMA InvTakeAfterGap == ASSUME Inv, TakeAfterGap PROVE Inv'
<1>1. /\ queue' \in Seq(Nat) /\ \A i \in 1..Len(queue') : queue'[i] \in 1..Len(log)
      /\ Head(queue) \in Nat /\ Head(queue) <= Len(log)
  BY Taken DEF TakeAfterGap
<1>2. /\ last_sent \in Nat /\ log \in Seq(Kinds) /\ Head(queue) - 1 \in Nat
      /\ last_sent <= Head(queue) - 1
  BY <1>1 DEF TakeAfterGap, Inv, Typed
<1>3. /\ batch' \in Seq(Nat) /\ Len(batch') = Head(queue) - 1 - last_sent
      /\ \A i \in 1..(Head(queue) - 1 - last_sent) : batch'[i] = last_sent + i
  BY <1>2, NumbersFacts DEF TakeAfterGap
<1>u. UNCHANGED << log, delivered, inBus, last_sent, wire, sequence, seen >>
  BY DEF TakeAfterGap, store, outbox, client
<1>v. /\ live' = Head(queue) /\ conn' = "sending"
      /\ live' = last_sent' + Len(batch') + 1
      /\ last_sent' + Len(batch') <= Len(log')
  <2>1. live' = Head(queue) /\ conn' = "sending"
    BY DEF TakeAfterGap
  <2>2. PICK h \in Nat : h = Head(queue)
    BY <1>1
  <2>3. h <= Len(log) /\ Len(log) \in Nat
    BY <1>1, <1>2, <2>2
  <2>4. Len(batch') = h - 1 - last_sent
    BY <1>3, <2>2
  <2>5. h = last_sent + Len(batch') + 1 /\ last_sent + Len(batch') <= Len(log)
    BY <1>2, <2>3, <2>4
  <2> QED
    BY <1>u, <2>1, <2>2, <2>5
<1>4. Typed' /\ Committed'
  <2>1. Typed'
    BY <1>1, <1>3, <1>u, <1>v DEF Inv, Typed
  <2>2. Committed'
    BY <1>1, <1>u, <1>v DEF Inv, Committed
  <2> QED
    BY <2>1, <2>2
<1>5. SeenInSequence' /\ WireReaches'
  BY DEF TakeAfterGap, Inv, SeenInSequence, WireReaches, Numbers, client
<1>6. BatchContinues' /\ LiveContinues' /\ LiveOnlyBehindBatch'
  <2>1. \A i \in 1..Len(batch') : batch'[i] = last_sent' + i
    BY <1>3, <1>u
  <2> QED
    BY <1>v, <2>1 DEF BatchContinues, LiveContinues, LiveOnlyBehindBatch
<1> QED
  BY <1>4, <1>5, <1>6 DEF Inv

(* A received message is old, or the very next event. *)
LEMMA InvReceive == ASSUME Inv, Receive PROVE Inv'
<1>1. /\ wire \in Seq(Nat) /\ wire # << >> /\ last_sent \in Nat /\ sequence \in Nat
      /\ log \in Seq(Kinds)
  BY DEF Inv, Typed, Receive
<1>2. /\ Head(wire) \in Nat /\ Head(wire) = wire[1] /\ Len(wire) \in Nat /\ Len(wire) >= 1
      /\ wire' \in Seq(Nat) /\ Len(wire') = Len(wire) - 1
      /\ \A i \in 1..(Len(wire) - 1) : wire'[i] = wire[i + 1]
  BY <1>1, HeadTail DEF Receive
<1>3. \A i \in 1..Len(wire) : wire[i] = last_sent - Len(wire) + i
  BY DEF Inv, WireReaches
<1>4. Head(wire) = last_sent - Len(wire')
  BY <1>1, <1>2, <1>3
<1>5. Head(wire) <= sequence + 1 /\ Head(wire) <= Len(log)
  <2>1. last_sent - Len(wire) <= sequence
    BY DEF Inv, WireReaches
  <2>2. last_sent + Len(batch) <= Len(log) /\ Len(batch) \in Nat /\ Len(log) \in Nat
    BY DEF Inv, Typed, Committed
  <2> QED
    BY <1>1, <1>2, <1>4, <2>1, <2>2
<1>6. \A i \in 1..Len(wire') : wire'[i] = last_sent - Len(wire') + i
  BY <1>1, <1>2, <1>3
<1>7. /\ sequence' \in Nat /\ sequence' <= Len(log) /\ Head(wire) <= sequence'
      /\ seen' \in Seq(Nat) /\ SeenInSequence'
  <2>1. CASE Head(wire) <= sequence
    BY <1>1, <2>1 DEF Receive, Inv, Typed, Committed, SeenInSequence, Numbers, client
  <2>2. CASE ~ (Head(wire) <= sequence)
    <3>1. Head(wire) = sequence + 1
      BY <1>1, <1>2, <1>5, <2>2
    <3>2. sequence' = sequence + 1 /\ seen' = Append(seen, sequence + 1)
      BY <2>2, <3>1 DEF Receive
    <3>3. seen = Numbers(0, sequence)
      BY DEF Inv, SeenInSequence
    <3>4. seen' = Numbers(0, sequence + 1)
      BY <1>1, <3>2, <3>3, NumbersAppend
    <3>5. sequence + 1 \in Nat
      BY <1>1
    <3>6. seen' \in Seq(Nat)
      BY <3>4, <3>5, PrefixFacts
    <3>7. SeenInSequence'
      BY <3>2, <3>4 DEF SeenInSequence, Numbers
    <3> QED
      BY <1>1, <1>5, <3>1, <3>2, <3>6, <3>7
  <2> QED
    BY <2>1, <2>2
<1>8. Typed' /\ Committed'
  BY <1>2, <1>7 DEF Receive, Inv, Typed, Committed, store, outbox, server
<1>9. WireReaches'
  BY <1>1, <1>2, <1>4, <1>6, <1>7 DEF Receive, WireReaches, server
<1> QED
  BY <1>7, <1>8, <1>9
     DEF Receive, Inv, BatchContinues, LiveContinues, LiveOnlyBehindBatch, server

LEMMA InvNext == Inv /\ [Next]_vars => Inv'
<1> SUFFICES ASSUME Inv, [Next]_vars PROVE Inv'
  OBVIOUS
<1>t. Typed /\ Committed
  BY DEF Inv
<1>1. CASE Settle
  BY <1>1, <1>t, InvUnchanged DEF Settle, Typed, Committed, store, server, client
<1>2. CASE TakeStale
  BY <1>2, <1>t, Taken, InvUnchanged
     DEF TakeStale, Typed, Committed, store, outbox, client
<1>3. CASE Poll \/ Broken \/ HandlerStatus \/ HandlerRaises
  <2>1. UNCHANGED << store, proc, outbox, server, wire, sequence, seen >>
    BY <1>3 DEF Poll, Broken, HandlerStatus, HandlerRaises
  <2> QED
    BY <1>t, <2>1, InvUnchanged DEF Typed, Committed, store, outbox, server
<1>4. CASE PollReplay
  BY <1>4, InvYield DEF PollReplay
<1>5. CASE HandlerReplay
  BY <1>5, InvYield DEF HandlerReplay
<1>6. CASE Drop \/ CloseCleanly
  BY <1>6, InvDisconnect DEF Drop, CloseCleanly, store, outbox, client
<1>7. CASE Crash
  BY <1>7, InvDisconnect DEF Crash, client
<1>8. CASE Restart
  BY <1>8, <1>t, InvUnchanged
     DEF Restart, Typed, Committed, store, outbox, server, client
<1>9. CASE UNCHANGED vars
  BY <1>9, <1>t, InvUnchanged
     DEF vars, Typed, Committed, store, outbox, server, client
<1> QED
  BY <1>1, <1>2, <1>3, <1>4, <1>5, <1>6, <1>7, <1>8, <1>9, InvRun, InvPublish,
     InvAccept, InvReadReplay, InvSendBatch, InvBatchSent, InvTakeNext,
     InvTakeAfterGap, InvReceive
     DEF Next, BusStep, ServerStep, ClientStep, Failure

(* The client of an event stream yields every event of the Run once and in  *)
(* sequence, for every queue size and every schedule of overflow, replay,   *)
(* reconnection and Gateway deaths.                                         *)
THEOREM StreamInSequence == Spec => []SeenInSequence
<1>1. Inv => SeenInSequence
  BY DEF Inv
<1> QED
  BY <1>1, InvInit, InvNext, PTL DEF Spec

-----------------------------------------------------------------------------
(* The Observer (gateway/observer.py).                                     *)

ObEvents == ObKinds \union {"output"}

ObTypes ==
  /\ obStream \in Seq(ObEvents)
  /\ obRow \in [status : {"none", "active", "finalized", "failed"}, offset : Nat, drift : BOOLEAN]
  /\ obWork \in [by : {"nobody", "chain", "recover"}, source : Nat,
                 pc : {"none", "read", "finalize", "end"}, out : {0, 1}]
  /\ obChain \in Seq(Nat)

\* The terminal event is one, and only outputs of the Observer follow it.
ObLast ==
  \A n \in 1..Len(obStream) : obStream[n] = "terminal" =>
    \A m \in 1..Len(obStream) : m > n => obStream[m] = "output"

\* The offset stands in the stream, and what is visible is what lies before it.
ObOffset ==
  /\ obRow.offset <= Len(obStream)
  /\ obVisible = {n \in 1..obRow.offset : IsVisible(obStream[n])}

\* Observations reach no further than the stream.
ObReach ==
  /\ obWork.source <= Len(obStream)
  /\ \A i \in 1..Len(obChain) : obChain[i] <= Len(obStream)

\* The terminal event has been consumed.
Consumed == \E n \in 1..obRow.offset : obStream[n] = "terminal"

\* What came of the Run came from its terminal event.
ObOutcome ==
  /\ obProposal # "none" => Consumed /\ obRow.status = "finalized"
  /\ obEvidence # {} => Consumed /\ obEvidence = obVisible /\ obRow.status = "finalized"

\* Where the observation stands.
ObWorks ==
  /\ obWork.pc \in {"read", "finalize"} => obRow.status \in {"none", "active"}
  /\ obWork.pc = "finalize" => Consumed
  /\ obWork.by = "recover" \/ obSettled => obRow.status # "none"
  /\ obWork.pc = "end" /\ obWork.by = "recover" /\ obWork.source = Len(obStream)
       /\ obStream # << >> /\ obStream[Len(obStream)] = "terminal" => obRow.status # "active"

\* How far the publication of the Skill has come.
ObPublishing ==
  /\ obStep = "install" => obSkill = "staged" /\ obCand # "published"
  /\ obStep \in {"reload", "publish"} => obSkill = "installed"
  /\ obStep = "publish" => obLive
  /\ PublishedIsLive

ObInv == ObTypes /\ ObLast /\ ObOffset /\ ObReach /\ ObOutcome /\ ObWorks /\ RecoverySettles /\ ObPublishing

-----------------------------------------------------------------------------
LEMMA ObSequences ==
  ASSUME NEW S, NEW q \in Seq(S), NEW x \in S
  PROVE  /\ Append(q, x) \in Seq(S) /\ Len(Append(q, x)) = Len(q) + 1
         /\ Append(q, x)[Len(q) + 1] = x /\ Len(q) \in Nat
         /\ \A i \in 1..Len(q) : Append(q, x)[i] = q[i]
         /\ Append(q, x) # << >>
<1>1. Len(Append(q, x)) = Len(q) + 1 /\ Len(q) \in Nat
  OBVIOUS
<1>2. Append(q, x) # << >>
  <2>1. Len(<< >>) = 0
    OBVIOUS
  <2> QED BY <1>1, <2>1
<1> QED BY <1>2

\* The stream grows by one event, while nobody's offset moves.
LEMMA ObGrows ==
  ASSUME ObInv, NEW k \in ObEvents, obStream' = Append(obStream, k),
         k = "output" \/ ~ ObEnded,
         UNCHANGED << obRow, obVisible, obCorrect, obWork >>
  PROVE  /\ obStream' \in Seq(ObEvents) /\ Len(obStream') = Len(obStream) + 1 /\ Len(obStream) \in Nat
         /\ ObLast' /\ ObOffset' /\ ObOutcome'
         /\ Consumed => Consumed'
<1>1. obStream \in Seq(ObEvents) /\ obRow.offset \in Nat
  BY DEF ObInv, ObTypes
<1>2. /\ obStream' \in Seq(ObEvents) /\ Len(obStream') = Len(obStream) + 1 /\ Len(obStream) \in Nat
      /\ obStream'[Len(obStream) + 1] = k
      /\ \A i \in 1..Len(obStream) : obStream'[i] = obStream[i]
  BY <1>1, ObSequences
<1>3. k # "output" => \A n \in 1..Len(obStream) : obStream[n] # "terminal"
  BY <1>1 DEF ObEnded
<1>4. ObLast'
  <2> SUFFICES ASSUME NEW n \in 1..Len(obStream'), obStream'[n] = "terminal",
                      NEW m \in 1..Len(obStream'), m > n
               PROVE  obStream'[m] = "output"
    BY DEF ObLast
  <2>1. n \in 1..Len(obStream) /\ obStream[n] = "terminal"
    BY <1>2
  <2>2. k = "output"
    BY <1>3, <2>1
  <2>3. CASE m = Len(obStream) + 1
    BY <1>2, <2>2, <2>3
  <2>4. CASE m \in 1..Len(obStream)
    BY <1>2, <2>1, <2>4 DEF ObInv, ObLast
  <2> QED BY <1>2, <2>3, <2>4
<1>5. obRow.offset <= Len(obStream) /\ (\A i \in 1..obRow.offset : i \in 1..Len(obStream))
  BY <1>1, <1>2 DEF ObInv, ObOffset
<1>6. ObOffset'
  <2>1. obVisible = {n \in 1..obRow.offset : IsVisible(obStream[n])}
    BY DEF ObInv, ObOffset
  <2>2. obVisible' = {n \in 1..obRow.offset : IsVisible(obStream'[n])}
    BY <1>2, <1>5, <2>1
  <2> QED BY <1>1, <1>2, <1>5, <2>2 DEF ObOffset
<1>7. Consumed => Consumed'
  BY <1>2, <1>5 DEF Consumed
<1>8. ObOutcome'
  BY <1>7 DEF ObInv, ObOutcome, obCorrect
<1> QED BY <1>2, <1>4, <1>6, <1>7, <1>8

LEMMA ObInitial == ObInit => ObInv
<1> SUFFICES ASSUME ObInit PROVE ObInv
  OBVIOUS
<1>1. obStream = << >> /\ obChain = << >> /\ Len(<< >>) = 0 /\ obRow.offset = 0
      /\ obRow.status = "none" /\ obWork = NoObservation
  BY DEF ObInit, NoInstance
<1>2. ObTypes
  BY DEF ObInit, ObTypes, NoInstance, NoObservation, ObEvents
<1>3. ObLast /\ ObOffset /\ ObReach
  BY <1>1 DEF ObInit, ObLast, ObOffset, ObReach, NoObservation
<1>4. ObOutcome /\ ObWorks /\ RecoverySettles /\ ObPublishing
  BY <1>1 DEF ObInit, ObOutcome, ObWorks, RecoverySettles, ObPublishing, PublishedIsLive, NoObservation
<1> QED BY <1>2, <1>3, <1>4 DEF ObInv

LEMMA ObEmitKeeps == ObInv /\ (\E kind \in ObKinds : ObEmit(kind)) => ObInv'
<1> SUFFICES ASSUME ObInv, NEW kind \in ObKinds, ObEmit(kind) PROVE ObInv'
  OBVIOUS
<1>1. /\ obStream' = Append(obStream, kind) /\ ~ ObEnded /\ obSettled' = FALSE
      /\ obChain' = IF ModelKind(kind) THEN Append(obChain, Len(obStream) + 1) ELSE obChain
      /\ UNCHANGED << obRow, obVisible, obCorrect, obWork, obOut, obPaused, obSkills, obBounds >>
      /\ kind \in ObEvents
  BY DEF ObEmit, ObEvents
<1>2. /\ obStream' \in Seq(ObEvents) /\ Len(obStream') = Len(obStream) + 1 /\ Len(obStream) \in Nat
      /\ ObLast' /\ ObOffset' /\ ObOutcome' /\ (Consumed => Consumed')
  BY <1>1, ObGrows
<1>3. obChain \in Seq(Nat) /\ Len(obStream) + 1 \in Nat /\ (\A i \in 1..Len(obChain) : obChain[i] <= Len(obStream))
  BY <1>2 DEF ObInv, ObTypes, ObReach
<1>4. obChain' \in Seq(Nat) /\ (\A i \in 1..Len(obChain') : obChain'[i] <= Len(obStream) + 1)
  <2>1. CASE ModelKind(kind)
    <3>1. obChain' = Append(obChain, Len(obStream) + 1)
      BY <1>1, <2>1
    <3>2. /\ obChain' \in Seq(Nat) /\ Len(obChain') = Len(obChain) + 1 /\ Len(obChain) \in Nat
          /\ obChain'[Len(obChain) + 1] = Len(obStream) + 1
          /\ \A i \in 1..Len(obChain) : obChain'[i] = obChain[i]
      BY <1>3, <3>1, ObSequences
    <3>3. ASSUME NEW i \in 1..Len(obChain') PROVE obChain'[i] <= Len(obStream) + 1
      <4>1. CASE i \in 1..Len(obChain)
        <5>1. obChain'[i] = obChain[i] /\ obChain[i] <= Len(obStream) /\ obChain[i] \in Nat
          BY <1>3, <3>2, <4>1
        <5> QED BY <1>2, <5>1
      <4>2. CASE i = Len(obChain) + 1
        BY <1>2, <3>2, <4>2
      <4> QED BY <3>2, <4>1, <4>2
    <3> QED BY <3>2, <3>3
  <2>2. CASE ~ ModelKind(kind)
    <3>1. obChain' = obChain
      BY <1>1, <2>2
    <3>2. \A i \in 1..Len(obChain) : obChain[i] \in Nat
      BY <1>3
    <3> QED BY <1>2, <1>3, <3>1, <3>2
  <2> QED BY <2>1, <2>2
<1>5. ObReach'
  <2>1. obWork'.source <= Len(obStream) + 1
    BY <1>1, <1>2 DEF ObInv, ObReach, ObTypes
  <2> QED BY <1>2, <1>4, <2>1 DEF ObReach
<1>6. ObTypes'
  BY <1>1, <1>2, <1>4 DEF ObInv, ObTypes
<1>7. obWork.source <= Len(obStream) /\ obWork.source \in Nat
  BY DEF ObInv, ObReach, ObTypes
<1>8. ObWorks'
  BY <1>1, <1>2, <1>7 DEF ObInv, ObWorks
<1>9. RecoverySettles' /\ ObPublishing'
  BY <1>1 DEF ObInv, RecoverySettles, ObPublishing, PublishedIsLive, obSkills
<1> QED BY <1>2, <1>5, <1>6, <1>8, <1>9 DEF ObInv

LEMMA ObOutputKeeps == ObInv /\ RecordOutput => ObInv'
<1> SUFFICES ASSUME ObInv, RecordOutput PROVE ObInv'
  OBVIOUS
<1>1. /\ obStream' = Append(obStream, "output") /\ obSettled' = FALSE /\ "output" \in ObEvents
      /\ UNCHANGED << obRow, obVisible, obCorrect, obChain, obWork, obPaused, obSkills, obBounds >>
      /\ obWork = NoObservation
  BY DEF RecordOutput, ObEvents, Rested
<1>2. /\ obStream' \in Seq(ObEvents) /\ Len(obStream') = Len(obStream) + 1 /\ Len(obStream) \in Nat
      /\ ObLast' /\ ObOffset' /\ ObOutcome' /\ (Consumed => Consumed')
  BY <1>1, ObGrows
<1>3. obChain \in Seq(Nat) /\ obWork.source \in Nat
      /\ (\A i \in 1..Len(obChain) : obChain[i] <= Len(obStream) /\ obChain[i] \in Nat)
      /\ obWork.source <= Len(obStream)
  BY DEF ObInv, ObTypes, ObReach
<1>4. ObReach'
  BY <1>1, <1>2, <1>3 DEF ObReach
<1>5. ObTypes'
  BY <1>1, <1>2 DEF ObInv, ObTypes
<1>6. ObWorks'
  BY <1>1, <1>2 DEF ObInv, ObWorks, NoObservation
<1>7. RecoverySettles' /\ ObPublishing'
  BY <1>1 DEF ObInv, RecoverySettles, ObPublishing, PublishedIsLive, obSkills
<1> QED BY <1>2, <1>4, <1>5, <1>6, <1>7 DEF ObInv

\* Nothing the observation reads or writes has moved.
ObStill == UNCHANGED << obStream, obRow, obVisible, obProposal, obEvidence, obSkills >>

LEMMA ObStillKeeps ==
  ASSUME ObInv, ObStill
  PROVE  ObLast' /\ ObOffset' /\ ObOutcome' /\ ObPublishing' /\ (Consumed <=> Consumed')
BY DEF ObStill, ObInv, ObLast, ObOffset, ObOutcome, Consumed, ObPublishing, PublishedIsLive, obSkills

LEMMA ObChainKeeps == ObInv /\ ChainObserves => ObInv'
<1> SUFFICES ASSUME ObInv, ChainObserves PROVE ObInv'
  OBVIOUS
<1>1. obChain # << >> /\ obChain' = Tail(obChain) /\ obSettled' = obSettled /\ ObStill
      /\ obWork' = [by |-> "chain", source |-> Head(obChain),
                    pc |-> IF obPaused # "no" \/ obRow.status \notin {"none", "active"}
                           THEN "end" ELSE "read", out |-> 0]
  BY DEF ChainObserves, ObStill, obCorrect, Rested
<1>2. obChain \in Seq(Nat)
  BY DEF ObInv, ObTypes
<1>3. /\ obChain' \in Seq(Nat) /\ Head(obChain) \in Nat /\ Len(obChain') = Len(obChain) - 1
      /\ Len(obChain) \in Nat /\ Len(obChain) > 0 /\ Head(obChain) = obChain[1]
      /\ \A i \in 1..Len(obChain') : obChain'[i] = obChain[i + 1]
  BY <1>1, <1>2
<1>4. ObTypes'
  BY <1>1, <1>3 DEF ObInv, ObTypes, ObStill
<1>5. ObReach'
  <2>1. Head(obChain) <= Len(obStream)
    BY <1>3 DEF ObInv, ObReach
  <2>2. \A i \in 1..Len(obChain') : obChain'[i] <= Len(obStream)
    BY <1>3 DEF ObInv, ObReach
  <2> QED BY <1>1, <2>1, <2>2 DEF ObReach, ObStill
<1>6. ObWorks'
  BY <1>1 DEF ObInv, ObWorks, ObStill
<1>7. RecoverySettles'
  BY <1>1 DEF ObInv, RecoverySettles, ObStill
<1> QED BY <1>1, <1>4, <1>5, <1>6, <1>7, ObStillKeeps DEF ObInv

LEMMA ObRecoverKeeps == ObInv /\ RecoverObserves => ObInv'
<1> SUFFICES ASSUME ObInv, RecoverObserves PROVE ObInv'
  OBVIOUS
<1>1. obChain' = obChain /\ obSettled' = obSettled /\ ObStill /\ obRow.status = "active"
      /\ obWork' = [by |-> "recover", source |-> Len(obStream), pc |-> "read", out |-> 0]
  BY DEF RecoverObserves, ObStill, obCorrect
<1>2. Len(obStream) \in Nat
  BY DEF ObInv, ObTypes
<1>3. ObTypes'
  BY <1>1, <1>2 DEF ObInv, ObTypes, ObStill
<1>4. ObReach'
  BY <1>1, <1>2 DEF ObInv, ObReach, ObStill
<1>5. ObWorks'
  BY <1>1 DEF ObInv, ObWorks, ObStill
<1>6. RecoverySettles'
  BY <1>1 DEF ObInv, RecoverySettles, ObStill
<1> QED BY <1>1, <1>3, <1>4, <1>5, <1>6, ObStillKeeps DEF ObInv

\* An event is consumed: nothing came of the Run so far.
LEMMA ObNextKeeps == ObInv /\ (\E drift \in BOOLEAN : ObserveNext(drift)) => ObInv'
<1> SUFFICES ASSUME ObInv, NEW drift \in BOOLEAN, ObserveNext(drift) PROVE ObInv'
  OBVIOUS
<1>1. PICK n : n = obRow.offset + 1
  OBVIOUS
<1>2. /\ obWork.pc = "read" /\ n <= obWork.source
      /\ obRow' = [status |-> "active", offset |-> n, drift |-> drift]
      /\ obVisible' = IF IsVisible(obStream[n]) THEN obVisible \cup {n} ELSE obVisible
      /\ obWork' = [obWork EXCEPT !.pc = IF obStream[n] = "terminal" THEN "finalize" ELSE "read",
                                  !.out = IF obStream[n] = "milestone" THEN 1 ELSE @]
      /\ UNCHANGED << obStream, obCorrect, obChain, obOut, obPaused, obSettled, obSkills, obBounds >>
  BY <1>1 DEF ObserveNext, NextEvent, CommitEvent
<1>3. /\ obRow.offset \in Nat /\ obRow.offset <= Len(obStream) /\ Len(obStream) \in Nat
      /\ obWork.source \in Nat /\ obWork.source <= Len(obStream)
      /\ obVisible = {i \in 1..obRow.offset : IsVisible(obStream[i])}
      /\ obWork \in [by : {"nobody", "chain", "recover"}, source : Nat,
                     pc : {"none", "read", "finalize", "end"}, out : {0, 1}]
  BY DEF ObInv, ObTypes, ObOffset, ObReach
<1>4. n \in 1..Len(obStream) /\ n \in Nat
  BY <1>1, <1>2, <1>3
<1>5. obProposal = "none" /\ obEvidence = {} /\ obRow.status \in {"none", "active"}
  BY <1>2 DEF ObInv, ObOutcome, ObWorks
<1>6. ObTypes'
  BY <1>2, <1>3, <1>4 DEF ObInv, ObTypes
<1>7. ObOffset'
  <2>1. obRow'.offset = n
    BY <1>2
  <2>2. obVisible' = {i \in 1..n : IsVisible(obStream[i])}
    <3>1. \A i \in 1..n : i = n \/ i \in 1..obRow.offset
      BY <1>1, <1>3
    <3>2. n \in 1..n /\ (\A i \in 1..obRow.offset : i \in 1..n)
      BY <1>1, <1>3
    <3> HIDE DEF IsVisible
    <3> QED BY <1>2, <1>3, <3>1, <3>2
  <2> QED BY <1>2, <1>4, <2>1, <2>2 DEF ObOffset
<1>8. ObLast' /\ ObReach' /\ ObPublishing'
  BY <1>2, <1>3 DEF ObInv, ObLast, ObReach, ObPublishing, PublishedIsLive, obSkills
<1>9. ObOutcome'
  BY <1>2, <1>5 DEF ObOutcome, obCorrect
<1>10. obStream[n] = "terminal" => Consumed'
  BY <1>2, <1>4 DEF Consumed
<1>11. ObWorks'
  BY <1>2, <1>3, <1>10 DEF ObInv, ObWorks
<1>12. RecoverySettles'
  BY <1>2, <1>5 DEF ObInv, ObWorks, RecoverySettles
<1> QED BY <1>6, <1>7, <1>8, <1>9, <1>11, <1>12 DEF ObInv

\* Only the status of the row changes.
LEMMA ObStatusKeeps ==
  ASSUME ObInv, NEW s \in {"none", "active", "finalized", "failed"}, obRow' = [obRow EXCEPT !.status = s],
         UNCHANGED << obStream, obVisible >>
  PROVE  /\ obRow' \in [status : {"none", "active", "finalized", "failed"}, offset : Nat, drift : BOOLEAN]
         /\ obRow'.status = s /\ obRow'.offset = obRow.offset
         /\ ObLast' /\ ObOffset' /\ (Consumed <=> Consumed')
<1>1. obRow \in [status : {"none", "active", "finalized", "failed"}, offset : Nat, drift : BOOLEAN]
  BY DEF ObInv, ObTypes
<1>2. obRow'.status = s /\ obRow'.offset = obRow.offset
      /\ obRow' \in [status : {"none", "active", "finalized", "failed"}, offset : Nat, drift : BOOLEAN]
  BY <1>1
<1>3. ObOffset'
  BY <1>2 DEF ObInv, ObOffset
<1> QED BY <1>2, <1>3 DEF ObInv, ObLast, Consumed

LEMMA ObFailsKeeps == ObInv /\ ObserverFails => ObInv'
<1> SUFFICES ASSUME ObInv, ObserverFails PROVE ObInv'
  OBVIOUS
<1>1. /\ obWork.pc = "read" /\ RecordFailure /\ obWork' = NoObservation
      /\ UNCHANGED << obStream, obVisible, obProposal, obEvidence, obChain, obSettled, obSkills >>
  BY DEF ObserverFails, obCorrect
<1>2. obProposal = "none" /\ obEvidence = {}
  BY <1>1 DEF ObInv, ObOutcome, ObWorks
<1>3. Len(obStream) \in Nat
  BY DEF ObInv, ObTypes
<1>4. /\ obRow' \in [status : {"none", "active", "finalized", "failed"}, offset : Nat, drift : BOOLEAN]
      /\ ObLast' /\ ObOffset'
      /\ obRow'.status = IF obRow.status = "active" THEN "failed" ELSE obRow.status
  <2>1. CASE obRow.status = "active"
    BY <1>1, <2>1, ObStatusKeeps DEF RecordFailure
  <2>2. CASE obRow.status # "active"
    BY <1>1, <2>2 DEF RecordFailure, ObInv, ObTypes, ObLast, ObOffset
  <2> QED BY <2>1, <2>2
<1>5. ObTypes'
  BY <1>1, <1>4 DEF ObInv, ObTypes, NoObservation
<1>6. ObReach' /\ ObPublishing'
  BY <1>1, <1>3 DEF ObInv, ObReach, ObPublishing, PublishedIsLive, obSkills, NoObservation
<1>7. ObOutcome' /\ ObWorks' /\ RecoverySettles'
  BY <1>1, <1>2, <1>4 DEF ObInv, ObOutcome, ObWorks, RecoverySettles, NoObservation
<1> QED BY <1>4, <1>5, <1>6, <1>7 DEF ObInv

\* The terminal event is turned into evidence or a proposal; the observation is over.
LEMMA ObFinalizeKeeps ==
  ASSUME ObInv, Consumed, FinalizeOrPropose, NEW o \in {0, 1},
         obWork' = [obWork EXCEPT !.pc = "end", !.out = o],
         UNCHANGED << obStream, obVisible, obChain, obSettled, obSkills >>
  PROVE  ObInv'
<1>1. obRow' = [obRow EXCEPT !.status = "finalized"]
  BY DEF FinalizeOrPropose
<1>2. /\ obRow' \in [status : {"none", "active", "finalized", "failed"}, offset : Nat, drift : BOOLEAN]
      /\ obRow'.status = "finalized"
      /\ ObLast' /\ ObOffset' /\ (Consumed <=> Consumed')
  BY <1>1, ObStatusKeeps
<1>3. obEvidence' = obEvidence \/ obEvidence' = obVisible
  BY DEF FinalizeOrPropose, RuleEvidence
<1>4. obWork \in [by : {"nobody", "chain", "recover"}, source : Nat,
                  pc : {"none", "read", "finalize", "end"}, out : {0, 1}]
  BY DEF ObInv, ObTypes
<1>5. ObTypes'
  BY <1>2, <1>4 DEF ObInv, ObTypes
<1>6. ObReach' /\ ObPublishing'
  BY <1>4 DEF ObInv, ObReach, ObPublishing, PublishedIsLive, obSkills
<1>7. ObOutcome'
  BY <1>2, <1>3 DEF ObInv, ObOutcome
<1>8. ObWorks' /\ RecoverySettles'
  BY <1>2, <1>4 DEF ObInv, ObWorks, RecoverySettles
<1> QED BY <1>2, <1>5, <1>6, <1>7, <1>8 DEF ObInv

LEMMA ObTerminalKeeps == ObInv /\ ObserveTerminal => ObInv'
<1> SUFFICES ASSUME ObInv, ObserveTerminal PROVE ObInv'
  OBVIOUS
<1>1. PICK o : o = IF obRow.drift THEN 1 ELSE obWork.out
  OBVIOUS
<1>2. /\ obWork.pc = "finalize" /\ FinalizeOrPropose
      /\ obWork' = [obWork EXCEPT !.pc = "end", !.out = o]
      /\ UNCHANGED << obStream, obVisible, obChain, obSettled, obSkills >>
  BY <1>1 DEF ObserveTerminal
<1>3. o \in {0, 1}
  BY <1>1 DEF ObInv, ObTypes
<1>4. Consumed
  BY <1>2 DEF ObInv, ObWorks
<1> QED BY <1>2, <1>3, <1>4, ObFinalizeKeeps

LEMMA ObReconcilesKeeps == ObInv /\ ObserveReconciles => ObInv'
<1> SUFFICES ASSUME ObInv, ObserveReconciles PROVE ObInv'
  OBVIOUS
<1>1. /\ obWork.pc = "read" /\ obWork.source < obRow.offset + 1
      /\ obWork' = [obWork EXCEPT !.pc = "end"]
      /\ UNCHANGED << obStream, obVisible, obChain, obSettled, obSkills >>
  BY DEF ObserveReconciles, NextEvent
<1>2. /\ obRow.offset \in Nat /\ obWork.source \in Nat
      /\ obWork \in [by : {"nobody", "chain", "recover"}, source : Nat,
                     pc : {"none", "read", "finalize", "end"}, out : {0, 1}]
      /\ Len(obStream) \in Nat /\ obStream \in Seq(ObEvents)
  BY DEF ObInv, ObTypes
<1>3. CASE obWork.source > 0 /\ obStream[obWork.source] = "terminal" /\ obRow.status = "active"
  <2>1. FinalizeOrPropose
    BY <1>3 DEF ObserveReconciles
  <2>2. obWork.source \in 1..obRow.offset
    BY <1>1, <1>2, <1>3
  <2>3. Consumed
    BY <1>3, <2>2 DEF Consumed
  <2>4. PICK o \in {0, 1} : o = obWork.out
    BY <1>2
  <2>5. obWork' = [obWork EXCEPT !.pc = "end", !.out = o]
    BY <1>1, <1>2, <2>4
  <2> QED BY <1>1, <2>1, <2>3, <2>5, ObFinalizeKeeps
<1>4. CASE ~ (obWork.source > 0 /\ obStream[obWork.source] = "terminal" /\ obRow.status = "active")
  <2>1. UNCHANGED << obRow, obProposal, obEvidence >>
    BY <1>4 DEF ObserveReconciles
  <2>2. ObStill
    BY <1>1, <2>1 DEF ObStill
  <2>3. ObTypes'
    BY <1>1, <1>2, <2>1 DEF ObInv, ObTypes
  <2>4. ObReach'
    BY <1>1, <1>2 DEF ObInv, ObReach
  <2>5. obStream # << >> => Len(obStream) > 0
    BY <1>2
  <2>6. ObWorks'
    BY <1>1, <1>2, <1>4, <2>1, <2>5 DEF ObInv, ObWorks
  <2>7. RecoverySettles'
    BY <1>1, <2>1 DEF ObInv, RecoverySettles
  <2> QED BY <2>2, <2>3, <2>4, <2>6, <2>7, ObStillKeeps DEF ObInv
<1> QED BY <1>3, <1>4

LEMMA ObEndsKeeps == ObInv /\ ObserveEnds => ObInv'
<1> SUFFICES ASSUME ObInv, ObserveEnds PROVE ObInv'
  OBVIOUS
<1>1. /\ obWork.pc = "end" /\ obWork' = NoObservation /\ obChain' = obChain /\ ObStill
      /\ obSettled' = (obSettled \/ (obWork.by = "recover" /\ obWork.source = Len(obStream)))
  BY DEF ObserveEnds, ObStill, obCorrect
<1>2. Len(obStream) \in Nat
  BY DEF ObInv, ObTypes
<1>3. ObTypes' /\ ObReach'
  BY <1>1, <1>2 DEF ObInv, ObTypes, ObReach, ObStill, NoObservation
<1>4. ObWorks' /\ RecoverySettles'
  BY <1>1 DEF ObInv, ObWorks, RecoverySettles, ObStill, NoObservation
<1> QED BY <1>1, <1>3, <1>4, ObStillKeeps DEF ObInv

\* A decision or its deadline finalizes the instance a second time.
LEMMA ObDecidesKeeps == ObInv /\ (ExpireProposal \/ \E a \in {"adopted", "rejected"} : DecideCorrection(a)) => ObInv'
<1> SUFFICES ASSUME ObInv, ExpireProposal \/ \E a \in {"adopted", "rejected"} : DecideCorrection(a) PROVE ObInv'
  OBVIOUS
<1>1. /\ UNCHANGED << obStream, obVisible, obChain, obWork, obSettled, obSkills >>
      /\ \/ obProposal = "pending" /\ obEvidence' = obVisible /\ obRow' = [obRow EXCEPT !.status = "finalized"]
         \/ UNCHANGED << obProposal, obEvidence, obRow >>
  BY DEF ExpireProposal, DecideCorrection, RuleEvidence
<1>2. CASE UNCHANGED << obProposal, obEvidence, obRow >>
  <2>1. ObStill
    BY <1>1, <1>2 DEF ObStill
  <2>2. ObTypes' /\ ObReach' /\ ObWorks' /\ RecoverySettles'
    BY <1>1, <1>2 DEF ObInv, ObTypes, ObReach, ObWorks, RecoverySettles, Consumed
  <2> QED BY <2>1, <2>2, ObStillKeeps DEF ObInv
<1>3. CASE obProposal = "pending" /\ obEvidence' = obVisible /\ obRow' = [obRow EXCEPT !.status = "finalized"]
  <2>1. /\ obRow' \in [status : {"none", "active", "finalized", "failed"}, offset : Nat, drift : BOOLEAN]
        /\ obRow'.status = "finalized"
        /\ ObLast' /\ ObOffset' /\ (Consumed <=> Consumed')
    BY <1>1, <1>3, ObStatusKeeps
  <2>2. Consumed /\ obRow.status = "finalized"
    BY <1>3 DEF ObInv, ObOutcome
  <2>3. ObTypes' /\ ObReach' /\ ObPublishing'
    BY <1>1, <2>1 DEF ObInv, ObTypes, ObReach, ObPublishing, PublishedIsLive, obSkills
  <2>4. ObOutcome'
    BY <1>1, <1>3, <2>1, <2>2 DEF ObOutcome
  <2>5. ObWorks' /\ RecoverySettles'
    BY <1>1, <2>1, <2>2 DEF ObInv, ObWorks, RecoverySettles
  <2> QED BY <2>1, <2>3, <2>4, <2>5 DEF ObInv
<1> QED BY <1>1, <1>2, <1>3

\* Pauses, follow-ups, the start of the process and the Skill leave the observation alone.
LEMMA ObAsideKeeps ==
  ASSUME ObInv, UNCHANGED << obStream, obRow, obVisible, obProposal, obEvidence, obChain, obWork, obSettled >>,
         ObPublishing'
  PROVE  ObInv'
BY DEF ObInv, ObTypes, ObLast, ObOffset, ObReach, ObOutcome, ObWorks, RecoverySettles, Consumed

LEMMA ObPauseKeeps ==
  ObInv /\ (ObserverQuiesce \/ ConsumeBarrier \/ ObserverResume \/ StartFollowup \/ ObserverRestarts) => ObInv'
<1> SUFFICES ASSUME ObInv, ObserverQuiesce \/ ConsumeBarrier \/ ObserverResume \/ StartFollowup \/ ObserverRestarts
             PROVE ObInv'
  OBVIOUS
<1>1. UNCHANGED << obStream, obRow, obVisible, obProposal, obEvidence, obChain, obWork, obSettled, obSkills >>
  BY DEF ObserverQuiesce, ConsumeBarrier, ObserverResume, StartFollowup, ObserverRestarts, obCorrect
<1>2. ObPublishing'
  BY <1>1 DEF ObInv, ObPublishing, PublishedIsLive, obSkills
<1> QED BY <1>1, <1>2, ObAsideKeeps

LEMMA ObSkillKeeps ==
  ObInv /\ (CreateSkillCandidate \/ (\E ok \in BOOLEAN : DecideSkillCandidate(ok)) \/ StageSkill \/ InstallSkill
            \/ ReloadWithSkill \/ MarkSkillPublished) => ObInv'
<1> SUFFICES ASSUME ObInv, CreateSkillCandidate \/ (\E ok \in BOOLEAN : DecideSkillCandidate(ok)) \/ StageSkill
                           \/ InstallSkill \/ ReloadWithSkill \/ MarkSkillPublished
             PROVE ObInv'
  OBVIOUS
<1>1. UNCHANGED << obStream, obRow, obVisible, obProposal, obEvidence, obChain, obWork, obSettled >>
  BY DEF CreateSkillCandidate, DecideSkillCandidate, StageSkill, InstallSkill, ReloadWithSkill,
         MarkSkillPublished, ObRest, obCorrect
<1>2. ObPublishing'
  BY DEF ObInv, ObPublishing, PublishedIsLive, CreateSkillCandidate, DecideSkillCandidate, StageSkill,
         InstallSkill, ReloadWithSkill, MarkSkillPublished
<1> QED BY <1>1, <1>2, ObAsideKeeps

LEMMA ObDeathKeeps == ObInv /\ ObserverDies => ObInv'
<1> SUFFICES ASSUME ObInv, ObserverDies PROVE ObInv'
  OBVIOUS
<1>1. /\ UNCHANGED << obStream, obRow, obVisible, obProposal, obEvidence, obCand, obSkill, obLive >>
      /\ obChain' = << >> /\ obWork' = NoObservation /\ obStep' = "idle" /\ obSettled' = FALSE
  BY DEF ObserverDies
<1>2. Len(obStream) \in Nat /\ << >> \in Seq(Nat) /\ Len(<< >>) = 0
  BY DEF ObInv, ObTypes
<1>3. ObTypes' /\ ObReach'
  BY <1>1, <1>2 DEF ObInv, ObTypes, ObReach, NoObservation
<1>4. ObLast' /\ ObOffset' /\ ObOutcome' /\ ObWorks' /\ RecoverySettles' /\ ObPublishing'
  BY <1>1 DEF ObInv, ObLast, ObOffset, ObOutcome, ObWorks, RecoverySettles, ObPublishing, PublishedIsLive,
              Consumed, NoObservation
<1> QED BY <1>3, <1>4 DEF ObInv

LEMMA ObStep == ObInv /\ [ObNext]_obVars => ObInv'
<1>1. ObInv /\ UNCHANGED obVars => ObInv'
  BY DEF obVars, obSkills, ObInv, ObTypes, ObLast, ObOffset, ObReach, ObOutcome, ObWorks, RecoverySettles, Consumed,
         ObPublishing, PublishedIsLive
<1> QED BY <1>1, ObEmitKeeps, ObOutputKeeps, ObChainKeeps, ObRecoverKeeps, ObNextKeeps, ObFailsKeeps,
           ObTerminalKeeps, ObReconcilesKeeps, ObEndsKeeps, ObDecidesKeeps, ObPauseKeeps, ObSkillKeeps,
           ObDeathKeeps DEF ObNext

(* The Observer of gateway/observer.py: the evidence it writes for a Run is *)
(* of every visible event up to the terminal one, a recovery pass leaves no *)
(* Run unsettled behind its last event, and a Skill it published is live,   *)
(* for every interleaving of the events of a Run, the chained observations, *)
(* their failures and resumptions, recovery passes and deaths.              *)
THEOREM ObserverTellsAll == ObSpec => []ObserverSound
<1>1. ObInv => ObserverSound
  <2> SUFFICES ASSUME ObInv PROVE EvidenceIsComplete
    BY DEF ObserverSound, ObInv, ObPublishing
  <2> SUFFICES ASSUME obEvidence # {}
               PROVE  ObEnded /\ obEvidence = {n \in 1 .. TerminalAt : IsVisible(obStream[n])}
    BY DEF EvidenceIsComplete
  <2>1. obStream \in Seq(ObEvents) /\ obRow.offset \in Nat /\ obRow.offset <= Len(obStream)
        /\ Len(obStream) \in Nat /\ DOMAIN obStream = 1..Len(obStream)
    BY DEF ObInv, ObTypes, ObOffset
  <2>2. PICK t \in 1..obRow.offset : obStream[t] = "terminal"
    BY DEF ObInv, ObOutcome, Consumed
  <2>3. t \in 1..Len(obStream)
    BY <2>1, <2>2
  <2>4. \A n \in 1..Len(obStream) : obStream[n] = "terminal" => n = t
    BY <2>1, <2>2, <2>3 DEF ObInv, ObLast
  <2>5. TerminalAt = t
    BY <2>1, <2>2, <2>3, <2>4, Zenon DEF TerminalAt
  <2>6. \A n \in 1..obRow.offset : n > t => ~ IsVisible(obStream[n])
    BY <2>1, <2>2, <2>3 DEF ObInv, ObLast, IsVisible
  <2>7. {n \in 1..obRow.offset : IsVisible(obStream[n])} = {n \in 1..t : IsVisible(obStream[n])}
    <3>1. \A n \in 1..t : n \in 1..obRow.offset
      BY <2>1, <2>2
    <3>2. \A n \in 1..obRow.offset : n > t \/ n \in 1..t
      BY <2>1, <2>2
    <3> HIDE DEF IsVisible
    <3> QED BY <2>6, <3>1, <3>2
  <2>8. obEvidence = {n \in 1..obRow.offset : IsVisible(obStream[n])}
    BY DEF ObInv, ObOutcome, ObOffset
  <2> QED BY <2>1, <2>2, <2>3, <2>5, <2>7, <2>8 DEF ObEnded
<1> HIDE DEF ObInv
<1> QED BY <1>1, ObInitial, ObStep, PTL DEF ObSpec
=============================================================================
