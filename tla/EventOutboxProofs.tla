-------------------------- MODULE EventOutboxProofs --------------------------
(***************************************************************************)
(* Theorems about the transactional outbox: for any streams, sinks, bounds *)
(* and deaths, sinks are served in sequence and events keep their bodies.  *)
(***************************************************************************)
EXTENDS EventOutbox, TLAPS

AttStates == { "delivering", "succeeded", "failed", "interrupted" }
Rows == [ stream : Streams, first : 1..MaxEvents, last : 1..MaxEvents,
          status : { "preparing", "verified", "failed", "recovery_required" },
          onDisk : BOOLEAN ]

LedgerTypes ==
  /\ last \in [ Streams -> 0..MaxEvents ] /\ over \subseteq Streams
  /\ status \in [ Events -> [ Sinks -> { "none", "pending", "delivering", "retrying" } \cup Final ] ]
  /\ att \in [ Events -> [ Sinks -> Seq(AttStates) ] ]
  /\ completed \subseteq Written
  /\ proc \in { "up", "down", "recovering" } /\ crashes \in 0..MaxCrashes

DispatchTypes ==
  /\ due \subseteq Written \X Sinks /\ draining \in BOOLEAN
  /\ claim = NoClaim \/ claim \in [ stage : { "claimed", "sent", "raised" }, event : Written, sink : Sinks ]

SinkTypes ==
  /\ file \in [ Streams -> Seq(Fragment..MaxEvents) ]
  /\ known \in [ Streams -> SUBSET (0..MaxEvents) ]
  /\ bus \in [ Streams -> Seq(1..MaxEvents) ] /\ published \subseteq Written

ArchiveTypes ==
  /\ arch \in Seq(Rows)
  /\ body \in [ Events -> { "hot", "archived" } ]
  /\ archiver \in [ at : { "idle", "write", "verify", "dead" }, id : 0..Len(arch) ]

(* A row that is not written yet is blank.                                 *)
Blank ==
  \A e \in Events \ Written :
    body[e] = "hot" /\ \A k \in Sinks : status[e][k] = "none" /\ att[e][k] = << >>

(* The claim in hand is the one row in delivery; what is due is in turn.   *)
Claims ==
  /\ claim # NoClaim => proc = "up" /\ status[claim.event][claim.sink] = "delivering"
  /\ claim.stage = "raised" => claim.sink # "eventbus"
  /\ \A e \in Written, k \in Sinks : << e, k >> \in due =>
       \A d \in Earlier(e) : status[d][k] \in Final

Attempts ==
  \A e \in Events, k \in Sinks :
    /\ \A i \in DOMAIN att[e][k] :
         att[e][k][i] = "delivering" <=> i = Len(att[e][k]) /\ status[e][k] = "delivering"
    /\ status[e][k] = "delivering" =>
         /\ att[e][k] # << >> /\ proc # "recovering"
         /\ proc = "up" => claim # NoClaim /\ claim.event = e /\ claim.sink = k

(* The newest event a subscriber was handed.                               *)
Top(s) == IF bus[s] = << >> THEN 0 ELSE bus[s][Len(bus[s])]

(* The bus is at the event in hand or one before it: every event before its*)
(* newest one is settled, and every settled one was handed over.           *)
BusInTurn ==
  /\ \A s \in Streams : bus[s] # << >> =>
       /\ "eventbus" \in Sinks
       /\ Top(s) <= last[s]
       /\ \A d \in Earlier(<< s, Top(s) >>) : status[d]["eventbus"] \in Final
  /\ \A e \in published : e[2] <= Top(e[1])
  /\ claim.stage = "sent" /\ claim.sink = "eventbus" => claim.event[2] <= Top(claim.event[1])
  /\ "eventbus" \in Sinks =>
       \A e \in Written : status[e]["eventbus"] \in Final => e[2] <= Top(e[1])

(* Without torn writes the file is a sequence of whole lines and the index *)
(* in memory, when there is one, is what the file holds.                   *)
Whole(f) ==
  \A i \in DOMAIN f :
    /\ f[i] >= EOL
    /\ f[i] > EOL => /\ i + 1 \in DOMAIN f /\ f[i + 1] = EOL
                     /\ i > 1 => f[i - 1] = EOL

Unique(f) == \A i, j \in DOMAIN f : i < j /\ f[i] > EOL => f[i] # f[j]

Indexed ==
  /\ \A s \in Streams : known[s] = NoIndex \/ known[s] = Bodies(file[s])
  /\ claim.stage = "sent" /\ claim.sink = "jsonl" => claim.event[2] \in Bodies(file[claim.event[1]])
  /\ "jsonl" \in Sinks =>
       \A e \in Written : status[e]["jsonl"] = "delivered" => e[2] \in Bodies(file[e[1]])

FileInv == (\A s \in Streams : Whole(file[s]) /\ Unique(file[s])) /\ Indexed

(* Archives are disjoint, hold settled events only, and a body is released *)
(* to one that is verified and on disk.                                    *)
ArchiveInv ==
  /\ \A i, j \in DOMAIN arch : \A e \in Events : Holds(arch[i], e) /\ Holds(arch[j], e) => i = j
  /\ \A i \in DOMAIN arch : \A e \in Events : Holds(arch[i], e) =>
       e \in Written /\ \A k \in Sinks : status[e][k] = "delivered"
  /\ \A e \in Events : body[e] = "archived" =>
       \E i \in DOMAIN arch : Holds(arch[i], e) /\ arch[i].status = "verified" /\ arch[i].onDisk
  /\ archiver.at \in { "write", "verify" } =>
       archiver.id \in DOMAIN arch /\ arch[archiver.id].status = "preparing" /\ proc = "up"
  /\ archiver.at = "verify" => arch[archiver.id].onDisk

OutInv ==
  /\ LedgerTypes /\ DispatchTypes /\ SinkTypes /\ ArchiveTypes
  /\ Blank /\ Claims /\ Attempts /\ SinkInSequence
  /\ BusWithoutGaps /\ BusInTurn /\ ArchiveInv

(* What a step leaves alone keeps the part of the invariant that is about it. *)
LEMMA KeepLedgerTypes == LedgerTypes /\ UNCHANGED << last, over, status, att, completed, proc, crashes >> => LedgerTypes'
  BY DEF LedgerTypes, Written, AttStates

LEMMA KeepDispatchTypes == DispatchTypes /\ UNCHANGED << last, due, draining, claim >> => DispatchTypes'
  BY DEF DispatchTypes, Written

LEMMA KeepSinkTypes == SinkTypes /\ UNCHANGED << last, file, known, bus, published >> => SinkTypes'
  BY DEF SinkTypes, Written

LEMMA KeepArchiveTypes == ArchiveTypes /\ UNCHANGED << arch, body, archiver >> => ArchiveTypes'
  BY DEF ArchiveTypes, Rows

LEMMA KeepBlank == Blank /\ UNCHANGED << last, body, status, att >> => Blank'
  BY DEF Blank, Written

LEMMA KeepClaims == Claims /\ UNCHANGED << last, claim, proc, status, due >> => Claims'
  BY DEF Claims, Written, Earlier

LEMMA KeepAttempts == Attempts /\ UNCHANGED << att, status, proc, claim >> => Attempts'
  BY DEF Attempts

LEMMA KeepSinkInSequence == SinkInSequence /\ UNCHANGED << last, status >> => SinkInSequence'
  BY DEF SinkInSequence, Written, Earlier

LEMMA KeepBusWithoutGaps == BusWithoutGaps /\ UNCHANGED << bus >> => BusWithoutGaps'
  BY DEF BusWithoutGaps

LEMMA KeepBusInTurn == BusInTurn /\ UNCHANGED << last, bus, status, published, claim >> => BusInTurn'
  BY DEF BusInTurn, Top, Written, Earlier

LEMMA KeepArchiveInv == ArchiveInv /\ UNCHANGED << last, status, arch, body, archiver, proc >> => ArchiveInv'
  BY DEF ArchiveInv, Written, Holds

LEMMA SequenceOf == ASSUME NEW S, NEW q \in Seq(S) PROVE \A i \in DOMAIN q : q[i] \in S
  OBVIOUS

LEMMA AppendIsLast ==
  ASSUME NEW S, NEW q \in Seq(S), NEW x \in S
  PROVE  /\ Append(q, x) \in Seq(S) /\ Append(q, x) # << >>
         /\ Len(Append(q, x)) = Len(q) + 1 /\ Len(q) \in Nat
         /\ DOMAIN Append(q, x) = 1 .. Len(q) + 1 /\ DOMAIN q = 1 .. Len(q)
         /\ Append(q, x)[Len(q) + 1] = x
         /\ \A i \in DOMAIN q : Append(q, x)[i] = q[i]
  OBVIOUS

(* The events of a stream only grow at its end.                            *)
LEMMA EarlierStays ==
  ASSUME LedgerTypes, LedgerTypes', \A s \in Streams : last[s] <= last'[s], NEW e \in Written
  PROVE  e \in Written' /\ Earlier(e)' = Earlier(e) /\ Earlier(e) \subseteq Written /\ e \notin Earlier(e)
<1>1. e \in Events /\ e[1] \in Streams /\ e[2] \in 1..MaxEvents
  BY DEF Written, Events
<1>2. last[e[1]] \in Nat /\ last'[e[1]] \in Nat /\ last[e[1]] <= last'[e[1]] /\ e[2] <= last[e[1]]
  BY <1>1, BoundAssumption DEF LedgerTypes, Written
<1>3. e \in Written'
  BY <1>1, <1>2, BoundAssumption DEF Written
<1>4. \A d \in Events : d[1] = e[1] /\ d[2] < e[2] => (d \in Written /\ d \in Written')
  BY <1>1, <1>2, BoundAssumption DEF Written, Events
<1> QED
  BY <1>1, <1>3, <1>4 DEF Earlier, Written

(* One row of event_deliveries changes.                                    *)
RowTo(e, k, v) ==
  \A d \in Events, q \in Sinks : status'[d][q] = IF d = e /\ q = k THEN v ELSE status[d][q]

LEMMA RowChanges ==
  ASSUME LedgerTypes, NEW e \in Events, NEW k \in Sinks, NEW v,
  status' = [ status EXCEPT ![e][k] = v ]
  PROVE  RowTo(e, k, v)
  BY DEF LedgerTypes, RowTo

(* A row whose turn it is may start, settle or be put back.                *)
LEMMA RowInSequence ==
  ASSUME LedgerTypes, SinkInSequence, UNCHANGED last, NEW e \in Written, NEW k \in Sinks,
  NEW v, RowTo(e, k, v),
         status[e][k] \notin Final, \A d \in Earlier(e) : status[d][k] \in Final
  PROVE  SinkInSequence'
<1>1. Written' = Written /\ \A d \in Written : Earlier(d)' = Earlier(d) /\ Earlier(d) \subseteq Written
  BY DEF Written, Earlier
<1>2. e \notin Earlier(e)
  BY BoundAssumption DEF Earlier, Written, Events
<1>3. Written \subseteq Events
  BY DEF Written
<1> SUFFICES ASSUME NEW c \in Written, NEW q \in Sinks, status'[c][q] \in { "delivering" } \cup Final,
                    NEW d \in Earlier(c)
             PROVE  status'[d][q] \in Final
  BY <1>1 DEF SinkInSequence
<1>4. status[d][q] \in Final
  BY <1>1, <1>3 DEF SinkInSequence, RowTo
<1> QED
  BY <1>1, <1>3, <1>4 DEF RowTo

(* The archive holds settled events only, so an open row is none of its.   *)
LEMMA RowNotArchived ==
  ASSUME ArchiveInv, NEW e \in Written, NEW k \in Sinks, NEW v, RowTo(e, k, v),
         status[e][k] # "delivered", UNCHANGED << last, arch, body, archiver, proc >>
  PROVE  ArchiveInv'
<1>1. Written' = Written /\ Written \subseteq Events
  BY DEF Written
<1>2. \A i \in DOMAIN arch : \A d \in Events : Holds(arch[i], d) =>
        d \in Written /\ \A q \in Sinks : status'[d][q] = "delivered"
  BY DEF ArchiveInv, RowTo
<1> QED
  BY <1>1, <1>2 DEF ArchiveInv, Holds

(* The bus is in turn when an open row changes, unless it settles before   *)
(* the event was handed over.                                              *)
LEMMA RowBusInTurn ==
  ASSUME LedgerTypes, BusInTurn, NEW e \in Written, NEW k \in Sinks, NEW v, RowTo(e, k, v),
  SinkTypes,
         status[e][k] \notin Final, k = "eventbus" /\ v \in Final => e[2] <= Top(e[1]),
         claim'.stage # "sent", UNCHANGED << last, bus, published >>
  PROVE  BusInTurn'
<1>1. Written' = Written /\ Written \subseteq Events
  BY DEF Written
<1>2. \A s : Top(s)' = Top(s) /\ Earlier(<< s, Top(s) >>)' = Earlier(<< s, Top(s) >>)
             /\ Earlier(<< s, Top(s) >>) \subseteq Events
  BY DEF Top, Earlier, Written
<1>3. \A d \in Events : "eventbus" \in Sinks =>
        status'[d]["eventbus"] = IF d = e /\ k = "eventbus" THEN v ELSE status[d]["eventbus"]
  BY DEF RowTo
<1>4. \A s \in Streams : bus[s] # << >> =>
        \A d \in Earlier(<< s, Top(s) >>) : status'[d]["eventbus"] \in Final
  BY <1>1, <1>2, <1>3 DEF BusInTurn
<1>5. "eventbus" \in Sinks => \A d \in Written : status'[d]["eventbus"] \in Final => d[2] <= Top(d[1])
  BY <1>1, <1>3 DEF BusInTurn
<1> QED
  BY <1>1, <1>2, <1>4, <1>5 DEF BusInTurn

LEMMA BodiesAreSequences ==
  ASSUME SinkTypes, NEW s \in Streams
  PROVE  Bodies(file[s]) \subseteq 1..MaxEvents
<1>1. \A i \in DOMAIN file[s] : file[s][i] \in Fragment..MaxEvents
  <2>1. file[s] \in Seq(Fragment..MaxEvents)
    BY DEF SinkTypes
  <2> QED
    BY ONLY <2>1, SequenceOf
<1> QED
  BY <1>1, BoundAssumption DEF Bodies, EOL, Fragment

LEMMA RemainsAreText ==
  ASSUME claim.event[2] \in 1..MaxEvents
  PROVE  Remains \subseteq Seq(Fragment..MaxEvents)
<1> DEFINE n == claim.event[2]
<1>1. n \in Fragment..MaxEvents /\ Fragment \in Fragment..MaxEvents /\ EOL \in Fragment..MaxEvents
  BY BoundAssumption DEF Fragment, EOL
<1>2. Remains \subseteq { << >>, << Fragment >>, << n >>, << n, EOL >> }
  BY DEF Remains
<1> HIDE DEF n
<1>3. { << >>, << Fragment >>, << n >>, << n, EOL >> } \subseteq Seq(Fragment..MaxEvents)
  BY <1>1
<1> QED
  BY <1>2, <1>3

LEMMA ArchiveRow ==
  ASSUME ArchiveTypes, NEW i \in DOMAIN arch, NEW row \in Rows,
  arch' = [ arch EXCEPT ![i] = row ],
         row.stream = arch[i].stream, row.first = arch[i].first, row.last = arch[i].last
  PROVE  /\ arch' \in Seq(Rows) /\ Len(arch') = Len(arch) /\ DOMAIN arch' = DOMAIN arch
         /\ arch'[i] = row /\ \A j \in DOMAIN arch : j # i => arch'[j] = arch[j]
         /\ \A j \in DOMAIN arch : \A e : Holds(arch'[j], e) <=> Holds(arch[j], e)
<1>1. /\ arch' \in Seq(Rows) /\ Len(arch') = Len(arch) /\ DOMAIN arch' = DOMAIN arch
      /\ arch'[i] = row /\ \A j \in DOMAIN arch : j # i => arch'[j] = arch[j]
  BY DEF ArchiveTypes
<1> QED
  BY <1>1 DEF Holds

(* The archive row in hand becomes on disk, verified, failed or in need of *)
(* recovery; what it holds is released only when it is verified on disk.   *)
LEMMA ArchiveRowKeeps ==
  ASSUME ArchiveTypes, ArchiveInv, NEW i \in DOMAIN arch, NEW row \in Rows,
  arch' = [ arch EXCEPT ![i] = row ],
         row.stream = arch[i].stream, row.first = arch[i].first, row.last = arch[i].last,
         arch[i].status = "preparing",
         \A e \in Events : body'[e] # body[e] => Holds(arch[i], e) /\ row.status = "verified" /\ row.onDisk,
         UNCHANGED << last, status >>
  PROVE  /\ \A j, k \in DOMAIN arch' : \A e \in Events : Holds(arch'[j], e) /\ Holds(arch'[k], e) => j = k
         /\ \A j \in DOMAIN arch' : \A e \in Events : Holds(arch'[j], e) =>
              e \in Written' /\ \A k \in Sinks : status'[e][k] = "delivered"
         /\ \A e \in Events : body'[e] = "archived" =>
              \E j \in DOMAIN arch' : Holds(arch'[j], e) /\ arch'[j].status = "verified" /\ arch'[j].onDisk
<1>1. /\ DOMAIN arch' = DOMAIN arch
      /\ arch'[i] = row /\ \A j \in DOMAIN arch : j # i => arch'[j] = arch[j]
      /\ \A j \in DOMAIN arch : \A e : Holds(arch'[j], e) <=> Holds(arch[j], e)
  BY ArchiveRow
<1>2. Written' = Written
  BY DEF Written
<1>3. \A e \in Events : body'[e] = "archived" =>
        \E j \in DOMAIN arch' : Holds(arch'[j], e) /\ arch'[j].status = "verified" /\ arch'[j].onDisk
  <2> SUFFICES ASSUME NEW e \in Events, body'[e] = "archived"
               PROVE  \E j \in DOMAIN arch' : Holds(arch'[j], e) /\ arch'[j].status = "verified" /\ arch'[j].onDisk
    OBVIOUS
  <2>1. CASE body'[e] # body[e]
    BY <1>1, <2>1
  <2>2. CASE body'[e] = body[e]
    BY <1>1, <2>2 DEF ArchiveInv
  <2> QED
    BY <2>1, <2>2
<1> QED
  BY <1>1, <1>2, <1>3 DEF ArchiveInv

LEMMA OutInitial == Init => OutInv
<1> SUFFICES ASSUME Init PROVE OutInv
  OBVIOUS
<1> USE BoundAssumption DEF Init, Events
<1>1. LedgerTypes
  BY DEF LedgerTypes, Written, AttStates, NoIndex, Idle, NoClaim, Final
<1>2. DispatchTypes
  BY DEF DispatchTypes, Written, NoIndex, Idle, NoClaim, Final
<1>3. SinkTypes
  BY DEF SinkTypes, Written, NoIndex, Idle, NoClaim, Final
<1>4. ArchiveTypes
  BY DEF ArchiveTypes, Rows, NoIndex, Idle, NoClaim, Final
<1>5. Blank
  BY DEF Blank, Written, NoIndex, Idle, NoClaim, Final
<1>6. Claims
  BY DEF Claims, Written, Earlier, NoIndex, Idle, NoClaim, Final
<1>7. Attempts
  BY DEF Attempts, NoIndex, Idle, NoClaim, Final
<1>8. SinkInSequence
  BY DEF SinkInSequence, Written, Earlier, NoIndex, Idle, NoClaim, Final
<1>9. BusWithoutGaps
  BY DEF BusWithoutGaps, NoIndex, Idle, NoClaim, Final
<1>10. BusInTurn
  BY DEF BusInTurn, Top, Written, Earlier, NoIndex, Idle, NoClaim, Final
<1>11. ArchiveInv
  BY DEF ArchiveInv, Written, Holds, NoIndex, Idle, NoClaim, Final
<1> QED
  BY <1>1, <1>2, <1>3, <1>4, <1>5, <1>6, <1>7, <1>8, <1>9, <1>10, <1>11 DEF OutInv

LEMMA OutWriteEvent == OutInv /\ (\E s \in Streams : WriteEvent(s)) => OutInv'
<1> SUFFICES ASSUME OutInv, NEW s \in Streams, WriteEvent(s) PROVE OutInv'
  OBVIOUS
<1>1. UNCHANGED << over, att, proc, crashes, due, claim, draining, file, known, bus, published, arch, body, archiver >>
  BY DEF WriteEvent, delivery, dispatch, jsonl, eventbus, archive
<1>2. (ArchiveTypes /\ BusWithoutGaps)'
  BY <1>1, KeepArchiveTypes, KeepBusWithoutGaps DEF OutInv
<1> USE BoundAssumption, SinkAssumption, AttemptAssumption DEF OutInv, WriteEvent, Events, Final, NoClaim
<1>3. LedgerTypes'
  BY <1>1 DEF LedgerTypes, Written, AttStates
<1>4. DispatchTypes'
  BY <1>1 DEF LedgerTypes, DispatchTypes, Written
<1>5. SinkTypes'
  BY <1>1 DEF DispatchTypes, LedgerTypes, SinkTypes, Written
<1>6. Blank'
  BY <1>1 DEF LedgerTypes, DispatchTypes, ArchiveInv, Holds, Blank, Written
<1> DEFINE new == << s, last[s] + 1 >>
<1>a. new \in Events \ Written /\ Written' = Written \cup {new}
  BY <1>1 DEF LedgerTypes, Written
<1>b. \A e \in Events : e # new => status'[e] = status[e]
  BY <1>1 DEF LedgerTypes
<1>c. \A k \in Sinks : status'[new][k] = "pending"
  BY <1>a DEF LedgerTypes
<1>d. \A e \in Written : Earlier(e)' = Earlier(e) /\ Earlier(e) \subseteq Written
  <2>1. \A r \in Streams : last[r] <= last'[r]
    BY DEF LedgerTypes
  <2> QED
    BY ONLY <1>3, <2>1, EarlierStays, OutInv DEF OutInv
<1>e. \A e \in Written : e # new /\ e \in Events
  BY <1>a DEF Written
<1> HIDE DEF new, WriteEvent, Events, Final
<1>7. Claims'
  BY <1>1, <1>a, <1>b, <1>d, <1>e DEF DispatchTypes, Claims
<1>8. Attempts'
  <2> SUFFICES ASSUME NEW e \in Events, NEW k \in Sinks
               PROVE  /\ \A i \in DOMAIN att[e][k] :
                           att[e][k][i] = "delivering" <=> i = Len(att[e][k]) /\ status'[e][k] = "delivering"
                      /\ status'[e][k] = "delivering" =>
                           /\ att[e][k] # << >> /\ proc # "recovering"
                           /\ proc = "up" => claim # NoClaim /\ claim.event = e /\ claim.sink = k
    BY <1>1 DEF Attempts
  <2>1. CASE e = new
    BY <1>a, <1>c, <2>1 DEF Blank
  <2>2. CASE e # new
    BY <1>b, <2>2 DEF Attempts
  <2> QED
    BY <2>1, <2>2
<1>9. SinkInSequence'
  <2> SUFFICES ASSUME NEW e \in Written', NEW k \in Sinks, status'[e][k] \in { "delivering" } \cup Final,
                      NEW d \in Earlier(e)'
               PROVE  status'[d][k] \in Final
    BY DEF SinkInSequence
  <2>1. e # new
    BY <1>c DEF Final
  <2> QED
    BY <1>a, <1>b, <1>d, <1>e, <2>1 DEF SinkInSequence
<1>10. BusInTurn'
  <2>1. \A r \in Streams : Top(r)' = Top(r) /\ last[r] <= last'[r] /\ last[r] \in Nat /\ last'[r] \in Nat
    BY <1>1 DEF Top, WriteEvent, LedgerTypes
  <2>2. \A r \in Streams : bus[r] # << >> => Top(r) \in 1..MaxEvents /\ Top(r) <= last[r] /\ << r, Top(r) >> \in Written
    BY DEF Top, SinkTypes, BusInTurn, Written, Events
  <2>3. \A r \in Streams : bus'[r] # << >> =>
          /\ "eventbus" \in Sinks
          /\ Top(r)' <= last'[r]
          /\ \A d \in Earlier(<< r, Top(r) >>)' : status'[d]["eventbus"] \in Final
    BY <1>1, <1>b, <1>d, <1>e, <2>1, <2>2 DEF BusInTurn
  <2>4. \A e \in Written : e[1] \in Streams /\ e[2] \in Nat
    BY DEF Written, Events
  <2>5. "eventbus" \in Sinks => \A e \in Written' : status'[e]["eventbus"] \in Final => e[2] <= Top(e[1])'
    <3> SUFFICES ASSUME "eventbus" \in Sinks, NEW e \in Written', status'[e]["eventbus"] \in Final
                 PROVE  e[2] <= Top(e[1])'
      OBVIOUS
    <3>1. e # new
      BY <1>c DEF Final
    <3> QED
      BY <1>a, <1>b, <1>e, <2>1, <2>4, <3>1 DEF BusInTurn
  <2>6. \A e \in published' : e[2] <= Top(e[1])'
    BY <1>1, <2>1, <2>4 DEF BusInTurn, SinkTypes
  <2>7. (claim.stage = "sent" /\ claim.sink = "eventbus" => claim.event[2] <= Top(claim.event[1]))'
    BY <1>1, <2>1, <2>4 DEF BusInTurn, DispatchTypes
  <2> QED
    BY <2>3, <2>5, <2>6, <2>7 DEF BusInTurn
<1>11. ArchiveInv'
  <2>1. \A i \in DOMAIN arch : \A e \in Events : Holds(arch[i], e) =>
          e \in Written' /\ \A k \in Sinks : status'[e][k] = "delivered"
    BY <1>a, <1>b, <1>e DEF ArchiveInv
  <2> QED
    BY <1>1, <2>1 DEF ArchiveInv, Holds
<1> QED
  BY ONLY <1>2, <1>3, <1>4, <1>5, <1>6, <1>7, <1>8, <1>9, <1>10, <1>11 DEF OutInv

LEMMA OutFinishRun == OutInv /\ (\E s \in Streams : FinishRun(s)) => OutInv'
<1> SUFFICES ASSUME OutInv, NEW s \in Streams, FinishRun(s) PROVE OutInv'
  OBVIOUS
<1>1. UNCHANGED << last, status, att, completed, proc, crashes, due, claim, draining, file, known, bus, published, arch, body, archiver >>
  BY DEF FinishRun, delivery, dispatch, jsonl, eventbus, archive
<1>2. (DispatchTypes /\ SinkTypes /\ ArchiveTypes /\ Blank /\ Claims /\ Attempts /\ SinkInSequence /\ BusWithoutGaps /\ BusInTurn /\ ArchiveInv)'
  BY <1>1, KeepDispatchTypes, KeepSinkTypes, KeepArchiveTypes, KeepBlank, KeepClaims,
     KeepAttempts, KeepSinkInSequence, KeepBusWithoutGaps, KeepBusInTurn,
     KeepArchiveInv DEF OutInv
<1> USE BoundAssumption, SinkAssumption, AttemptAssumption DEF OutInv, FinishRun, Events, Final, NoClaim
<1>3. LedgerTypes'
  BY <1>1 DEF LedgerTypes, Written, AttStates
<1> QED
  BY ONLY <1>2, <1>3 DEF OutInv

LEMMA OutDrainBegins == OutInv /\ DrainBegins => OutInv'
<1> SUFFICES ASSUME OutInv, DrainBegins PROVE OutInv'
  OBVIOUS
<1>1. UNCHANGED << last, over, status, att, completed, proc, crashes, claim, file, known, bus, published, arch, body, archiver >>
  BY DEF DrainBegins, delivery, dispatch, jsonl, eventbus, archive
<1>2. (LedgerTypes /\ SinkTypes /\ ArchiveTypes /\ Blank /\ Attempts /\ SinkInSequence /\ BusWithoutGaps /\ BusInTurn /\ ArchiveInv)'
  BY <1>1, KeepLedgerTypes, KeepSinkTypes, KeepArchiveTypes, KeepBlank, KeepAttempts,
     KeepSinkInSequence, KeepBusWithoutGaps, KeepBusInTurn, KeepArchiveInv DEF OutInv
<1> USE BoundAssumption, SinkAssumption, AttemptAssumption DEF OutInv, DrainBegins, Due, Events, Final, NoClaim
<1>3. DispatchTypes'
  BY <1>1 DEF LedgerTypes, DispatchTypes, Written
<1>4. Claims'
  BY <1>1 DEF LedgerTypes, DispatchTypes, Claims, Written, Earlier
<1> QED
  BY ONLY <1>2, <1>3, <1>4 DEF OutInv

LEMMA OutClaim == OutInv /\ Claim => OutInv'
<1> SUFFICES ASSUME OutInv, Claim PROVE OutInv'
  OBVIOUS
<1>1. UNCHANGED << last, over, completed, proc, crashes, draining, file, known, bus, published, arch, body, archiver >>
  BY DEF Claim, delivery, dispatch, jsonl, eventbus, archive
<1>2. (SinkTypes /\ ArchiveTypes /\ BusWithoutGaps)'
  BY <1>1, KeepSinkTypes, KeepArchiveTypes, KeepBusWithoutGaps DEF OutInv
<1>a. PICK row \in due :
        LET e == row[1] k == row[2] IN
        /\ status[e][k] \in { "pending", "retrying" }
        /\ status' = [ status EXCEPT ![e][k] = "delivering" ]
        /\ att' = [ att EXCEPT ![e][k] = Append(@, "delivering") ]
        /\ claim' = [ stage |-> "claimed", event |-> e, sink |-> k ]
        /\ due' = due \ { row }
  BY DEF Claim
<1> DEFINE e == row[1]
<1> DEFINE k == row[2]
<1>b. e \in Written /\ e \in Events /\ k \in Sinks /\ row = << e, k >> /\ Written' = Written
  BY <1>1 DEF OutInv, DispatchTypes, Written
<1>c. /\ status[e][k] \in { "pending", "retrying" }
      /\ status' = [ status EXCEPT ![e][k] = "delivering" ]
      /\ att' = [ att EXCEPT ![e][k] = Append(@, "delivering") ]
      /\ claim' = [ stage |-> "claimed", event |-> e, sink |-> k ] /\ claim' # NoClaim
      /\ due' \subseteq due
  BY <1>a DEF NoClaim
<1>d. RowTo(e, k, "delivering") /\ status[e][k] \notin Final
  BY <1>b, <1>c, RowChanges DEF OutInv, Final
<1>f. proc = "up" /\ claim = NoClaim
  BY DEF Claim
<1>g. \A d \in Earlier(e) : status[d][k] \in Final
  BY <1>b DEF OutInv, Claims
<1> HIDE DEF e, k
<1>3. LedgerTypes'
  BY <1>1, <1>b, <1>c DEF OutInv, LedgerTypes, AttStates
<1>4. DispatchTypes'
  BY <1>1, <1>b, <1>c DEF OutInv, DispatchTypes
<1>5. Blank'
  BY <1>1, <1>b, <1>c, <1>d DEF OutInv, Blank, LedgerTypes, RowTo
<1>6. Claims'
  <2>1. \A d \in Written : Earlier(d)' = Earlier(d) /\ Earlier(d) \subseteq Events
    BY <1>1 DEF Earlier, Written
  <2> QED
    BY <1>1, <1>b, <1>c, <1>d, <1>f, <2>1 DEF OutInv, Claims, RowTo, NoClaim
<1>7. Attempts'
  <2> SUFFICES ASSUME NEW d \in Events, NEW q \in Sinks
               PROVE  /\ \A i \in DOMAIN att'[d][q] :
                           att'[d][q][i] = "delivering" <=> i = Len(att'[d][q]) /\ status'[d][q] = "delivering"
                      /\ status'[d][q] = "delivering" =>
                           /\ att'[d][q] # << >> /\ proc' # "recovering"
                           /\ proc' = "up" => claim' # NoClaim /\ claim'.event = d /\ claim'.sink = q
    BY DEF Attempts
  <2>1. CASE d = e /\ q = k
    <3>1. att[e][k] \in Seq(AttStates) /\ att'[e][k] = Append(att[e][k], "delivering")
      BY <1>b, <1>c DEF OutInv, LedgerTypes
    <3>2. \A i \in DOMAIN att[e][k] : att[e][k][i] # "delivering"
      BY <1>b, <1>c DEF OutInv, Attempts
    <3>3. /\ att'[e][k] # << >> /\ Len(att'[e][k]) = Len(att[e][k]) + 1
          /\ \A i \in DOMAIN att'[e][k] : att'[e][k][i] = "delivering" <=> i = Len(att'[e][k])
      <4>1. "delivering" \in AttStates
        BY DEF AttStates
      <4> QED
        BY ONLY <3>1, <3>2, <4>1, AppendIsLast
    <3>4. status'[d][q] = "delivering"
      BY <1>d, <2>1 DEF RowTo
    <3> QED
      BY <1>1, <1>c, <1>f, <2>1, <3>3, <3>4
  <2>2. CASE ~(d = e /\ q = k)
    <3>1. att'[d][q] = att[d][q] /\ status'[d][q] = status[d][q]
      BY <1>b, <1>c, <1>d, <2>2 DEF OutInv, LedgerTypes, RowTo
    <3> QED
      BY <1>f, <3>1 DEF OutInv, Attempts
  <2> QED
    BY <2>1, <2>2
<1>8. SinkInSequence'
  BY <1>1, <1>b, <1>d, <1>g, RowInSequence DEF OutInv
<1>9. BusInTurn'
  BY <1>1, <1>b, <1>c, <1>d, RowBusInTurn DEF OutInv, Final
<1>10. ArchiveInv'
  BY <1>1, <1>b, <1>c, <1>d, RowNotArchived DEF OutInv
<1> QED
  BY ONLY <1>2, <1>3, <1>4, <1>5, <1>6, <1>7, <1>8, <1>9, <1>10 DEF OutInv

LEMMA OutDrainEnds == OutInv /\ DrainEnds => OutInv'
<1> SUFFICES ASSUME OutInv, DrainEnds PROVE OutInv'
  OBVIOUS
<1>1. UNCHANGED << last, over, status, att, completed, proc, crashes, due, claim, file, known, bus, published, arch, body, archiver >>
  BY DEF DrainEnds, delivery, dispatch, jsonl, eventbus, archive
<1>2. (LedgerTypes /\ SinkTypes /\ ArchiveTypes /\ Blank /\ Claims /\ Attempts /\ SinkInSequence /\ BusWithoutGaps /\ BusInTurn /\ ArchiveInv)'
  BY <1>1, KeepLedgerTypes, KeepSinkTypes, KeepArchiveTypes, KeepBlank, KeepClaims,
     KeepAttempts, KeepSinkInSequence, KeepBusWithoutGaps, KeepBusInTurn,
     KeepArchiveInv DEF OutInv
<1> USE BoundAssumption, SinkAssumption, AttemptAssumption DEF OutInv, DrainEnds, Events, Final, NoClaim
<1>3. DispatchTypes'
  BY <1>1 DEF LedgerTypes, DispatchTypes, Written
<1> QED
  BY ONLY <1>2, <1>3 DEF OutInv

LEMMA OutDeliverToBus == OutInv /\ DeliverToBus => OutInv'
<1> SUFFICES ASSUME OutInv, DeliverToBus PROVE OutInv'
  OBVIOUS
<1>1. UNCHANGED << last, over, status, att, completed, proc, crashes, due, draining, file, known, arch, body, archiver >>
  BY DEF DeliverToBus, delivery, dispatch, jsonl, eventbus, archive
<1>2. (LedgerTypes /\ ArchiveTypes /\ Blank /\ SinkInSequence /\ ArchiveInv)'
  BY <1>1, KeepLedgerTypes, KeepArchiveTypes, KeepBlank, KeepSinkInSequence,
     KeepArchiveInv DEF OutInv
<1> USE BoundAssumption, SinkAssumption, AttemptAssumption DEF OutInv, DeliverToBus, Events, Final, NoClaim
<1>3. DispatchTypes'
  <2>1. claim \in [ stage : { "claimed", "sent", "raised" }, event : Written, sink : Sinks ] /\ Written' = Written
    BY <1>1 DEF DispatchTypes, Written
  <2> QED
    BY <1>1, <2>1 DEF DispatchTypes
<1>4. SinkTypes'
  BY SMTT(30), <1>1 DEF DispatchTypes, LedgerTypes, SinkTypes, Written
<1>5. Claims'
  BY <1>1 DEF LedgerTypes, DispatchTypes, Claims, Written, Earlier
<1>6. Attempts'
  BY <1>1 DEF LedgerTypes, DispatchTypes, Claims, Attempts
<1>p. PICK s \in Streams, n \in 1..MaxEvents : claim.event = << s, n >>
  BY DEF DispatchTypes, Written
<1> DEFINE e == << s, n >>
<1>a. /\ e = << s, n >> /\ e \in Written /\ e[1] = s /\ e[2] = n /\ n <= last[s] /\ claim.event = e
      /\ "eventbus" \in Sinks /\ status[e]["eventbus"] = "delivering"
  BY <1>p DEF DispatchTypes, Claims, Written
<1>b. \A d \in Earlier(e) : status[d]["eventbus"] \in Final
  BY <1>a DEF SinkInSequence
<1>c. bus[s] \in Seq(1..MaxEvents) /\ Top(s) \in 0..MaxEvents /\ (bus[s] = << >> <=> Top(s) = 0)
  BY <1>a DEF SinkTypes, Top
<1>d. Top(s) <= n
  <2> SUFFICES ASSUME Top(s) > n PROVE FALSE
    BY <1>a, <1>c
  <2>1. e \in Earlier(<< s, Top(s) >>)
    BY <1>a DEF Earlier
  <2>2. bus[s] # << >>
    BY <1>c
  <2>3. status[e]["eventbus"] \in Final
    BY ONLY <2>1, <2>2, OutInv, s \in Streams DEF OutInv, BusInTurn
  <2> QED
    BY <1>a, <2>3
<1>f. n - 1 <= Top(s)
  <2> SUFFICES ASSUME n > 1 PROVE n - 1 <= Top(s)
    BY <1>a, <1>c
  <2> DEFINE d == << s, n - 1 >>
  <2>1. d \in Earlier(e) /\ d \in Written /\ d[1] = s /\ d[2] = n - 1
    BY <1>a DEF Earlier, Written, LedgerTypes
  <2> HIDE DEF d
  <2>2. status[d]["eventbus"] \in Final
    BY <1>b, <2>1
  <2>3. d[2] <= Top(d[1])
    BY ONLY <1>a, <2>1, <2>2, OutInv DEF OutInv, BusInTurn
  <2> QED
    BY <2>1, <2>3
<1>g. /\ bus' = IF e \in published THEN bus ELSE [ bus EXCEPT ![s] = Append(@, n) ]
      /\ published' = published \cup {e} /\ claim' = [ claim EXCEPT !.stage = "sent" ]
  BY <1>a
<1> HIDE DEF e, DeliverToBus, Events
<1>h. e \notin published => bus'[s] = Append(bus[s], n) /\ \A r \in Streams : r # s => bus'[r] = bus[r]
  BY <1>a, <1>g DEF SinkTypes
<1>i. \A r \in Streams : r # s => bus'[r] = bus[r]
  BY <1>g, <1>h
<1>7. BusWithoutGaps'
  <2>1. CASE e \in published
    BY <1>g, <2>1 DEF BusWithoutGaps
  <2>2. CASE e \notin published
    <3>1. \A i \in DOMAIN bus'[s] : IF i = 1 THEN bus'[s][i] = 1 ELSE bus'[s][i] - bus'[s][i - 1] \in { 0, 1 }
      <4> SUFFICES ASSUME NEW i \in DOMAIN bus'[s]
                   PROVE  IF i = 1 THEN bus'[s][i] = 1 ELSE bus'[s][i] - bus'[s][i - 1] \in { 0, 1 }
        OBVIOUS
      <4>1. /\ Len(bus[s]) \in Nat /\ DOMAIN bus'[s] = 1 .. Len(bus[s]) + 1 /\ DOMAIN bus[s] = 1 .. Len(bus[s])
            /\ bus'[s][Len(bus[s]) + 1] = n /\ \A j \in DOMAIN bus[s] : bus'[s][j] = bus[s][j]
        BY ONLY SMTT(30), <1>c, <1>h, <2>2, AppendIsLast, n \in 1..MaxEvents
      <4>2. CASE i \in DOMAIN bus[s]
        <5>1. IF i = 1 THEN bus[s][i] = 1 ELSE bus[s][i] - bus[s][i - 1] \in { 0, 1 }
          BY <1>a, <4>2 DEF BusWithoutGaps
        <5>2. i = 1 \/ i - 1 \in DOMAIN bus[s]
          BY <4>1, <4>2
        <5> QED
          BY <4>1, <4>2, <5>1, <5>2
      <4>3. CASE i = Len(bus[s]) + 1
        <5>1. CASE bus[s] = << >>
          BY <1>c, <1>f, <1>d, <4>1, <4>3, <5>1
        <5>2. CASE bus[s] # << >>
          <6>1. Len(bus[s]) # 0 /\ i - 1 = Len(bus[s]) /\ i - 1 \in DOMAIN bus[s] /\ i # 1
            BY <1>c, <4>1, <4>3, <5>2
          <6>2. bus'[s][i] = n /\ bus'[s][i - 1] = Top(s)
            BY <4>1, <4>3, <5>2, <6>1 DEF Top
          <6>3. n - Top(s) \in { 0, 1 }
            BY <1>c, <1>d, <1>f
          <6> QED
            BY <6>1, <6>2, <6>3
        <5> QED
          BY <5>1, <5>2
      <4> QED
        BY <4>1, <4>2, <4>3
    <3> QED
      BY <1>i, <3>1 DEF BusWithoutGaps
  <2> QED
    BY <2>1, <2>2
<1>8. BusInTurn'
  <2>1. \A r \in Streams : r # s => Top(r)' = Top(r)
    BY <1>i DEF Top
  <2>2. e \notin published => Top(s)' = n /\ bus'[s] # << >>
    BY <1>a, <1>c, <1>h, AppendIsLast DEF Top
  <2>3. e \in published => bus' = bus /\ Top(s)' = Top(s) /\ n <= Top(s)
    BY <1>a, <1>g DEF Top, BusInTurn
  <2>4. Written' = Written /\ \A d : Earlier(d)' = Earlier(d)
    BY <1>1 DEF Written, Earlier
  <2>5. \A r \in Streams : Top(r) <= Top(r)' /\ Top(r) \in Nat /\ Top(r)' \in Nat
    <3>1. \A r \in Streams : Top(r) \in Nat
      BY DEF Top, SinkTypes
    <3> QED
      BY <1>a, <1>d, <2>1, <2>2, <2>3, <3>1
  <2>6. n <= Top(s)'
    BY <1>a, <2>2, <2>3
  <2>7. \A d \in Written : d[1] \in Streams /\ d[2] \in Nat
    BY DEF Written, Events
  <2>8. ASSUME NEW r \in Streams, bus'[r] # << >>
        PROVE  Top(r)' <= last[r] /\ \A d \in Earlier(<< r, Top(r)' >>) : status[d]["eventbus"] \in Final
    <3>1. CASE e \in published \/ r # s
      <4>1. bus[r] # << >> /\ Top(r)' = Top(r)
        BY <1>i, <2>1, <2>3, <2>8, <3>1
      <4> QED
        BY <4>1 DEF BusInTurn
    <3>2. CASE e \notin published /\ r = s
      <4>1. << r, Top(r)' >> = e /\ Top(r)' <= last[r]
        BY <1>a, <2>2, <3>2
      <4> QED
        BY <1>b, <4>1
    <3> QED
      BY <3>1, <3>2
  <2>9. \A d \in Written : \A x : d[2] <= x /\ x = Top(d[1]) => d[2] <= Top(d[1])'
    BY <2>5, <2>7
  <2>10. \A d \in published' : d[2] <= Top(d[1])'
    BY <1>a, <1>g, <2>6, <2>9 DEF BusInTurn, SinkTypes
  <2>11. claim'.event = e
    BY <1>a, <1>g DEF DispatchTypes
  <2>12. "eventbus" \in Sinks => \A d \in Written : status[d]["eventbus"] \in Final => d[2] <= Top(d[1])'
    BY <2>9 DEF BusInTurn
  <2> QED
    BY <1>1, <1>a, <2>4, <2>6, <2>8, <2>10, <2>11, <2>12 DEF BusInTurn
<1> QED
  BY ONLY <1>2, <1>3, <1>4, <1>5, <1>6, <1>7, <1>8 DEF OutInv

LEMMA OutAppendOnce == OutInv /\ AppendOnce => OutInv'
<1> SUFFICES ASSUME OutInv, AppendOnce PROVE OutInv'
  OBVIOUS
<1>1. UNCHANGED << last, over, status, att, completed, proc, crashes, due, draining, bus, published, arch, body, archiver >>
  BY DEF AppendOnce, delivery, dispatch, jsonl, eventbus, archive
<1>2. (LedgerTypes /\ ArchiveTypes /\ Blank /\ SinkInSequence /\ BusWithoutGaps /\ ArchiveInv)'
  BY <1>1, KeepLedgerTypes, KeepArchiveTypes, KeepBlank, KeepSinkInSequence,
     KeepBusWithoutGaps, KeepArchiveInv DEF OutInv
<1> USE BoundAssumption, SinkAssumption, AttemptAssumption DEF OutInv, AppendOnce, Index, Loadable, Events, Final, NoClaim
<1>3. DispatchTypes'
  <2>1. claim \in [ stage : { "claimed", "sent", "raised" }, event : Written, sink : Sinks ] /\ Written' = Written
    BY <1>1 DEF DispatchTypes, Written
  <2> QED
    BY <1>1, <2>1 DEF DispatchTypes
<1>4. SinkTypes'
  <2>1. claim \in [ stage : { "claimed", "sent", "raised" }, event : Written, sink : Sinks ]
    BY DEF DispatchTypes
  <2>2. claim.event[1] \in Streams /\ claim.event[2] \in 1..MaxEvents
    BY <2>1 DEF Written
  <2>3. << claim.event[2], EOL >> \in Seq(Fragment..MaxEvents)
    BY <2>2 DEF EOL, Fragment
  <2>4. file' \in [ Streams -> Seq(Fragment..MaxEvents) ]
    BY <2>2, <2>3 DEF SinkTypes
  <2>5. \A s \in Streams : Bodies(file[s]) \subseteq 1..MaxEvents
    BY BodiesAreSequences
  <2>6. known' \in [ Streams -> SUBSET (0..MaxEvents) ]
    BY <2>2, <2>5 DEF SinkTypes
  <2> QED
    BY <1>1, <2>4, <2>6 DEF SinkTypes, Written
<1>5. Claims'
  BY <1>1 DEF LedgerTypes, DispatchTypes, Claims, Written, Earlier
<1>6. Attempts'
  BY <1>1 DEF LedgerTypes, DispatchTypes, Claims, Attempts
<1>7. BusInTurn'
  BY <1>1 DEF LedgerTypes, DispatchTypes, SinkTypes, Claims, SinkInSequence, BusInTurn, Top,
     Written, Earlier
<1> QED
  BY ONLY <1>2, <1>3, <1>4, <1>5, <1>6, <1>7 DEF OutInv

LEMMA OutSinkRaises == OutInv /\ SinkRaises => OutInv'
<1> SUFFICES ASSUME OutInv, SinkRaises PROVE OutInv'
  OBVIOUS
<1>1. UNCHANGED << last, over, status, att, completed, proc, crashes, due, draining, bus, published, arch, body, archiver >>
  BY DEF SinkRaises, delivery, dispatch, jsonl, eventbus, archive
<1>2. (LedgerTypes /\ ArchiveTypes /\ Blank /\ SinkInSequence /\ BusWithoutGaps /\ ArchiveInv)'
  BY <1>1, KeepLedgerTypes, KeepArchiveTypes, KeepBlank, KeepSinkInSequence,
     KeepBusWithoutGaps, KeepArchiveInv DEF OutInv
<1> USE BoundAssumption, SinkAssumption, AttemptAssumption DEF OutInv, SinkRaises, Remains, Index, Loadable, Events, Final, NoClaim
<1>3. DispatchTypes'
  BY <1>1 DEF LedgerTypes, DispatchTypes, Written
<1>4. SinkTypes'
  <2>1. claim \in [ stage : { "claimed", "sent", "raised" }, event : Written, sink : Sinks ]
    BY DEF DispatchTypes
  <2>2. claim.event[1] \in Streams /\ claim.event[2] \in 1..MaxEvents
    BY <2>1 DEF Written
  <2> HIDE DEF Remains
  <2>3. Remains \subseteq Seq(Fragment..MaxEvents)
    BY <2>2, RemainsAreText
  <2>4. file' \in [ Streams -> Seq(Fragment..MaxEvents) ]
    <3>1. \A r \in Remains : [ file EXCEPT ![claim.event[1]] = @ \o r ] \in [ Streams -> Seq(Fragment..MaxEvents) ]
      <4>1. \A s \in Streams : \A r \in Seq(Fragment..MaxEvents) :
              file[s] \o r \in Seq(Fragment..MaxEvents)
        BY DEF SinkTypes
      <4> QED
        BY <2>2, <2>3, <4>1 DEF SinkTypes
    <3> QED
      BY <3>1 DEF SinkTypes, jsonl
  <2>5. \A s \in Streams : Bodies(file[s]) \subseteq 1..MaxEvents
    BY BodiesAreSequences
  <2>6. known' \in [ Streams -> SUBSET (0..MaxEvents) ]
    <3>1. Index(claim.event[1]) \subseteq 0..MaxEvents
      BY <2>2, <2>5 DEF SinkTypes
    <3> HIDE DEF Index, Loadable
    <3> QED
      BY <2>2, <3>1 DEF SinkTypes, jsonl
  <2> QED
    BY <1>1, <2>4, <2>6 DEF SinkTypes, Written
<1>5. Claims'
  BY <1>1 DEF LedgerTypes, DispatchTypes, Claims, Written, Earlier
<1>6. Attempts'
  BY SMTT(30), <1>1 DEF LedgerTypes, DispatchTypes, Claims, Attempts
<1>7. BusInTurn'
  BY <1>1 DEF LedgerTypes, DispatchTypes, SinkTypes, Claims, SinkInSequence, BusInTurn, Top,
     Written, Earlier
<1> QED
  BY ONLY <1>2, <1>3, <1>4, <1>5, <1>6, <1>7 DEF OutInv

LEMMA OutFinishSuccess == OutInv /\ FinishSuccess => OutInv'
<1> SUFFICES ASSUME OutInv, FinishSuccess PROVE OutInv'
  OBVIOUS
<1>1. UNCHANGED << last, over, proc, crashes, due, draining, file, known, bus, published, arch, body, archiver >>
  BY DEF FinishSuccess, delivery, dispatch, jsonl, eventbus, archive
<1>2. (SinkTypes /\ ArchiveTypes /\ BusWithoutGaps)'
  BY <1>1, KeepSinkTypes, KeepArchiveTypes, KeepBusWithoutGaps DEF OutInv
<1> USE BoundAssumption, SinkAssumption, AttemptAssumption DEF OutInv, FinishSuccess, Settle, Ready, Events, Final, NoClaim
<1>3. LedgerTypes'
  BY <1>1 DEF DispatchTypes, Attempts, Claims, LedgerTypes, Written, AttStates
<1>4. DispatchTypes'
  BY <1>1 DEF LedgerTypes, DispatchTypes, Written
<1>5. Blank'
  BY <1>1 DEF LedgerTypes, DispatchTypes, ArchiveInv, Holds, Blank, Written
<1>6. Claims'
  BY <1>1 DEF LedgerTypes, DispatchTypes, Claims, Written, Earlier
<1>7. Attempts'
  BY <1>1 DEF LedgerTypes, DispatchTypes, Claims, Attempts
<1>8. SinkInSequence'
  <2> DEFINE e == claim.event
  <2> DEFINE k == claim.sink
  <2>1. e \in Written /\ e \in Events /\ k \in Sinks /\ status[e][k] = "delivering"
    BY DEF DispatchTypes, Claims, Written
  <2>2. RowTo(e, k, "delivered")
    BY <2>1, RowChanges
  <2>3. \A d \in Earlier(e) : status[d][k] \in Final
    BY <2>1 DEF SinkInSequence
  <2> QED
    BY <1>1, <2>1, <2>2, <2>3, RowInSequence
<1>9. BusInTurn'
  BY SMTT(30), <1>1 DEF LedgerTypes, DispatchTypes, SinkTypes, Claims, SinkInSequence,
     BusInTurn, Top, Written, Earlier
<1>10. ArchiveInv'
  BY SMTT(30), <1>1 DEF LedgerTypes, ArchiveTypes, Rows, DispatchTypes, Claims, ArchiveInv,
     Written, Holds
<1> QED
  BY ONLY <1>2, <1>3, <1>4, <1>5, <1>6, <1>7, <1>8, <1>9, <1>10 DEF OutInv

LEMMA OutFinishFailure == OutInv /\ FinishFailure => OutInv'
<1> SUFFICES ASSUME OutInv, FinishFailure PROVE OutInv'
  OBVIOUS
<1>1. UNCHANGED << last, over, completed, proc, crashes, due, draining, file, known, bus, published, arch, body, archiver >>
  BY DEF FinishFailure, delivery, dispatch, jsonl, eventbus, archive
<1>2. (SinkTypes /\ ArchiveTypes /\ BusWithoutGaps)'
  BY <1>1, KeepSinkTypes, KeepArchiveTypes, KeepBusWithoutGaps DEF OutInv
<1> USE BoundAssumption, SinkAssumption, AttemptAssumption DEF OutInv, FinishFailure, Settle, Events, Final, NoClaim
<1>3. LedgerTypes'
  BY <1>1 DEF DispatchTypes, Attempts, Claims, LedgerTypes, Written, AttStates
<1>4. DispatchTypes'
  BY <1>1 DEF LedgerTypes, DispatchTypes, Written
<1>5. Blank'
  BY <1>1 DEF LedgerTypes, DispatchTypes, ArchiveInv, Holds, Blank, Written
<1>6. Claims'
  BY <1>1 DEF LedgerTypes, DispatchTypes, Claims, Written, Earlier
<1>7. Attempts'
  BY <1>1 DEF LedgerTypes, DispatchTypes, Claims, Attempts
<1>8. SinkInSequence'
  <2> DEFINE e == claim.event
  <2> DEFINE k == claim.sink
  <2>1. e \in Written /\ e \in Events /\ k \in Sinks /\ status[e][k] = "delivering"
    BY DEF DispatchTypes, Claims, Written
  <2>2. PICK v : RowTo(e, k, v)
    BY <2>1, RowChanges
  <2>3. \A d \in Earlier(e) : status[d][k] \in Final
    BY <2>1 DEF SinkInSequence
  <2> QED
    BY <1>1, <2>1, <2>2, <2>3, RowInSequence
<1>9. BusInTurn'
  <2> DEFINE e == claim.event
  <2> DEFINE k == claim.sink
  <2>1. e \in Written /\ e \in Events /\ k \in Sinks /\ status[e][k] = "delivering"
    BY DEF DispatchTypes, Claims, Written
  <2>2. PICK v : RowTo(e, k, v)
    BY <2>1, RowChanges
  <2>3. k # "eventbus" /\ claim'.stage # "sent"
    BY DEF Claims
  <2> HIDE DEF e, k, FinishFailure, Final
  <2>4. status[e][k] \notin Final
    BY <2>1 DEF Final
  <2> QED
    BY <1>1, <2>1, <2>2, <2>3, <2>4, RowBusInTurn
<1>10. ArchiveInv'
  BY SMTT(30), <1>1 DEF LedgerTypes, ArchiveTypes, Rows, DispatchTypes, Claims, ArchiveInv,
     Written, Holds
<1> QED
  BY ONLY <1>2, <1>3, <1>4, <1>5, <1>6, <1>7, <1>8, <1>9, <1>10 DEF OutInv

LEMMA OutArchivePrepare == OutInv /\ (\E s \in Streams : ArchivePrepare(s)) => OutInv'
<1> SUFFICES ASSUME OutInv, NEW s \in Streams, ArchivePrepare(s) PROVE OutInv'
  OBVIOUS
<1>1. UNCHANGED << last, over, status, att, completed, proc, crashes, due, claim, draining, file, known, bus, published, body >>
  BY DEF ArchivePrepare, delivery, dispatch, jsonl, eventbus, archive
<1>2. (LedgerTypes /\ DispatchTypes /\ SinkTypes /\ Blank /\ Claims /\ Attempts /\ SinkInSequence /\ BusWithoutGaps /\ BusInTurn)'
  BY <1>1, KeepLedgerTypes, KeepDispatchTypes, KeepSinkTypes, KeepBlank, KeepClaims,
     KeepAttempts, KeepSinkInSequence, KeepBusWithoutGaps, KeepBusInTurn DEF OutInv
<1> USE BoundAssumption, SinkAssumption, AttemptAssumption DEF OutInv, ArchivePrepare, Reserved, Releasable, Idle, Events, Final, NoClaim
<1>3. ArchiveTypes'
  BY <1>1 DEF ArchiveInv, LedgerTypes, ArchiveTypes, Rows
<1>4. ArchiveInv'
  <2>1. PICK lo \in 1..last[s], hi \in 1..last[s] :
          /\ lo <= hi
          /\ \A n \in lo..hi : ~ Reserved(<< s, n >>) /\ Releasable(<< s, n >>)
          /\ arch' = Append(arch, [ stream |-> s, first |-> lo, last |-> hi,
                                    status |-> "preparing", onDisk |-> FALSE ])
    OBVIOUS
  <2> DEFINE row == [ stream |-> s, first |-> lo, last |-> hi, status |-> "preparing", onDisk |-> FALSE ]
  <2>2. last[s] \in 0..MaxEvents /\ row \in Rows /\ archiver' = [ at |-> "write", id |-> Len(arch) + 1 ] /\ proc' = "up"
    BY <1>1 DEF LedgerTypes, Rows
  <2>3. /\ Len(arch) \in Nat /\ DOMAIN arch = 1..Len(arch) /\ DOMAIN arch' = 1..Len(arch) + 1
        /\ arch'[Len(arch) + 1] = row /\ \A i \in DOMAIN arch : arch'[i] = arch[i]
    BY <2>1, <2>2, AppendIsLast DEF ArchiveTypes
  <2>4. \A d \in Events : Holds(row, d) =>
          /\ d \in Written /\ \A q \in Sinks : status[d][q] = "delivered"
          /\ \A i \in DOMAIN arch : ~ Holds(arch[i], d)
    <3> SUFFICES ASSUME NEW d \in Events, Holds(row, d)
                 PROVE  /\ d \in Written /\ \A q \in Sinks : status[d][q] = "delivered"
                        /\ \A i \in DOMAIN arch : ~ Holds(arch[i], d)
      OBVIOUS
    <3>1. d[1] = s /\ d[2] \in lo..hi /\ d[2] <= last[s] /\ d = << s, d[2] >>
      BY <2>1, <2>2 DEF Holds
    <3>2. ~ Reserved(d) /\ Releasable(d)
      BY <2>1, <3>1
    <3> QED
      BY <3>1, <3>2 DEF Written, Reserved, Releasable
  <2>5. row.status = "preparing" /\ ~ row.onDisk
    OBVIOUS
  <2> HIDE DEF row, ArchivePrepare, Events
  <2>6. \A i \in DOMAIN arch' : i \in DOMAIN arch \/ (i = Len(arch) + 1 /\ arch'[i] = row)
    BY <2>3
  <2>7. \A i, j \in DOMAIN arch' : \A d \in Events : Holds(arch'[i], d) /\ Holds(arch'[j], d) => i = j
    BY <2>3, <2>4, <2>6 DEF ArchiveInv
  <2>8. \A i \in DOMAIN arch' : \A d \in Events : Holds(arch'[i], d) =>
          d \in Written /\ \A q \in Sinks : status[d][q] = "delivered"
    BY <2>3, <2>4, <2>6 DEF ArchiveInv
  <2>9. \A d \in Events : body[d] = "archived" =>
          \E i \in DOMAIN arch' : Holds(arch'[i], d) /\ arch'[i].status = "verified" /\ arch'[i].onDisk
    BY <2>3 DEF ArchiveInv
  <2>10. Written' = Written
    BY <1>1 DEF Written
  <2>11. Len(arch) + 1 \in DOMAIN arch'
    BY <2>3
  <2>12. (archiver.at \in { "write", "verify" } =>
            archiver.id \in DOMAIN arch /\ arch[archiver.id].status = "preparing" /\ proc = "up")'
         /\ archiver'.at # "verify"
    BY <2>2, <2>3, <2>5, <2>11
  <2> QED
    BY <1>1, <2>7, <2>8, <2>9, <2>10, <2>12 DEF ArchiveInv
<1> QED
  BY ONLY <1>2, <1>3, <1>4 DEF OutInv

LEMMA OutArchiveWrite == OutInv /\ ArchiveWrite => OutInv'
<1> SUFFICES ASSUME OutInv, ArchiveWrite PROVE OutInv'
  OBVIOUS
<1>1. UNCHANGED << last, over, status, att, completed, proc, crashes, due, claim, draining, file, known, bus, published, body >>
  BY DEF ArchiveWrite, delivery, dispatch, jsonl, eventbus, archive
<1>2. (LedgerTypes /\ DispatchTypes /\ SinkTypes /\ Blank /\ Claims /\ Attempts /\ SinkInSequence /\ BusWithoutGaps /\ BusInTurn)'
  BY <1>1, KeepLedgerTypes, KeepDispatchTypes, KeepSinkTypes, KeepBlank, KeepClaims,
     KeepAttempts, KeepSinkInSequence, KeepBusWithoutGaps, KeepBusInTurn DEF OutInv
<1> USE BoundAssumption, SinkAssumption, AttemptAssumption DEF OutInv, ArchiveWrite, Events, Final, NoClaim
<1>3. ArchiveTypes'
  <2> DEFINE i == archiver.id
  <2>1. i \in DOMAIN arch /\ arch[i] \in Rows
    BY DEF ArchiveInv, ArchiveTypes
  <2>2. [ arch[i] EXCEPT !.onDisk = TRUE ] \in Rows
    BY <2>1 DEF Rows
  <2>3. arch' = [ arch EXCEPT ![i] = [ arch[i] EXCEPT !.onDisk = TRUE ] ]
    OBVIOUS
  <2>4. arch' \in Seq(Rows) /\ Len(arch') = Len(arch)
    BY <2>1, <2>2, <2>3 DEF ArchiveTypes
  <2> QED
    BY <1>1, <2>4 DEF ArchiveTypes
<1>4. ArchiveInv'
  <2> DEFINE i == archiver.id
  <2> DEFINE row == [ arch[i] EXCEPT !.onDisk = TRUE ]
  <2>1. i \in DOMAIN arch /\ arch[i] \in Rows /\ arch[i].status = "preparing" /\ proc = "up"
    BY DEF ArchiveInv, ArchiveTypes
  <2>2. /\ row \in Rows /\ row.stream = arch[i].stream /\ row.first = arch[i].first /\ row.last = arch[i].last
        /\ row.status = "preparing" /\ row.onDisk
    BY <2>1 DEF Rows
  <2>3. arch' = [ arch EXCEPT ![i] = row ] /\ archiver' = [ archiver EXCEPT !.at = "verify" ]
    OBVIOUS
  <2>4. archiver'.id = i /\ archiver'.at = "verify"
    BY <2>3 DEF ArchiveTypes
  <2>5. arch'[i] = row /\ i \in DOMAIN arch'
    BY <2>1, <2>2, <2>3, ArchiveRow
  <2> HIDE DEF row, i, ArchiveWrite, Events
  <2>6. /\ \A j, k \in DOMAIN arch' : \A e \in Events : Holds(arch'[j], e) /\ Holds(arch'[k], e) => j = k
        /\ \A j \in DOMAIN arch' : \A e \in Events : Holds(arch'[j], e) =>
             e \in Written' /\ \A k \in Sinks : status'[e][k] = "delivered"
        /\ \A e \in Events : body'[e] = "archived" =>
             \E j \in DOMAIN arch' : Holds(arch'[j], e) /\ arch'[j].status = "verified" /\ arch'[j].onDisk
    BY ONLY <1>1, <2>1, <2>2, <2>3, OutInv, ArchiveRowKeeps DEF OutInv
  <2> QED
    BY ONLY <1>1, <2>1, <2>2, <2>4, <2>5, <2>6 DEF ArchiveInv
<1> QED
  BY ONLY <1>2, <1>3, <1>4 DEF OutInv

LEMMA OutArchiveVerify == OutInv /\ ArchiveVerify => OutInv'
<1> SUFFICES ASSUME OutInv, ArchiveVerify PROVE OutInv'
  OBVIOUS
<1>1. UNCHANGED << last, over, status, att, completed, proc, crashes, due, claim, draining, file, known, bus, published >>
  BY DEF ArchiveVerify, delivery, dispatch, jsonl, eventbus, archive
<1>2. (LedgerTypes /\ DispatchTypes /\ SinkTypes /\ Claims /\ Attempts /\ SinkInSequence /\ BusWithoutGaps /\ BusInTurn)'
  BY <1>1, KeepLedgerTypes, KeepDispatchTypes, KeepSinkTypes, KeepClaims, KeepAttempts,
     KeepSinkInSequence, KeepBusWithoutGaps, KeepBusInTurn DEF OutInv
<1> USE BoundAssumption, SinkAssumption, AttemptAssumption DEF OutInv, ArchiveVerify, Verified, Idle, Events, Final, NoClaim
<1>3. ArchiveTypes'
  <2> DEFINE i == archiver.id
  <2>1. i \in DOMAIN arch /\ arch[i] \in Rows
    BY DEF ArchiveInv, ArchiveTypes
  <2>2. [ arch[i] EXCEPT !.status = "verified" ] \in Rows
    BY <2>1 DEF Rows
  <2>3. arch' = [ arch EXCEPT ![i] = [ arch[i] EXCEPT !.status = "verified" ] ]
    OBVIOUS
  <2>4. arch' \in Seq(Rows) /\ Len(arch') = Len(arch)
    BY <2>1, <2>2, <2>3 DEF ArchiveTypes
  <2> QED
    BY <1>1, <2>4 DEF ArchiveTypes
<1>4. Blank'
  <2>1. archiver.id \in DOMAIN arch
    BY DEF ArchiveInv
  <2>2. \A e \in Events \ Written : ~ Holds(arch[archiver.id], e)
    BY <2>1 DEF ArchiveInv
  <2>3. \A e \in Events \ Written : body'[e] = body[e]
    BY <2>2
  <2> QED
    BY <1>1, <2>3 DEF Blank, Written
<1>5. ArchiveInv'
  <2> DEFINE i == archiver.id
  <2> DEFINE row == [ arch[i] EXCEPT !.status = "verified" ]
  <2>1. i \in DOMAIN arch /\ arch[i] \in Rows /\ arch[i].status = "preparing" /\ arch[i].onDisk
    BY DEF ArchiveInv, ArchiveTypes
  <2>2. /\ row \in Rows /\ row.stream = arch[i].stream /\ row.first = arch[i].first /\ row.last = arch[i].last
        /\ row.status = "verified" /\ row.onDisk
    BY <2>1 DEF Rows
  <2>3. /\ arch' = [ arch EXCEPT ![i] = row ] /\ archiver'.at = "idle"
        /\ \A e \in Events : body'[e] # body[e] => Holds(arch[i], e)
    OBVIOUS
  <2> HIDE DEF row, i, ArchiveVerify, Verified, Events
  <2>4. /\ \A j, k \in DOMAIN arch' : \A e \in Events : Holds(arch'[j], e) /\ Holds(arch'[k], e) => j = k
        /\ \A j \in DOMAIN arch' : \A e \in Events : Holds(arch'[j], e) =>
             e \in Written' /\ \A k \in Sinks : status'[e][k] = "delivered"
        /\ \A e \in Events : body'[e] = "archived" =>
             \E j \in DOMAIN arch' : Holds(arch'[j], e) /\ arch'[j].status = "verified" /\ arch'[j].onDisk
    BY ONLY <1>1, <2>1, <2>2, <2>3, OutInv, ArchiveRowKeeps DEF OutInv
  <2> QED
    BY ONLY <2>3, <2>4 DEF ArchiveInv
<1> QED
  BY ONLY <1>2, <1>3, <1>4, <1>5 DEF OutInv

LEMMA OutArchiveRaises == OutInv /\ ArchiveRaises => OutInv'
<1> SUFFICES ASSUME OutInv, ArchiveRaises PROVE OutInv'
  OBVIOUS
<1>1. UNCHANGED << last, over, status, att, completed, proc, crashes, due, claim, draining, file, known, bus, published, arch, body >>
  BY DEF ArchiveRaises, delivery, dispatch, jsonl, eventbus, archive
<1>2. (LedgerTypes /\ DispatchTypes /\ SinkTypes /\ Blank /\ Claims /\ Attempts /\ SinkInSequence /\ BusWithoutGaps /\ BusInTurn)'
  BY <1>1, KeepLedgerTypes, KeepDispatchTypes, KeepSinkTypes, KeepBlank, KeepClaims,
     KeepAttempts, KeepSinkInSequence, KeepBusWithoutGaps, KeepBusInTurn DEF OutInv
<1> USE BoundAssumption, SinkAssumption, AttemptAssumption DEF OutInv, ArchiveRaises, Events, Final, NoClaim
<1>3. ArchiveTypes'
  BY <1>1 DEF ArchiveInv, LedgerTypes, ArchiveTypes, Rows
<1>4. ArchiveInv'
  BY <1>1 DEF LedgerTypes, ArchiveTypes, Rows, ArchiveInv, Written, Holds
<1> QED
  BY ONLY <1>2, <1>3, <1>4 DEF OutInv

LEMMA OutCrash == OutInv /\ Crash => OutInv'
<1> SUFFICES ASSUME OutInv, Crash PROVE OutInv'
  OBVIOUS
<1>1. UNCHANGED << last, over, status, att, completed, bus, arch, body >>
  BY DEF Crash, delivery, dispatch, jsonl, eventbus, archive
<1>2. (Blank /\ SinkInSequence /\ BusWithoutGaps)'
  BY <1>1, KeepBlank, KeepSinkInSequence, KeepBusWithoutGaps DEF OutInv
<1> USE BoundAssumption, SinkAssumption, AttemptAssumption DEF OutInv, Crash, Remains, Idle, Events, Final, NoClaim
<1>3. LedgerTypes'
  BY <1>1 DEF LedgerTypes, Written, AttStates
<1>4. DispatchTypes'
  BY <1>1 DEF LedgerTypes, DispatchTypes, Written
<1>5. SinkTypes'
  <2> HIDE DEF Remains
  <2>1. known' \in [ Streams -> SUBSET (0..MaxEvents) ]
    BY DEF SinkTypes, NoIndex
  <2>2. CASE claim = NoClaim
    BY <1>1, <2>1, <2>2 DEF SinkTypes, Written
  <2>3. CASE claim # NoClaim
    <3>1. claim.event[1] \in Streams /\ claim.event[2] \in 1..MaxEvents
      BY <2>3 DEF DispatchTypes, Written
    <3>2. Remains \subseteq Seq(Fragment..MaxEvents)
      BY <3>1, RemainsAreText
    <3>3. \A s \in Streams : \A r \in Seq(Fragment..MaxEvents) : file[s] \o r \in Seq(Fragment..MaxEvents)
      BY DEF SinkTypes
    <3>4. file' \in [ Streams -> Seq(Fragment..MaxEvents) ]
      BY <2>3, <3>1, <3>2, <3>3 DEF SinkTypes
    <3> QED
      BY <1>1, <2>1, <3>4 DEF SinkTypes, Written
  <2> QED
    BY <2>2, <2>3
<1>6. ArchiveTypes'
  BY <1>1 DEF ArchiveInv, LedgerTypes, ArchiveTypes, Rows
<1>7. Claims'
  BY <1>1 DEF LedgerTypes, DispatchTypes, Claims, Written, Earlier
<1>8. Attempts'
  BY <1>1 DEF LedgerTypes, DispatchTypes, Claims, Attempts
<1>9. BusInTurn'
  BY <1>1 DEF LedgerTypes, DispatchTypes, SinkTypes, Claims, SinkInSequence, BusInTurn, Top,
     Written, Earlier
<1>10. ArchiveInv'
  BY <1>1 DEF LedgerTypes, ArchiveTypes, Rows, ArchiveInv, Written, Holds
<1> QED
  BY ONLY <1>2, <1>3, <1>4, <1>5, <1>6, <1>7, <1>8, <1>9, <1>10 DEF OutInv

LEMMA OutReconcile == OutInv /\ Reconcile => OutInv'
<1> SUFFICES ASSUME OutInv, Reconcile PROVE OutInv'
  OBVIOUS
<1>1. UNCHANGED << last, over, crashes, due, claim, draining, file, known, bus, published, arch, body, archiver >>
  BY DEF Reconcile, delivery, dispatch, jsonl, eventbus, archive
<1>2. (DispatchTypes /\ SinkTypes /\ ArchiveTypes /\ BusWithoutGaps)'
  BY <1>1, KeepDispatchTypes, KeepSinkTypes, KeepArchiveTypes, KeepBusWithoutGaps DEF OutInv
<1> USE BoundAssumption, SinkAssumption, AttemptAssumption DEF OutInv, Reconcile, Ready, Events, Final, NoClaim
<1>3. LedgerTypes'
  <2>1. \A e \in Events, k \in Sinks :
          [ i \in DOMAIN att[e][k] |-> IF att[e][k][i] = "delivering" THEN "interrupted" ELSE att[e][k][i] ]
            \in Seq(AttStates)
    <3> SUFFICES ASSUME NEW e \in Events, NEW k \in Sinks
                 PROVE  [ i \in DOMAIN att[e][k] |->
                            IF att[e][k][i] = "delivering" THEN "interrupted" ELSE att[e][k][i] ] \in Seq(AttStates)
      OBVIOUS
    <3> DEFINE q == att[e][k]
    <3>1. q \in Seq(AttStates)
      BY DEF LedgerTypes
    <3>2. Len(q) \in Nat /\ DOMAIN q = 1..Len(q) /\ \A i \in 1..Len(q) : q[i] \in AttStates
      BY <3>1
    <3> HIDE DEF q
    <3>3. [ i \in 1..Len(q) |-> IF q[i] = "delivering" THEN "interrupted" ELSE q[i] ] \in Seq(AttStates)
      BY <3>2 DEF AttStates
    <3> QED
      BY <3>2, <3>3 DEF q
  <2>2. att' \in [ Events -> [ Sinks -> Seq(AttStates) ] ]
    BY <2>1
  <2>3. status' \in [ Events -> [ Sinks -> { "none", "pending", "delivering", "retrying" } \cup Final ] ]
    BY DEF LedgerTypes
  <2>4. completed' \subseteq Written'
    BY <1>1 DEF LedgerTypes, Written
  <2> QED
    BY <1>1, <2>2, <2>3, <2>4 DEF LedgerTypes
<1>4. Blank'
  BY <1>1 DEF LedgerTypes, DispatchTypes, ArchiveInv, Holds, Blank, Written
<1>5. Claims'
  BY <1>1 DEF LedgerTypes, DispatchTypes, Claims, Written, Earlier
<1>6. Attempts'
  BY <1>1 DEF LedgerTypes, DispatchTypes, Claims, Attempts
<1>7. SinkInSequence'
  <2>1. Written' = Written /\ \A e \in Written : Earlier(e)' = Earlier(e) /\ e \in Events /\ Earlier(e) \subseteq Events
    BY <1>1 DEF Written, Earlier
  <2>2. \A e \in Events, k \in Sinks :
          /\ status[e][k] \in Final => status'[e][k] = status[e][k]
          /\ status'[e][k] \in { "delivering" } \cup Final => status[e][k] = status'[e][k]
    BY DEF LedgerTypes
  <2> HIDE DEF Reconcile, Events
  <2> QED
    BY <2>1, <2>2 DEF SinkInSequence
<1>8. BusInTurn'
  BY <1>1 DEF LedgerTypes, DispatchTypes, SinkTypes, Claims, SinkInSequence, BusInTurn, Top,
     Written, Earlier
<1>9. ArchiveInv'
  BY <1>1 DEF LedgerTypes, ArchiveTypes, Rows, DispatchTypes, Claims, ArchiveInv, Written, Holds
<1> QED
  BY ONLY <1>2, <1>3, <1>4, <1>5, <1>6, <1>7, <1>8, <1>9 DEF OutInv

LEMMA OutRecoverPreparing == OutInv /\ RecoverPreparing => OutInv'
<1> SUFFICES ASSUME OutInv, RecoverPreparing PROVE OutInv'
  OBVIOUS
<1>1. UNCHANGED << last, over, status, att, completed, proc, crashes, due, claim, draining, file, known, bus, published, archiver >>
  BY DEF RecoverPreparing, delivery, dispatch, jsonl, eventbus, archive
<1>2. (LedgerTypes /\ DispatchTypes /\ SinkTypes /\ Claims /\ Attempts /\ SinkInSequence /\ BusWithoutGaps /\ BusInTurn)'
  BY <1>1, KeepLedgerTypes, KeepDispatchTypes, KeepSinkTypes, KeepClaims, KeepAttempts,
     KeepSinkInSequence, KeepBusWithoutGaps, KeepBusInTurn DEF OutInv
<1> USE BoundAssumption, SinkAssumption, AttemptAssumption DEF OutInv, RecoverPreparing, Preparing, Verified, Events, Final, NoClaim
<1>3. ArchiveTypes'
  <2>1. PICK i \in DOMAIN arch, st \in { "verified", "failed", "recovery_required" } :
          arch' = [ arch EXCEPT ![i].status = st ]
    OBVIOUS
  <2>2. arch[i] \in Rows
    BY DEF ArchiveTypes
  <2>3. [ arch[i] EXCEPT !.status = st ] \in Rows
    BY <2>2 DEF Rows
  <2>4. arch' \in Seq(Rows) /\ Len(arch') = Len(arch)
    BY <2>1, <2>3 DEF ArchiveTypes
  <2>5. body' \in [ Events -> { "hot", "archived" } ]
    BY DEF ArchiveTypes
  <2> QED
    BY <1>1, <2>4, <2>5 DEF ArchiveTypes
<1>4. Blank'
  BY <1>1 DEF LedgerTypes, DispatchTypes, ArchiveInv, Holds, Blank, Written
<1>5. ArchiveInv'
  <2>1. PICK i \in DOMAIN arch, st \in { "verified", "failed", "recovery_required" } :
          /\ arch[i].status = "preparing"
          /\ arch' = [ arch EXCEPT ![i].status = st ]
          /\ \A e \in Events : body'[e] # body[e] => Holds(arch[i], e) /\ st = "verified" /\ arch[i].onDisk
    OBVIOUS
  <2> DEFINE row == [ arch[i] EXCEPT !.status = st ]
  <2>2. arch[i] \in Rows
    BY DEF ArchiveTypes
  <2>3. /\ row \in Rows /\ row.stream = arch[i].stream /\ row.first = arch[i].first /\ row.last = arch[i].last
        /\ row.status = st /\ row.onDisk = arch[i].onDisk
    BY <2>2 DEF Rows
  <2>4. arch' = [ arch EXCEPT ![i] = row ]
    BY <2>1
  <2>5. archiver.at \notin { "write", "verify" }
    BY DEF ArchiveInv
  <2> HIDE DEF row, RecoverPreparing, Verified, Events
  <2>6. /\ \A j, k \in DOMAIN arch' : \A e \in Events : Holds(arch'[j], e) /\ Holds(arch'[k], e) => j = k
        /\ \A j \in DOMAIN arch' : \A e \in Events : Holds(arch'[j], e) =>
             e \in Written' /\ \A k \in Sinks : status'[e][k] = "delivered"
        /\ \A e \in Events : body'[e] = "archived" =>
             \E j \in DOMAIN arch' : Holds(arch'[j], e) /\ arch'[j].status = "verified" /\ arch'[j].onDisk
    <3>1. \A e \in Events : body'[e] # body[e] => Holds(arch[i], e) /\ row.status = "verified" /\ row.onDisk
      BY <2>1, <2>3
    <3> QED
      BY ONLY <1>1, <2>1, <2>3, <2>4, <3>1, i \in DOMAIN arch, OutInv,
              ArchiveRowKeeps DEF OutInv
  <2> QED
    BY ONLY <1>1, <2>5, <2>6 DEF ArchiveInv
<1> QED
  BY ONLY <1>2, <1>3, <1>4, <1>5 DEF OutInv

LEMMA OutServe == OutInv /\ Serve => OutInv'
<1> SUFFICES ASSUME OutInv, Serve PROVE OutInv'
  OBVIOUS
<1>1. UNCHANGED << last, over, status, att, completed, crashes, due, claim, draining, file, known, bus, published, arch, body, archiver >>
  BY DEF Serve, delivery, dispatch, jsonl, eventbus, archive
<1>2. (DispatchTypes /\ SinkTypes /\ ArchiveTypes /\ Blank /\ SinkInSequence /\ BusWithoutGaps /\ BusInTurn)'
  BY <1>1, KeepDispatchTypes, KeepSinkTypes, KeepArchiveTypes, KeepBlank, KeepSinkInSequence,
     KeepBusWithoutGaps, KeepBusInTurn DEF OutInv
<1> USE BoundAssumption, SinkAssumption, AttemptAssumption DEF OutInv, Serve, Preparing, Events, Final, NoClaim
<1>3. LedgerTypes'
  BY <1>1 DEF LedgerTypes, Written, AttStates
<1>4. Claims'
  BY <1>1 DEF LedgerTypes, DispatchTypes, Claims, Written, Earlier
<1>5. Attempts'
  BY <1>1 DEF LedgerTypes, DispatchTypes, Claims, Attempts
<1>6. ArchiveInv'
  BY <1>1 DEF LedgerTypes, ArchiveTypes, Rows, ArchiveInv, Written, Holds
<1> QED
  BY ONLY <1>2, <1>3, <1>4, <1>5, <1>6 DEF OutInv

LEMMA OutStutter == OutInv /\ UNCHANGED vars => OutInv'
  BY KeepLedgerTypes, KeepDispatchTypes, KeepSinkTypes, KeepArchiveTypes, KeepBlank,
     KeepClaims, KeepAttempts,
     KeepSinkInSequence, KeepBusWithoutGaps, KeepBusInTurn, KeepArchiveInv
  DEF OutInv, vars, delivery, dispatch, jsonl, eventbus, archive

LEMMA OutStep == OutInv /\ [Next]_vars => OutInv'
  BY OutWriteEvent, OutFinishRun, OutDrainBegins, OutClaim, OutDrainEnds, OutDeliverToBus,
     OutAppendOnce,
     OutSinkRaises, OutFinishSuccess, OutFinishFailure, OutArchivePrepare, OutArchiveWrite,
     OutArchiveVerify,
     OutArchiveRaises, OutCrash, OutReconcile, OutRecoverPreparing, OutServe, OutStutter
  DEF Next, Dispatch, ArchiveStep, Startup

(* For any streams, sinks, attempts and deaths: a sink is offered the      *)
(* events of a stream in sequence, subscribers see no gap, and one attempt *)
(* at a time is open (_due_deliveries, _claim, deliver_from_outbox).       *)
THEOREM SinksServedInOrder == Spec => []SinksInOrder
<1>1. OutInv => SinksInOrder
  BY DEF OutInv, SinksInOrder, OneLiveAttempt, Attempts, Written
<1> QED
  BY OutInitial, OutStep, <1>1, PTL DEF Spec

-----------------------------------------------------------------------------
(* The JSONL file, when a death does not tear a line.                      *)

LEMMA LineAppended ==
  ASSUME NEW f \in Seq(Fragment..MaxEvents), Whole(f), Unique(f), NEW n \in 1..MaxEvents,
  n \notin Bodies(f)
  PROVE  /\ Whole(f \o << n, EOL >>) /\ Unique(f \o << n, EOL >>)
         /\ Bodies(f \o << n, EOL >>) = Bodies(f) \cup {n}
<1> DEFINE g == f \o << n, EOL >>
<1> USE BoundAssumption DEF EOL, Fragment
<1>1. /\ Len(f) \in Nat /\ DOMAIN f = 1..Len(f) /\ Len(g) = Len(f) + 2 /\ DOMAIN g = 1..Len(f) + 2
      /\ g[Len(f) + 1] = n /\ g[Len(f) + 2] = EOL /\ \A i \in 1..Len(f) : g[i] = f[i] /\ f[i] \in Int
  OBVIOUS
<1> HIDE DEF g
<1>2. \A i \in DOMAIN g : i \in DOMAIN f \/ i = Len(f) + 1 \/ i = Len(f) + 2
  BY <1>1
<1>3. Len(f) > 0 => f[Len(f)] = EOL
  BY <1>1 DEF Whole
<1>4. Bodies(g) = Bodies(f) \cup {n}
  <2>1. \A i \in DOMAIN f : i \in DOMAIN g /\ g[i] = f[i]
    BY <1>1
  <2>2. Bodies(f) \subseteq Bodies(g)
    BY <2>1 DEF Bodies
  <2>3. n \in Bodies(g)
    BY SMTT(30), <1>1 DEF Bodies
  <2>4. Bodies(g) \subseteq Bodies(f) \cup {n}
    BY <1>1, <1>2 DEF Bodies
  <2> QED
    BY <2>2, <2>3, <2>4
<1>5. \A i \in DOMAIN f : f[i] # n
  BY <1>1 DEF Bodies
<1>6. Unique(g)
  <2> SUFFICES ASSUME NEW i \in DOMAIN g, NEW j \in DOMAIN g, i < j, g[i] > EOL PROVE g[i] # g[j]
    BY DEF Unique
  <2>1. CASE j \in DOMAIN f
    <3>1. i \in DOMAIN f
      BY <1>1, <2>1
    <3>2. f[i] > EOL => f[i] # f[j]
      BY <2>1, <3>1 DEF Unique
    <3> QED
      BY <1>1, <2>1, <3>1, <3>2
  <2>2. CASE j = Len(f) + 1
    BY <1>1, <1>2, <1>5, <2>2
  <2>3. CASE j = Len(f) + 2
    BY <1>1, <1>2, <2>3
  <2> QED
    BY <1>2, <2>1, <2>2, <2>3
<1>7. Whole(g)
  <2> SUFFICES ASSUME NEW i \in DOMAIN g
               PROVE  /\ g[i] >= EOL
                      /\ g[i] > EOL => /\ i + 1 \in DOMAIN g /\ g[i + 1] = EOL
                                       /\ i > 1 => g[i - 1] = EOL
    BY DEF Whole
  <2>1. CASE i \in DOMAIN f
    <3>1. /\ f[i] >= EOL
          /\ f[i] > EOL => /\ i + 1 \in DOMAIN f /\ f[i + 1] = EOL
                           /\ i > 1 => f[i - 1] = EOL
      BY <2>1 DEF Whole
    <3> QED
      BY <1>1, <2>1, <3>1
  <2>2. CASE i = Len(f) + 1
    BY <1>1, <1>3, <2>2
  <2>3. CASE i = Len(f) + 2
    BY <1>1, <2>3
  <2> QED
    BY <1>2, <2>1, <2>2, <2>3
<1> QED
  BY <1>4, <1>6, <1>7 DEF g

LEMMA FileInitial == Init => FileInv
  BY DEF Init, FileInv, Whole, Unique, Indexed, NoClaim, Written, Events

(* A step that does not touch the file and settles no JSONL row by itself. *)
LEMMA FileRests ==
  ASSUME FileInv, file' = file,
         \A s \in Streams : known'[s] \in { NoIndex, Bodies(file[s]) } \/ known'[s] = known[s],
         claim' = claim \/ claim'.stage # "sent" \/ claim'.sink # "jsonl",
         "jsonl" \in Sinks => \A e \in Written' : status'[e]["jsonl"] = "delivered" =>
           (e \in Written /\ status[e]["jsonl"] = "delivered") \/ e[2] \in Bodies(file[e[1]])
  PROVE  FileInv'
<1>1. (\A s \in Streams : Whole(file[s]) /\ Unique(file[s]))'
  BY DEF FileInv, Whole, Unique
<1>2. \A f : Bodies(f)' = Bodies(f)
  BY DEF Bodies
<1>3. Indexed'
  BY DEF FileInv, Indexed, Bodies
<1> QED
  BY <1>1, <1>3 DEF FileInv

LEMMA FileStep == ~ TornWrites /\ OutInv /\ OutInv' /\ FileInv /\ [Next]_vars => FileInv'
<1> SUFFICES ASSUME ~ TornWrites, OutInv, OutInv', FileInv, [Next]_vars PROVE FileInv'
  OBVIOUS
<1>1. \A s \in Streams : known[s] \in { NoIndex, Bodies(file[s]) }
  BY DEF FileInv, Indexed
<1>2. ASSUME UNCHANGED << last, status, file, known >>, claim' = claim \/ claim'.stage # "sent" \/ claim'.sink # "jsonl"
      PROVE  FileInv'
  <2>1. Written' = Written
    BY <1>2 DEF Written
  <2> QED
    BY <1>2, <2>1, FileRests
<1>3. ASSUME NEW s \in Streams, WriteEvent(s) PROVE FileInv'
  <2> DEFINE new == << s, last[s] + 1 >>
  <2>1. UNCHANGED << file, known, claim >>
    BY <1>3 DEF WriteEvent, dispatch, jsonl
  <2>2. \A e \in Written' : e \in Written \/ e = new
    BY <1>3, BoundAssumption DEF WriteEvent, OutInv, LedgerTypes, Written, Events
  <2>3. /\ "jsonl" \in Sinks /\ new \in Events => status'[new]["jsonl"] = "pending"
        /\ \A e \in Events : e # new => status'[e] = status[e]
    BY <1>3 DEF WriteEvent, OutInv, LedgerTypes
  <2>4. Written \subseteq Events /\ Written' \subseteq Events
    BY DEF Written
  <2> HIDE DEF new
  <2> QED
    BY <2>1, <2>2, <2>3, <2>4, FileRests
<1>4. ASSUME NEW e \in Written, NEW k \in Sinks, NEW v, RowTo(e, k, v),
             UNCHANGED << last, file, known >>, claim'.stage # "sent",
             v = "delivered" /\ k = "jsonl" => e[2] \in Bodies(file[e[1]])
      PROVE  FileInv'
  <2>1. Written' = Written /\ Written \subseteq Events
    BY <1>4 DEF Written
  <2>2. "jsonl" \in Sinks => \A d \in Written : status'[d]["jsonl"] = "delivered" =>
          status[d]["jsonl"] = "delivered" \/ d[2] \in Bodies(file[d[1]])
    BY <1>4, <2>1 DEF RowTo
  <2> QED
    BY <1>4, <2>1, <2>2, FileRests
<1>5. CASE Claim
  <2>1. PICK row \in due : /\ status' = [ status EXCEPT ![row[1]][row[2]] = "delivering" ]
                           /\ claim' = [ stage |-> "claimed", event |-> row[1], sink |-> row[2] ]
    BY <1>5 DEF Claim
  <2>2. row[1] \in Written /\ row[1] \in Events /\ row[2] \in Sinks
    BY DEF OutInv, DispatchTypes, Written
  <2>3. RowTo(row[1], row[2], "delivering") /\ claim'.stage # "sent" /\ UNCHANGED << last, file, known >>
    BY <1>5, <2>1, <2>2, RowChanges DEF OutInv, Claim, jsonl
  <2> QED
    BY <1>4, <2>2, <2>3
<1>6. CASE FinishSuccess
  <2> DEFINE e == claim.event
  <2> DEFINE k == claim.sink
  <2>1. e \in Written /\ e \in Events /\ k \in Sinks
    BY <1>6 DEF FinishSuccess, OutInv, DispatchTypes, Written, NoClaim
  <2>2. RowTo(e, k, "delivered") /\ claim'.stage # "sent" /\ UNCHANGED << last, file, known >>
    BY <1>6, <2>1, RowChanges DEF OutInv, FinishSuccess, jsonl, NoClaim
  <2>3. k = "jsonl" => e[2] \in Bodies(file[e[1]])
    BY <1>6 DEF FinishSuccess, FileInv, Indexed
  <2> QED
    BY <1>4, <2>1, <2>2, <2>3
<1>7. CASE FinishFailure
  <2> DEFINE e == claim.event
  <2> DEFINE k == claim.sink
  <2> DEFINE v == IF Len(att[e][k]) >= MaxAttempts THEN "dead_lettered" ELSE "retrying"
  <2>1. e \in Written /\ e \in Events /\ k \in Sinks
    BY <1>7 DEF FinishFailure, OutInv, DispatchTypes, Written, NoClaim
  <2>2. RowTo(e, k, v) /\ claim'.stage # "sent" /\ UNCHANGED << last, file, known >> /\ v # "delivered"
    BY <1>7, <2>1, RowChanges DEF OutInv, FinishFailure, jsonl, NoClaim
  <2> QED
    BY <1>4, <2>1, <2>2
<1>8. CASE Reconcile
  <2>1. UNCHANGED << last, file, known, claim >> /\ Written' = Written /\ Written \subseteq Events
    BY <1>8 DEF Reconcile, dispatch, jsonl, Written
  <2>2. \A e \in Events, k \in Sinks : status'[e][k] = "delivered" => status[e][k] = "delivered"
    BY <1>8 DEF Reconcile
  <2> QED
    BY <2>1, <2>2, FileRests
<1>9. ASSUME claim # NoClaim PROVE /\ Remains = {<< >>}
                                   /\ claim.event \in Written /\ claim.event[1] \in Streams /\ claim.event[2] \in 1..MaxEvents
                                   /\ claim \in [ stage : { "claimed", "sent", "raised" }, event : Written, sink : Sinks ]
                                   /\ \A r \in Remains : [ file EXCEPT ![claim.event[1]] = @ \o r ] = file
  <2>1. Remains = {<< >>}
    BY DEF Remains
  <2>2. /\ claim.event \in Written /\ claim.event[1] \in Streams /\ claim.event[2] \in 1..MaxEvents
        /\ claim \in [ stage : { "claimed", "sent", "raised" }, event : Written, sink : Sinks ]
    BY <1>9 DEF OutInv, DispatchTypes, Written, Events
  <2>3. \A s \in Streams : file[s] \o << >> = file[s]
    BY DEF OutInv, SinkTypes
  <2> QED
    BY <2>1, <2>2, <2>3 DEF OutInv, SinkTypes
<1>10. CASE SinkRaises
  <2>1. claim # NoClaim /\ claim' = [ claim EXCEPT !.stage = "raised" ] /\ UNCHANGED << last, status >>
    BY <1>10 DEF SinkRaises, NoClaim, delivery
  <2>2. file' = file
    BY <1>9, <1>10, <2>1 DEF SinkRaises, jsonl
  <2>3. known' = known \/ known' = [ known EXCEPT ![claim.event[1]] = Index(claim.event[1]) ]
    BY <1>10 DEF SinkRaises, jsonl
  <2>4. \A s \in Streams : known'[s] \in { NoIndex, Bodies(file[s]) } \/ known'[s] = known[s]
    BY <1>1, <1>9, <2>1, <2>3 DEF Index, OutInv, SinkTypes
  <2>5. claim'.stage # "sent"
    BY <1>9, <2>1
  <2>6. Written' = Written
    BY <2>1 DEF Written
  <2> QED
    BY <2>1, <2>2, <2>4, <2>5, <2>6, FileRests
<1>11. CASE Crash
  <2>1. claim' = NoClaim /\ claim'.stage # "sent" /\ UNCHANGED << last, status >> /\ \A s \in Streams : known'[s] = NoIndex
    BY <1>11 DEF Crash, NoClaim, delivery
  <2>2. file' = file
    BY <1>9, <1>11 DEF Crash
  <2>3. Written' = Written
    BY <2>1 DEF Written
  <2> QED
    BY <2>1, <2>2, <2>3, FileRests
<1>12. CASE AppendOnce
  <2>1. claim # NoClaim /\ UNCHANGED << last, status >> /\ claim' = [ claim EXCEPT !.stage = "sent" ] /\ claim.sink = "jsonl"
    BY <1>12 DEF AppendOnce, NoClaim, delivery
  <2>2. PICK s \in Streams, n \in 1..MaxEvents : claim.event = << s, n >>
    BY <1>9, <2>1 DEF Written, Events
  <2>3. /\ file' = IF n \in Index(s) THEN file ELSE [ file EXCEPT ![s] = @ \o << n, EOL >> ]
        /\ known' = [ known EXCEPT ![s] = Index(s) \cup {n} ]
    BY <1>12, <2>2 DEF AppendOnce
  <2>4. Index(s) = Bodies(file[s])
    BY <1>1 DEF Index
  <2>5. file[s] \in Seq(Fragment..MaxEvents) /\ Whole(file[s]) /\ Unique(file[s])
    BY DEF OutInv, SinkTypes, FileInv
  <2>6. /\ Whole(file'[s]) /\ Unique(file'[s]) /\ Bodies(file'[s]) = Bodies(file[s]) \cup {n}
        /\ \A r \in Streams : r # s => file'[r] = file[r]
    <3>1. CASE n \in Index(s)
      BY <2>3, <2>4, <2>5, <3>1
    <3>2. CASE n \notin Index(s)
      <4>1. file'[s] = file[s] \o << n, EOL >> /\ \A r \in Streams : r # s => file'[r] = file[r]
        BY <2>3, <3>2 DEF OutInv, SinkTypes
      <4> QED
        BY <2>4, <2>5, <3>2, <4>1, LineAppended
    <3> QED
      BY <3>1, <3>2
  <2>7. known'[s] = Bodies(file'[s]) /\ \A r \in Streams : r # s => known'[r] = known[r]
    BY <2>3, <2>4, <2>6 DEF OutInv, SinkTypes
  <2>8. Written' = Written /\ \A e \in Written : e[1] \in Streams
    BY <2>1 DEF Written, Events
  <2>9. claim'.event = << s, n >> /\ claim'.event[1] = s /\ claim'.event[2] = n
    BY <1>9, <2>1, <2>2
  <2>10. \A r \in Streams : Bodies(file[r]) \subseteq Bodies(file'[r])
    BY <2>6
  <2>11. n \in Bodies(file'[s])
    BY <2>6
  <2>12. \A r \in Streams : known'[r] = NoIndex \/ known'[r] = Bodies(file'[r])
    BY <1>1, <2>6, <2>7
  <2>13. "jsonl" \in Sinks => \A e \in Written : status[e]["jsonl"] = "delivered" => e[2] \in Bodies(file'[e[1]])
    BY <2>8, <2>10 DEF FileInv, Indexed
  <2>14. Indexed'
    BY <2>1, <2>8, <2>9, <2>11, <2>12, <2>13 DEF Indexed, Bodies
  <2> QED
    BY <2>6, <2>14 DEF FileInv, Whole, Unique
<1>13. CASE DeliverToBus
  <2>1. claim # NoClaim /\ claim' = [ claim EXCEPT !.stage = "sent" ] /\ claim.sink = "eventbus"
        /\ UNCHANGED << last, status, file, known >>
    BY <1>13 DEF DeliverToBus, NoClaim, delivery, jsonl
  <2>2. claim'.sink # "jsonl"
    BY <1>9, <2>1
  <2> QED
    BY <1>2, <2>1, <2>2
<1>14. CASE \/ DrainBegins \/ DrainEnds \/ ArchiveStep \/ RecoverPreparing \/ Serve
            \/ (\E s \in Streams : FinishRun(s)) \/ UNCHANGED vars
  <2>1. UNCHANGED << last, status, file, known, claim >>
    BY <1>14 DEF DrainBegins, DrainEnds, ArchiveStep, ArchivePrepare, ArchiveWrite,
       ArchiveVerify, ArchiveRaises,
                 RecoverPreparing, Serve, FinishRun, vars, delivery, dispatch, jsonl
  <2> QED
    BY <1>2, <2>1
<1> QED
  BY <1>3, <1>5, <1>6, <1>7, <1>8, <1>10, <1>11, <1>12, <1>13, <1>14 DEF Next, Dispatch, Startup

(* For any streams, sinks, attempts and deaths, as long as no line is torn: *)
(* an event is written to the JSONL file at most once and can be read back, *)
(* its hot body stays while a Delivery is open, and a released body is held *)
(* by one verified archive (JsonlEventSink, GatewayEventArchiveService).    *)
THEOREM NoEventLost == ~ TornWrites => (Spec => []EventsKept)
<1> SUFFICES ASSUME ~ TornWrites PROVE Spec => []EventsKept
  OBVIOUS
<1>1. OutInv /\ FileInv => EventsKept
  <2> SUFFICES ASSUME OutInv, FileInv PROVE EventsKept
    OBVIOUS
  <2>1. TypeOK
    <3>1. \A i \in DOMAIN arch : arch[i] \in Rows
      BY SequenceOf DEF OutInv, ArchiveTypes
    <3>2. \A e \in Events, k \in Sinks : att[e][k] \in Seq(AttStates)
      BY DEF OutInv, LedgerTypes
    <3> QED
      BY <3>1, <3>2 DEF OutInv, LedgerTypes, DispatchTypes, SinkTypes, ArchiveTypes, TypeOK,
         Rows, AttStates
  <2>2. JsonlAtMostOnce
    BY DEF FileInv, Unique, JsonlAtMostOnce
  <2>3. DeliveredReadable
    <3> SUFFICES ASSUME NEW e \in Written, "jsonl" \in Sinks, status[e]["jsonl"] = "delivered"
                 PROVE  \E i \in DOMAIN file[e[1]] :
                          /\ file[e[1]][i] = e[2]
                          /\ i < Len(file[e[1]]) => file[e[1]][i + 1] = EOL
                          /\ i > 1 => file[e[1]][i - 1] = EOL
      BY DEF DeliveredReadable
    <3>1. e[1] \in Streams /\ e[2] \in Bodies(file[e[1]])
      BY DEF FileInv, Indexed, Written, Events
    <3>2. PICK i \in DOMAIN file[e[1]] : file[e[1]][i] = e[2] /\ file[e[1]][i] > EOL
      BY <3>1 DEF Bodies
    <3> QED
      BY <3>1, <3>2 DEF FileInv, Whole
  <2>4. BodyNeverLost
    BY DEF OutInv, ArchiveInv, BodyNeverLost, Written
  <2>5. OpenDeliveryHasBody
    BY DEF OutInv, ArchiveInv, ArchiveTypes, OpenDeliveryHasBody, Written, Final
  <2> QED
    BY <2>1, <2>2, <2>3, <2>4, <2>5 DEF EventsKept
<1> QED
  BY OutInitial, OutStep, FileInitial, FileStep, <1>1, PTL DEF Spec

=============================================================================
