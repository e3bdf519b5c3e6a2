---------------------------- MODULE CallsProofs ----------------------------
(***************************************************************************)
(* Proofs about the two kinds of calls whose answers have to stay in step  *)
(* with what they did: a reply's batch of Tool calls, for replies of any   *)
(* length and any parallelism, and the calls of the Harness engine by the  *)
(* Dream, a coding session, the harness_capability Tool and the ERROR      *)
(* proposals, for any generations, turns, repairs, steps of the user and   *)
(* deaths of the Gateway.                                                  *)
(***************************************************************************)
EXTENDS ToolBatch, Harness, FiniteSetTheorems, SequenceTheorems, TLAPS

-----------------------------------------------------------------------------
(* The batch of a reply.  The invariant Inv says which calls are between   *)
(* the last observation and the loop's position: they are exactly the      *)
(* collected or the flushed group, so that publishing its leftmost member  *)
(* continues the log.                                                      *)

Unanswered == (Len(log) + 1)..(pos - 1)

Flushing == { "prepare", "gather", "settle", "publish" }

(* Where the loop is determines which calls are waiting. *)
Shape ==
  /\ Len(log) < pos
  /\ pos - 1 - Len(log) <= max_parallel
  /\ ctl \in { "next", "flush" } => pending = Unanswered /\ group = {}
  /\ ctl \in Flushing => group = Unanswered /\ pending = {}
  /\ ctl \in { "serial", "answer", "skip" } =>
       pending = {} /\ group = {} /\ pos = Len(log) + 1
  /\ ctl \in { "serial", "answer" } => pos \in Calls /\ ~ Parallel(pos)
  /\ ctl \in { "flush", "prepare", "gather", "publish" } => Len(log) + 1 < pos
  /\ ctl = "next" => pos - 1 - Len(log) < max_parallel
  /\ ctl = "settle" => why # "none"
  /\ \A i \in pending \cup group : Parallel(i)

(* Bodies run only inside a gathered group or as the serial call. *)
Bodies ==
  /\ \A i \in Calls : st[i] \in { "scheduled", "running" } =>
       \/ ctl \in { "gather", "settle" } /\ i \in group
       \/ ctl = "serial" /\ i = pos /\ st[i] = "running"
  /\ ctl \in { "serial", "gather", "settle" } => exec = "acting"

Inv == TypeOK /\ AnswersInOrder /\ EveryCallAnswered /\ Shape /\ Bodies

-----------------------------------------------------------------------------
(* The leftmost member of an interval is its lower end (sorted outcomes).  *)
LEMMA LeftmostOfInterval ==
  ASSUME NEW a \in Int, NEW b \in Int, a <= b
  PROVE  Leftmost(a..b) = a
<1>1. \A i \in a..b : (\A j \in a..b : i <= j) => i = a
  OBVIOUS
<1>2. a \in a..b /\ \A j \in a..b : a <= j
  OBVIOUS
<1> QED BY <1>1, <1>2 DEF Leftmost

(* An interval is empty when its ends are crossed. *)
LEMMA EmptyInterval ==
  ASSUME NEW a \in Int, NEW b \in Int
  PROVE  a..b = {} <=> b < a
<1>1. CASE a <= b
  <2>1. a \in a..b BY <1>1
  <2> QED BY <1>1, <2>1
<1>2. CASE b < a BY <1>2
<1> QED BY <1>1, <1>2

(* Appending the next position keeps the log the initial segment of calls. *)
LEMMA AppendNext ==
  ASSUME log \in Seq(Calls), AnswersInOrder, NEW x, x \in Calls, x = Len(log) + 1,
         log' = Append(log, x)
  PROVE  log' \in Seq(Calls) /\ AnswersInOrder' /\ Len(log') = Len(log) + 1
<1>1. log' \in Seq(Calls) /\ Len(log') = Len(log) + 1
  OBVIOUS
<1>2. \A k \in 1..Len(log') : log'[k] = k
  BY CallsAssumption DEF AnswersInOrder, Calls
<1> QED BY <1>1, <1>2 DEF AnswersInOrder

(* The loop starts with nothing collected. *)
LEMMA InitInv == Init => Inv
<1> SUFFICES ASSUME Init PROVE Inv OBVIOUS
<1>1. TypeOK
  <2>1. log \in Seq(Calls) BY DEF Init
  <2>2. st \in [ Calls -> Settled \cup { "new", "prepared", "scheduled", "running" } ]
    BY DEF Init
  <2>3. pos \in 1..(N + 1) BY CallsAssumption DEF Init
  <2>4. ctl = "next" /\ why = "none" /\ exec = "thinking" /\ signal = FALSE
        /\ pending = {} /\ group = {} /\ kind \in [ Calls -> Kinds ]
    BY DEF Init
  <2> QED BY <2>1, <2>2, <2>3, <2>4 DEF TypeOK
<1>2. Len(log) = 0 BY DEF Init
<1>3. AnswersInOrder /\ EveryCallAnswered
  BY <1>2 DEF Init, AnswersInOrder, EveryCallAnswered
<1>4. Shape BY <1>2, ParallelAssumption DEF Init, Shape, Unanswered, Flushing
<1>5. Bodies BY DEF Init, Bodies
<1> QED BY <1>1, <1>3, <1>4, <1>5 DEF Inv

(* Every step of the loop and of its tasks keeps the invariant. *)
LEMMA StepInv == Inv /\ [Next]_vars => Inv'
<1> SUFFICES ASSUME Inv, [Next]_vars PROVE Inv' OBVIOUS
<1> USE CallsAssumption, ParallelAssumption DEF At, Calls, Closed, Flushing
<1>t. /\ log \in Seq(Calls) /\ Len(log) \in Nat /\ pos \in Int /\ pos <= N + 1 /\ Len(log) < pos
      /\ AnswersInOrder
  BY DEF Inv, TypeOK, Shape
<1>e. ctl = "next" /\ pending = {} => pos = Len(log) + 1
  <2>1. ctl = "next" /\ pending = {} => (Len(log) + 1)..(pos - 1) = {}
    BY DEF Inv, Shape, Unanswered
  <2>2. Len(log) + 1 \in Int /\ pos - 1 \in Int BY <1>t
  <2>3. (Len(log) + 1)..(pos - 1) = {} <=> pos - 1 < Len(log) + 1 BY <2>2, EmptyInterval
  <2> QED BY <2>1, <2>3, <1>t
<1>1. CASE Collect
  <2>1. log' = log /\ AnswersInOrder'
    BY <1>1, <1>t DEF Collect, AnswersInOrder, vars
  <2>2. TypeOK'
    BY <1>1, <1>t, <2>1 DEF Collect, Inv, TypeOK, Settled, vars, Parallel
  <2>3. EveryCallAnswered'
    BY <1>1, <1>t, <2>1 DEF Collect, Inv, Shape, Unanswered, EveryCallAnswered, TypeOK, vars
  <2>a. pending' = (Len(log) + 1)..pos /\ pos \in Calls /\ Parallel(pos)
    BY <1>1, <1>t DEF Collect, Inv, Shape, Unanswered, Parallel
  <2>b. Cardinality(pending') = pos - Len(log)
    <3>1. Len(log) + 1 \in Int /\ pos \in Int /\ Len(log) + 1 <= pos BY <1>t
    <3> QED BY <2>a, <3>1, FS_Interval
  <2>4. Shape'
    BY <1>1, <1>t, <2>1, <2>a, <2>b DEF Collect, Inv, Shape, Unanswered, Parallel, TypeOK, vars
  <2>5. Bodies'
    BY <1>1, <1>t, <2>1 DEF Collect, Inv, Shape, Bodies, TypeOK, vars
  <2> QED BY <2>1, <2>2, <2>3, <2>4, <2>5 DEF Inv
<1>2. CASE Barrier
  <2>1. log' = log /\ AnswersInOrder'
    BY <1>2, <1>t DEF Barrier, AnswersInOrder, vars
  <2>2. TypeOK'
    BY <1>2, <1>t, <2>1 DEF Barrier, Inv, TypeOK, Settled, vars
  <2>3. EveryCallAnswered'
    BY <1>2, <1>t, <2>1 DEF Barrier, Inv, Shape, Unanswered, EveryCallAnswered, TypeOK, vars
  <2>4. Shape'
    BY <1>2, <1>t, <2>1 DEF Barrier, Inv, Shape, Unanswered, Parallel, TypeOK, vars
  <2>5. Bodies'
    BY <1>2, <1>t, <2>1 DEF Barrier, Inv, Shape, Bodies, TypeOK, vars
  <2> QED BY <2>1, <2>2, <2>3, <2>4, <2>5 DEF Inv
<1>3. CASE StartSerial
  <2>1. log' = log /\ AnswersInOrder'
    BY <1>3, <1>t DEF StartSerial, AnswersInOrder, vars
  <2>2. TypeOK'
    BY <1>3, <1>t, <2>1 DEF StartSerial, Inv, TypeOK, Settled, vars
  <2>3. EveryCallAnswered'
    BY <1>3, <1>t, <2>1, <1>e DEF StartSerial, Inv, Shape, Unanswered, EveryCallAnswered, TypeOK, vars
  <2>4. Shape'
    BY <1>3, <1>t, <2>1, <1>e DEF StartSerial, Inv, Shape, Unanswered, Parallel, TypeOK, vars
  <2>5. Bodies'
    BY <1>3, <1>t, <2>1 DEF StartSerial, Inv, Shape, Bodies, TypeOK, vars
  <2> QED BY <2>1, <2>2, <2>3, <2>4, <2>5 DEF Inv
<1>4. CASE FinishSerial
  <2>1. log' = log /\ AnswersInOrder'
    BY <1>4, <1>t DEF FinishSerial, AnswersInOrder, vars
  <2>2. TypeOK'
    BY <1>4, <1>t, <2>1 DEF FinishSerial, Inv, TypeOK, Settled, vars
  <2>3. EveryCallAnswered'
    BY <1>4, <1>t, <2>1 DEF FinishSerial, Inv, Shape, Unanswered, EveryCallAnswered, TypeOK, vars
  <2>4. Shape'
    BY <1>4, <1>t, <2>1 DEF FinishSerial, Inv, Shape, Unanswered, Parallel, TypeOK, vars
  <2>5. Bodies'
    BY <1>4, <1>t, <2>1 DEF FinishSerial, Inv, Shape, Bodies, TypeOK, vars
  <2> QED BY <2>1, <2>2, <2>3, <2>4, <2>5 DEF Inv
<1>5. CASE Answer
  <2>0. \/ log' = log
        \/ log' = Append(log, Len(log) + 1) /\ Len(log) + 1 \in Calls
    BY <1>5, <1>t, <1>e, LeftmostOfInterval DEF Answer, Inv, TypeOK, Shape, Unanswered
  <2>1. /\ log' \in Seq(Calls) /\ AnswersInOrder' /\ Len(log') \in Nat
        /\ log' = log \/ Len(log') = Len(log) + 1
    BY <2>0, <1>t, AppendNext DEF AnswersInOrder
  <2>2. TypeOK'
    BY <1>5, <1>t, <2>1 DEF Answer, Inv, TypeOK, Settled, vars
  <2>3. EveryCallAnswered'
    BY <1>5, <1>t, <2>1 DEF Answer, Inv, Shape, Unanswered, EveryCallAnswered, TypeOK, vars
  <2>a. pos = Len(log) + 1 /\ pos' = pos + 1 /\ Len(log') = Len(log) + 1
    BY <1>5, <1>t, <2>1 DEF Answer, Inv, Shape
  <2>b. Unanswered' = {} /\ pending' = {} /\ group' = {} /\ pos' - 1 - Len(log') = 0 /\ ctl' \in { "next", "skip" }
    <3>1. Len(log') + 1 \in Int /\ pos' - 1 \in Int BY <2>a, <1>t
    <3>2. Unanswered' = {} BY <2>a, <3>1, <1>t, EmptyInterval DEF Unanswered
    <3> QED BY <2>a, <3>2, <1>5, <1>t DEF Answer, Inv, Shape
  <2>4. Shape'
    BY <2>a, <2>b, <2>1, <1>t DEF Shape
  <2>5. Bodies'
    BY <1>5, <1>t, <2>1 DEF Answer, Inv, Shape, Bodies, TypeOK, vars
  <2> QED BY <2>1, <2>2, <2>3, <2>4, <2>5 DEF Inv
<1>6. CASE RequestError
  <2>0. \/ log' = log
        \/ log' = Append(log, Len(log) + 1) /\ Len(log) + 1 \in Calls
    BY <1>6, <1>t, <1>e, LeftmostOfInterval DEF RequestError, Inv, TypeOK, Shape, Unanswered
  <2>1. /\ log' \in Seq(Calls) /\ AnswersInOrder' /\ Len(log') \in Nat
        /\ log' = log \/ Len(log') = Len(log) + 1
    BY <2>0, <1>t, AppendNext DEF AnswersInOrder
  <2>2. TypeOK'
    BY <1>6, <1>t, <2>1 DEF RequestError, Inv, TypeOK, Settled, vars
  <2>3. EveryCallAnswered'
    BY <1>6, <1>t, <2>1, <1>e DEF RequestError, Inv, Shape, Unanswered, EveryCallAnswered, TypeOK, vars
  <2>4. Shape'
    BY <1>6, <1>t, <2>1, <1>e DEF RequestError, Inv, Shape, Unanswered, Parallel, TypeOK, vars
  <2>5. Bodies'
    BY <1>6, <1>t, <2>1 DEF RequestError, Inv, Shape, Bodies, TypeOK, vars
  <2> QED BY <2>1, <2>2, <2>3, <2>4, <2>5 DEF Inv
<1>7. CASE Skip
  <2>0. \/ log' = log
        \/ log' = Append(log, Len(log) + 1) /\ Len(log) + 1 \in Calls
    BY <1>7, <1>t, <1>e, LeftmostOfInterval DEF Skip, Inv, TypeOK, Shape, Unanswered
  <2>1. /\ log' \in Seq(Calls) /\ AnswersInOrder' /\ Len(log') \in Nat
        /\ log' = log \/ Len(log') = Len(log) + 1
    BY <2>0, <1>t, AppendNext DEF AnswersInOrder
  <2>2. TypeOK'
    BY <1>7, <1>t, <2>1 DEF Skip, Inv, TypeOK, Settled, vars
  <2>3. EveryCallAnswered'
    BY <1>7, <1>t, <2>1 DEF Skip, Inv, Shape, Unanswered, EveryCallAnswered, TypeOK, vars
  <2>4. Shape'
    BY <1>7, <1>t, <2>1 DEF Skip, Inv, Shape, Unanswered, Parallel, TypeOK, vars
  <2>5. Bodies'
    BY <1>7, <1>t, <2>1 DEF Skip, Inv, Shape, Bodies, TypeOK, vars
  <2> QED BY <2>1, <2>2, <2>3, <2>4, <2>5 DEF Inv
<1>8. CASE LoopEnds
  <2>1. log' = log /\ AnswersInOrder'
    BY <1>8, <1>t DEF LoopEnds, AnswersInOrder, vars
  <2>2. TypeOK'
    BY <1>8, <1>t, <2>1 DEF LoopEnds, Inv, TypeOK, Settled, vars
  <2>3. EveryCallAnswered'
    BY <1>8, <1>t, <2>1, <1>e DEF LoopEnds, Inv, Shape, Unanswered, EveryCallAnswered, TypeOK, vars
  <2>4. Shape'
    BY <1>8, <1>t, <2>1, <1>e DEF LoopEnds, Inv, Shape, Unanswered, Parallel, TypeOK, vars
  <2>5. Bodies'
    BY <1>8, <1>t, <2>1 DEF LoopEnds, Inv, Shape, Bodies, TypeOK, vars
  <2> QED BY <2>1, <2>2, <2>3, <2>4, <2>5 DEF Inv
<1>9. CASE Flush
  <2>1. log' = log /\ AnswersInOrder'
    BY <1>9, <1>t DEF Flush, AnswersInOrder, vars
  <2>2. TypeOK'
    BY <1>9, <1>t, <2>1 DEF Flush, Inv, TypeOK, Settled, vars
  <2>3. EveryCallAnswered'
    BY <1>9, <1>t, <2>1 DEF Flush, Inv, Shape, Unanswered, EveryCallAnswered, TypeOK, vars
  <2>4. Shape'
    BY <1>9, <1>t, <2>1 DEF Flush, Inv, Shape, Unanswered, Parallel, TypeOK, vars
  <2>5. Bodies'
    BY <1>9, <1>t, <2>1 DEF Flush, Inv, Shape, Bodies, TypeOK, vars
  <2> QED BY <2>1, <2>2, <2>3, <2>4, <2>5 DEF Inv
<1>10. CASE Prepare
  <2>1. log' = log /\ AnswersInOrder'
    BY <1>10, <1>t DEF Prepare, AnswersInOrder, vars
  <2>2. TypeOK'
    BY <1>10, <1>t, <2>1 DEF Prepare, Inv, TypeOK, Settled, vars
  <2>3. EveryCallAnswered'
    BY <1>10, <1>t, <2>1 DEF Prepare, Inv, Shape, Unanswered, EveryCallAnswered, TypeOK, vars
  <2>4. Shape'
    BY <1>10, <1>t, <2>1 DEF Prepare, Inv, Shape, Unanswered, Parallel, TypeOK, vars
  <2>5. Bodies'
    BY <1>10, <1>t, <2>1 DEF Prepare, Inv, Shape, Bodies, TypeOK, vars
  <2> QED BY <2>1, <2>2, <2>3, <2>4, <2>5 DEF Inv
<1>11. CASE Gather
  <2>1. log' = log /\ AnswersInOrder'
    BY <1>11, <1>t DEF Gather, AnswersInOrder, vars
  <2>2. TypeOK'
    BY <1>11, <1>t, <2>1 DEF Gather, Inv, TypeOK, Settled, vars
  <2>3. EveryCallAnswered'
    BY <1>11, <1>t, <2>1 DEF Gather, Inv, Shape, Unanswered, EveryCallAnswered, TypeOK, vars
  <2>4. Shape'
    BY <1>11, <1>t, <2>1 DEF Gather, Inv, Shape, Unanswered, Parallel, TypeOK, vars
  <2>5. Bodies'
    BY <1>11, <1>t, <2>1 DEF Gather, Inv, Shape, Bodies, TypeOK, vars
  <2> QED BY <2>1, <2>2, <2>3, <2>4, <2>5 DEF Inv
<1>12. CASE LeaveGroup
  <2>1. log' = log /\ AnswersInOrder'
    BY <1>12, <1>t DEF LeaveGroup, AnswersInOrder, vars
  <2>2. TypeOK'
    BY <1>12, <1>t, <2>1 DEF LeaveGroup, Inv, TypeOK, Settled, vars, Shape
  <2>3. EveryCallAnswered'
    BY <1>12, <1>t, <2>1 DEF LeaveGroup, Inv, Shape, Unanswered, EveryCallAnswered, TypeOK, vars
  <2>4. Shape'
    BY <1>12, <1>t, <2>1 DEF LeaveGroup, Inv, Shape, Unanswered, Parallel, TypeOK, vars
  <2>5. Bodies'
    BY <1>12, <1>t, <2>1 DEF LeaveGroup, Inv, Shape, Bodies, TypeOK, vars, InFlight
  <2> QED BY <2>1, <2>2, <2>3, <2>4, <2>5 DEF Inv
<1>13. CASE FinishGroup
  <2>1. log' = log /\ AnswersInOrder'
    BY <1>13, <1>t DEF FinishGroup, AnswersInOrder, vars
  <2>2. TypeOK'
    BY <1>13, <1>t, <2>1 DEF FinishGroup, Inv, TypeOK, Settled, vars
  <2>3. EveryCallAnswered'
    BY <1>13, <1>t, <2>1 DEF FinishGroup, Inv, Shape, Unanswered, EveryCallAnswered, TypeOK, vars
  <2>4. Shape'
    BY <1>13, <1>t, <2>1 DEF FinishGroup, Inv, Shape, Unanswered, Parallel, TypeOK, vars
  <2>5. Bodies'
    BY <1>13, <1>t, <2>1 DEF FinishGroup, Inv, Shape, Bodies, TypeOK, vars, InFlight
  <2> QED BY <2>1, <2>2, <2>3, <2>4, <2>5 DEF Inv
<1>14. CASE Publish
  <2>0. \/ log' = log
        \/ log' = Append(log, Len(log) + 1) /\ Len(log) + 1 \in Calls
    BY <1>14, <1>t, <1>e, LeftmostOfInterval DEF Publish, Inv, TypeOK, Shape, Unanswered
  <2>1. /\ log' \in Seq(Calls) /\ AnswersInOrder' /\ Len(log') \in Nat
        /\ log' = log \/ Len(log') = Len(log) + 1
    BY <2>0, <1>t, AppendNext DEF AnswersInOrder
  <2>2. TypeOK'
    BY <1>14, <1>t, <2>1 DEF Publish, Inv, TypeOK, Settled, vars
  <2>3. EveryCallAnswered'
    BY <1>14, <1>t, <2>1 DEF Publish, Inv, Shape, Unanswered, EveryCallAnswered, TypeOK, vars
  <2>a. Len(log) + 1 < pos /\ group = (Len(log) + 1)..(pos - 1) /\ pending = {}
    BY <1>14 DEF Publish, Inv, Shape, Unanswered
  <2>b. Leftmost(group) = Len(log) + 1
    BY <2>a, <1>t, LeftmostOfInterval
  <2>c. group' = (Len(log) + 2)..(pos - 1) /\ Len(log') = Len(log) + 1
    BY <2>a, <2>b, <1>14, <1>t DEF Publish
  <2>d. group' = {} <=> pos = Len(log) + 2
    <3>1. Len(log) + 2 \in Int /\ pos - 1 \in Int BY <1>t
    <3>2. (Len(log) + 2)..(pos - 1) = {} <=> pos - 1 < Len(log) + 2 BY <3>1, EmptyInterval
    <3> QED BY <2>a, <2>c, <3>2, <1>t
  <2>e. /\ Unanswered' = group' /\ pending' = {} /\ pos' = pos
        /\ ctl' = IF group' = {} THEN "next" ELSE "publish"
    BY <2>a, <2>c, <1>14, <1>t DEF Publish, Unanswered
  <2>f. \A i \in group' : Parallel(i)'
    BY <1>14 DEF Publish, Inv, Shape, Parallel
  <2>g. pos - 1 - Len(log) <= max_parallel
    BY DEF Inv, Shape
  <2>4. Shape'
    BY <2>a, <2>c, <2>d, <2>e, <2>f, <2>g, <1>t DEF Shape
  <2>5. Bodies'
    BY <1>14, <1>t, <2>1 DEF Publish, Inv, Shape, Bodies, TypeOK, vars
  <2> QED BY <2>1, <2>2, <2>3, <2>4, <2>5 DEF Inv
<1>15. CASE Interrupted
  <2>1. log' = log /\ AnswersInOrder'
    BY <1>15, <1>t DEF Interrupted, AnswersInOrder, vars
  <2>2. TypeOK'
    BY <1>15, <1>t, <2>1 DEF Interrupted, Inv, TypeOK, Settled, vars
  <2>3. EveryCallAnswered'
    BY <1>15, <1>t, <2>1 DEF Interrupted, Inv, Shape, Unanswered, EveryCallAnswered, TypeOK, vars
  <2>4. Shape'
    BY <1>15, <1>t, <2>1 DEF Interrupted, Inv, Shape, Unanswered, Parallel, TypeOK, vars
  <2>a. \A i \in Calls : ctl # "gather" /\ st[i] \in { "scheduled", "running" } =>
          ctl = "serial" /\ i = pos
    BY <1>15 DEF Interrupted, Inv, Bodies
  <2>b. \A i \in Calls : st[i] = "scheduled" => ctl = "gather"
    BY <1>15 DEF Interrupted, Inv, Bodies
  <2>5. Bodies'
    BY <1>15, <1>t, <2>1, <2>a, <2>b DEF Interrupted, Inv, Shape, Bodies, TypeOK, vars
  <2> QED BY <2>1, <2>2, <2>3, <2>4, <2>5 DEF Inv
<1>16. CASE PublishRaises
  <2>1. log' = log /\ AnswersInOrder'
    BY <1>16, <1>t DEF PublishRaises, AnswersInOrder, vars
  <2>2. TypeOK'
    BY <1>16, <1>t, <2>1 DEF PublishRaises, Inv, TypeOK, Settled, vars
  <2>3. EveryCallAnswered'
    BY <1>16, <1>t, <2>1 DEF PublishRaises, Inv, Shape, Unanswered, EveryCallAnswered, TypeOK, vars
  <2>4. Shape'
    BY <1>16, <1>t, <2>1 DEF PublishRaises, Inv, Shape, Unanswered, Parallel, TypeOK, vars
  <2>5. Bodies'
    BY <1>16, <1>t, <2>1 DEF PublishRaises, Inv, Shape, Bodies, TypeOK, vars
  <2> QED BY <2>1, <2>2, <2>3, <2>4, <2>5 DEF Inv
<1>17. CASE Cancel
  <2>1. log' = log /\ AnswersInOrder'
    BY <1>17, <1>t DEF Cancel, AnswersInOrder, vars
  <2>2. TypeOK'
    BY <1>17, <1>t, <2>1 DEF Cancel, Inv, TypeOK, Settled, vars
  <2>3. EveryCallAnswered'
    BY <1>17, <1>t, <2>1 DEF Cancel, Inv, Shape, Unanswered, EveryCallAnswered, TypeOK, vars
  <2>4. Shape'
    BY <1>17, <1>t, <2>1 DEF Cancel, Inv, Shape, Unanswered, Parallel, TypeOK, vars
  <2>5. Bodies'
    BY <1>17, <1>t, <2>1 DEF Cancel, Inv, Shape, Bodies, TypeOK, vars
  <2> QED BY <2>1, <2>2, <2>3, <2>4, <2>5 DEF Inv
<1>18. CASE \E i \in Calls : Body(i)
  <2>1. log' = log /\ AnswersInOrder'
    BY <1>18, <1>t DEF Body, AnswersInOrder, vars
  <2>2. TypeOK'
    BY <1>18, <1>t, <2>1 DEF Body, Inv, TypeOK, Settled, vars
  <2>3. EveryCallAnswered'
    BY <1>18, <1>t, <2>1 DEF Body, Inv, Shape, Unanswered, EveryCallAnswered, TypeOK, vars
  <2>4. Shape'
    BY <1>18, <1>t, <2>1 DEF Body, Inv, Shape, Unanswered, Parallel, TypeOK, vars
  <2>5. Bodies'
    BY <1>18, <1>t, <2>1 DEF Body, Inv, Shape, Bodies, TypeOK, vars
  <2> QED BY <2>1, <2>2, <2>3, <2>4, <2>5 DEF Inv
<1>19. CASE \E i \in Calls : Return(i)
  <2>1. log' = log /\ AnswersInOrder'
    BY <1>19, <1>t DEF Return, AnswersInOrder, vars
  <2>2. TypeOK'
    BY <1>19, <1>t, <2>1 DEF Return, Inv, TypeOK, Settled, vars
  <2>3. EveryCallAnswered'
    BY <1>19, <1>t, <2>1 DEF Return, Inv, Shape, Unanswered, EveryCallAnswered, TypeOK, vars
  <2>4. Shape'
    BY <1>19, <1>t, <2>1 DEF Return, Inv, Shape, Unanswered, Parallel, TypeOK, vars
  <2>5. Bodies'
    BY <1>19, <1>t, <2>1 DEF Return, Inv, Shape, Bodies, TypeOK, vars
  <2> QED BY <2>1, <2>2, <2>3, <2>4, <2>5 DEF Inv
<1>20. CASE \E i \in Calls : Settle(i)
  <2>1. log' = log /\ AnswersInOrder'
    BY <1>20, <1>t DEF Settle, AnswersInOrder, vars
  <2>2. TypeOK'
    BY <1>20, <1>t, <2>1 DEF Settle, Inv, TypeOK, Settled, vars
  <2>3. EveryCallAnswered'
    BY <1>20, <1>t, <2>1 DEF Settle, Inv, Shape, Unanswered, EveryCallAnswered, TypeOK, vars
  <2>4. Shape'
    BY <1>20, <1>t, <2>1 DEF Settle, Inv, Shape, Unanswered, Parallel, TypeOK, vars
  <2>5. Bodies'
    BY <1>20, <1>t, <2>1 DEF Settle, Inv, Shape, Bodies, TypeOK, vars
  <2> QED BY <2>1, <2>2, <2>3, <2>4, <2>5 DEF Inv
<1>21. CASE UNCHANGED vars
  <2>1. log' = log /\ AnswersInOrder'
    BY <1>21, <1>t DEF vars, AnswersInOrder
  <2>2. TypeOK'
    BY <1>21, <1>t, <2>1 DEF Inv, TypeOK, Settled, vars
  <2>3. EveryCallAnswered'
    BY <1>21, <1>t, <2>1 DEF Inv, Shape, Unanswered, EveryCallAnswered, TypeOK, vars
  <2>4. Shape'
    BY <1>21, <1>t, <2>1 DEF Inv, Shape, Unanswered, Parallel, TypeOK, vars
  <2>5. Bodies'
    BY <1>21, <1>t, <2>1 DEF Inv, Shape, Bodies, TypeOK, vars
  <2> QED BY <2>1, <2>2, <2>3, <2>4, <2>5 DEF Inv
<1> QED BY <1>1, <1>2, <1>3, <1>4, <1>5, <1>6, <1>7, <1>8, <1>9, <1>10, <1>11, <1>12, <1>13, <1>14, <1>15, <1>16, <1>17, <1>18, <1>19, <1>20, <1>21 DEF Next, Step

(* The shape of a reply in progress, at every step of _execute_tools.      *)
THEOREM InvHolds == Spec => []Inv
BY InitInv, StepInv, PTL DEF Spec

(* Type correctness of the loop's state, for any number of calls.          *)
THEOREM TypeCorrect == Spec => []TypeOK
<1>1. Inv => TypeOK BY DEF Inv
<1> QED BY <1>1, InvHolds, PTL

(* publish: observations reach the model in the order of its calls, once   *)
(* each, however the bodies of a parallel group interleave.                *)
THEOREM OrderHolds == Spec => []AnswersInOrder
<1>1. Inv => AnswersInOrder BY DEF Inv
<1> QED BY <1>1, InvHolds, PTL

(* A reply closes normally only with an observation for every call.        *)
THEOREM AllAnswered == Spec => []EveryCallAnswered
<1>1. Inv => EveryCallAnswered BY DEF Inv
<1> QED BY <1>1, InvHolds, PTL

(* The barrier before a serial Tool: nothing overlaps it.                  *)
THEOREM SerialAlone == Spec => []SerialRunsAlone
<1>1. Inv => SerialRunsAlone
  <2> SUFFICES ASSUME Inv, NEW i \in Calls, st[i] = "running", ~ Parallel(i)
               PROVE  InFlight = { i } /\ Len(log) = i - 1
    BY DEF SerialRunsAlone
  <2>1. ctl = "serial" /\ i = pos
    BY DEF Inv, Bodies, Shape
  <2>2. InFlight = { i }
    BY <2>1 DEF Inv, Bodies, InFlight
  <2>3. Len(log) = i - 1
    BY <2>1 DEF Inv, Shape, TypeOK
  <2> QED BY <2>2, <2>3
<1> QED BY <1>1, InvHolds, PTL

(* Groups are bounded and settle inside ACTING, failed and cancelled ones  *)
(* included.                                                               *)
THEOREM BodiesContained == Spec => []BodiesInsideActing
<1>1. Inv => BodiesInsideActing
  <2> SUFFICES ASSUME Inv, InFlight # {}
               PROVE  exec = "acting" /\ ctl \notin Closed /\ Cardinality(InFlight) <= max_parallel
    BY DEF BodiesInsideActing
  <2>t. Len(log) \in Nat /\ pos \in Int BY DEF Inv, TypeOK
  <2>1. PICK i \in Calls : st[i] \in { "scheduled", "running" }
    BY DEF InFlight
  <2>2. exec = "acting" /\ ctl \in { "gather", "settle", "serial" }
    BY <2>1 DEF Inv, Bodies
  <2>3. ASSUME ctl = "serial" PROVE Cardinality(InFlight) <= max_parallel
    <3>1. InFlight \subseteq { pos } BY <2>3 DEF Inv, Bodies, InFlight
    <3>2. InFlight = { pos } BY <3>1
    <3>3. Cardinality(InFlight) = 1 BY <3>2, FS_Singleton
    <3> QED BY <3>3, ParallelAssumption
  <2>4. ASSUME ctl # "serial" PROVE Cardinality(InFlight) <= max_parallel
    <3>1. InFlight \subseteq Unanswered BY <2>2, <2>4 DEF Inv, Bodies, Shape, InFlight, Flushing
    <3>2. Len(log) + 1 <= pos - 1
      <4>1. PICK j \in InFlight : TRUE OBVIOUS
      <4>2. j \in (Len(log) + 1)..(pos - 1) BY <3>1, <4>1 DEF Unanswered
      <4> QED BY <4>2, <2>t
    <3>3. Len(log) + 1 \in Int /\ pos - 1 \in Int BY <2>t
    <3>4. IsFiniteSet(Unanswered) /\ Cardinality(Unanswered) = (pos - 1) - (Len(log) + 1) + 1
      BY <3>2, <3>3, FS_Interval DEF Unanswered
    <3>5. Cardinality(InFlight) <= Cardinality(Unanswered) /\ Cardinality(InFlight) \in Nat
      BY <3>1, <3>4, FS_Subset, FS_CardinalityType
    <3>6. pos - 1 - Len(log) <= max_parallel BY DEF Inv, Shape
    <3> QED BY <3>4, <3>5, <3>6, <2>t, ParallelAssumption
  <2> QED BY <2>2, <2>3, <2>4 DEF Closed
<1> QED BY <1>1, InvHolds, PTL

(* The three together, as the run checks them: order, barrier and group.   *)
THEOREM Disciplined == Spec => []BodiesDisciplined
<1>1. AnswersInOrder /\ SerialRunsAlone /\ BodiesInsideActing => BodiesDisciplined
  BY DEF BodiesDisciplined
<1> QED BY <1>1, OrderHolds, SerialAlone, BodiesContained, PTL

-----------------------------------------------------------------------------
(* A step of the executor is a step of the promise, or leaves it alone. *)
LEMMA StepRefines ==
  Inv /\ Inv' /\ [Next]_vars => [Promise!Next]_<< Len(log), View >>
<1> SUFFICES ASSUME Inv, Inv', [Next]_vars
             PROVE  [Promise!Next]_<< Len(log), View >>
  OBVIOUS
<1> USE DEF Promise!Next, Promise!Answer, Promise!Finish, Promise!Abort, View, Closed, At
<1>t. /\ log \in Seq(Calls) /\ log' \in Seq(Calls) /\ Len(log) \in Nat
      /\ pos \in Int /\ pos <= N + 1 /\ pos' <= N + 1 /\ pos' \in Int
      /\ Len(log') < pos' /\ Len(log') \in Nat
  BY CallsAssumption DEF Inv, TypeOK, Shape
<1>n. N \in Nat /\ Len(log') <= N BY <1>t, CallsAssumption
<1>1. CASE Answer \/ Publish
  <2>1. Len(log') = Len(log) + 1 BY <1>1, <1>t DEF Answer, Publish
  <2>2. View = "open" /\ View' = "open" BY <1>1 DEF Answer, Publish
  <2> QED BY <2>1, <2>2, <1>t, <1>n
<1>2. CASE RequestError
  <2>1. CASE kind[pos] = "bad"
    <3>1. Len(log') = Len(log) + 1 BY <1>2, <2>1, <1>t DEF RequestError
    <3>2. View = "open" /\ View' = "open" BY <1>2, <2>1 DEF RequestError
    <3> QED BY <3>1, <3>2, <1>t, <1>n
  <2>2. CASE kind[pos] # "bad" BY <1>2, <2>2 DEF RequestError
  <2> QED BY <2>1, <2>2
<1>3. CASE Skip
  <2>1. CASE pos \in Calls
    <3>1. Len(log') = Len(log) + 1 BY <1>3, <2>1, <1>t DEF Skip
    <3>2. View = "open" /\ View' = "open" BY <1>3, <2>1 DEF Skip
    <3> QED BY <3>1, <3>2, <1>t, <1>n
  <2>2. CASE pos \notin Calls
    <3>1. Len(log) = N BY <1>3, <2>2 DEF Skip, Inv, EveryCallAnswered
    <3> QED BY <1>3, <2>2, <3>1 DEF Skip
  <2> QED BY <2>1, <2>2
<1>4. CASE LoopEnds
  <2>1. Len(log) = N BY <1>4 DEF LoopEnds, Inv, EveryCallAnswered
  <2> QED BY <1>4, <2>1 DEF LoopEnds
<1>5. CASE Collect \/ Barrier \/ StartSerial \/ FinishSerial \/ Flush \/ Prepare \/ Gather \/ FinishGroup
  BY <1>5 DEF Collect, Barrier, StartSerial, FinishSerial, Flush, Prepare, Gather, FinishGroup
<1>6. CASE LeaveGroup
  <2>1. why \in { "raised", "cancelled" } BY <1>6 DEF LeaveGroup, Inv, Shape, TypeOK
  <2> QED BY <1>6, <2>1 DEF LeaveGroup
<1>7. CASE Interrupted \/ PublishRaises \/ Cancel
  BY <1>7 DEF Interrupted, PublishRaises, Cancel
<1>8. CASE \E i \in Calls : Body(i) \/ Return(i) \/ Settle(i)
  BY <1>8 DEF Body, Return, Settle
<1>9. CASE UNCHANGED vars BY <1>9 DEF vars
<1> QED BY <1>1, <1>2, <1>3, <1>4, <1>5, <1>6, <1>7, <1>8, <1>9 DEF Next, Step

(* The streaming executor implements OrderedAnswers, whatever the number   *)
(* of calls and the parallelism.                                           *)
THEOREM PromiseKept == Spec => KeepsPromise
<1>1. Init => Promise!Init BY DEF Init, Promise!Init, View
<1>2. Inv /\ Inv' /\ [Next]_vars => [Promise!Next]_<< Len(log), View >>
  BY StepRefines
<1> QED BY <1>1, <1>2, InvHolds, PTL DEF Spec, KeepsPromise, Promise!Spec

-----------------------------------------------------------------------------
(* Harness: the inductive invariant. *)

HrCommits == Tasks \cup ({"user"} \X Nat)
HrPcs == {"none", "queued", "open", "coding", "check", "merge", "verify", "merged",
          "granted", "done", "returned"}
HrResults ==
    {"none", "merged", "unknown", "raised", "deferred", "confirmed_failed", "dirty_worktree",
     "no_code_changes", "tests_failed", "coding_runtime_failed",
     "requires_broader_source_change", "blocked_main_changed", "blocked_local_changes"}
HrTaskRecords == [pc : HrPcs, base : Nat, try : Nat, res : HrResults]
HrAudits == [open : BOOLEAN, intent : BOOLEAN, committed : BOOLEAN, base : Nat, branch : BOOLEAN]
HrSessions ==
    [status : {"none", "active", "unverified", "main_changed"}, base : Nat, turns : 0 .. MaxTurns]
HrRows ==
    [status : Outcomes \cup {"absent", "discovered", "no_changes", "running",
                             "restart_wait_timeout"},
     gen : 0 .. MaxGenerations, active : 0 .. MaxGenerations, rev : Nat, res : HrResults]
HrTicks ==
    [at : {"idle", "start", "run", "create", "attempt", "record", "finish", "end"},
     rev : Nat, blocked : BOOLEAN]

HrEngineTyped ==
    /\ hist \in Seq(HrCommits) /\ Len(hist) > 0 /\ userSteps \in Nat
    /\ task \in [Tasks -> HrTaskRecords] /\ inv \in [Tasks -> HrAudits]
    /\ cap \in [op : {"none", "running", "unknown", "completed", "not_applied"}, res : HrResults]
    /\ proposal \in HrResults \cup {"proposed", "confirmed", "rejected", "running"}
    /\ evoUp \in BOOLEAN
HrDreamTyped ==
    /\ row \in HrRows /\ tick \in HrTicks
    /\ dreamRun \in [Gens -> {"none", "running", "recovery", "terminal"}]
    /\ dreamOp \in [Gens -> [status : {"none", "prepared", "running", "completed", "unknown",
                                       "failed"}, res : HrResults]]
    /\ verdict \in [gen : 0 .. MaxGenerations,
                    status : {"none", "COMPLETED", "NOT_APPLIED", "UNKNOWN"}]
HrCodeTyped ==
    /\ session \in HrSessions /\ stray \in HrSessions /\ begun \in BOOLEAN
    /\ intents \in [1 .. MaxTurns -> {"none", "pending", "committed", "recovery_required"}]

\* No commit is in the history twice; the user's are numbered.
HrHistory ==
    /\ \A i, j \in DOMAIN hist : hist[i] = hist[j] => i = j
    /\ \A k \in Nat : Merged(<<"user", k>>) => k <= userSteps

\* What the place of an engine call says of its commit, which is merged (m) or not,
\* and of its audit a, in a history of n commits.
HrBefore == {"queued", "open", "coding", "check", "merge"}
HrAfter == {"verify", "merged", "granted"}
HrPlace(e, m) == (e.pc \in HrAfter => m) /\ (e.pc = "done" /\ e.res = "merged" => m)
HrFresh(e, m) ==
    /\ e.pc \in HrBefore => ~m
    /\ e.pc = "done" /\ e.res \notin {"merged", "unknown", "raised"} => ~m
HrAudited(e, a, m, n) ==
    /\ e.pc \in {"coding", "check", "merge"} => a.open
    /\ e.pc = "merge" => a.intent /\ a.base = e.base
    /\ m => a.open /\ a.intent /\ a.base < n
HrKnown(t, e, a, m, n) ==
    /\ HrPlace(e, m)
    /\ t[1] # "manual" => HrFresh(e, m)
    /\ t[1] \in {"dream", "capability"} => HrAudited(e, a, m, n)
HrEngine == \A t \in Tasks : HrKnown(t, task[t], inv[t], Merged(t), Len(hist))

\* The Operation of harness_capability.
HrCapability ==
    /\ task[Cap].pc # "none" => cap.op = "running"
    /\ cap.op \in {"none", "not_applied"} => ~Merged(Cap)
    /\ cap.op = "completed" /\ cap.res = "merged" => Merged(Cap)

\* The ERROR proposal: until it runs, nothing of it was merged.
HrErrors == {<<"error", 1>>, <<"error", 2>>}
HrError ==
    /\ proposal \in {"proposed", "confirmed"} =>
            \A t \in HrErrors : task[t].pc \in {"none", "queued"} /\ ~Merged(t)
    /\ proposal = "proposed" => \A t \in HrErrors : task[t].pc = "none"
    /\ proposal = "merged" => \E t \in HrErrors : Merged(t)

\* The one coding session, and the branch a death left of it: its turns are merged only
\* into the history it began with.
HrManualMerged == \E n \in 1 .. MaxTurns : Merged(Manual(n))
HrBehind(s) ==
    s.status # "none" => s.base <= Len(hist) /\ (HrManualMerged => s.base < Len(hist))
HrCode ==
    /\ ~begun => session.status = "none" /\ stray.status = "none" /\ ~HrManualMerged
    /\ HrBehind(session) /\ HrBehind(stray)
    /\ stray.turns > 0 => stray.status # "none"
    /\ \A n \in 1 .. MaxTurns :
        /\ task[Manual(n)].pc \notin {"queued", "open", "coding", "returned"}
        /\ task[Manual(n)].pc # "none" =>
            /\ session.status # "none" /\ task[Manual(n)].base = session.base
            /\ \A m \in 1 .. MaxTurns : task[Manual(m)].pc # "none" => m = n
        /\ intents[n] = "committed" => Merged(Manual(n))

\* The Dream: its engine call, Operation and Run are those of the generation in the row.
HrWorking == {"run", "create", "attempt", "record", "finish"}
HrGenerations ==
    \A g \in Gens :
        /\ task[Dream(g)].pc \notin {"none", "done"} => g = row.gen /\ tick.at = "record"
        /\ Merged(Dream(g)) => g = row.gen /\ dreamOp[g].status \notin {"none", "prepared"}
        /\ g > row.gen => dreamRun[g] = "none"
        /\ dreamRun[g] = "none" => dreamOp[g].status = "none"
        /\ dreamOp[g].status = "completed" /\ dreamOp[g].res = "merged" => Merged(Dream(g))
HrTick ==
    /\ tick.at \in HrWorking => row.status = "running"
    /\ evoUp /\ row.status = "running" => tick.at \in HrWorking
    /\ tick.at = "run" => dreamRun[row.gen] = "none"
    /\ tick.at = "create" => dreamRun[row.gen] # "none" /\ dreamOp[row.gen].status = "none"
    /\ tick.at = "attempt" => dreamOp[row.gen].status = "prepared"
    /\ tick.at = "record" => dreamOp[row.gen].status = "running"
    /\ tick.at = "finish" => task[Dream(row.gen)].pc = "done"
    /\ tick.at = "start" => tick.rev <= row.rev
    /\ tick.at = "start" /\ tick.rev = row.rev =>
            row.status \in {"discovered", "deferred", "failed", "blocked"}
HrRow ==
    /\ row.active = IF row.status \in {"running", "unknown"} THEN row.gen ELSE 0
    /\ row.gen = 0 => row.status \in {"absent", "discovered", "no_changes"}
    /\ row.status = "absent" => row.gen = 0
    /\ row.status \in {"success", "restart_wait_timeout"} =>
            (row.res = "merged" <=> Merged(Dream(row.gen)))
    /\ row.status \in {"discovered", "failed", "deferred", "blocked"} =>
            row.gen = 0 \/ ~Merged(Dream(row.gen))
    /\ restart = "waiting" => row.status = "success" /\ row.res = "merged"
    /\ verdict.gen # 0 =>
            /\ row.status = "unknown" /\ verdict.gen = row.gen
            /\ verdict.status \in {"COMPLETED", "NOT_APPLIED"}
            /\ verdict.status = "COMPLETED" <=> Merged(Dream(row.gen))
HrDream == HrGenerations /\ HrTick /\ HrRow

\* A death takes everything that is in memory.
HrDown ==
    ~evoUp => /\ \A t \in Tasks : task[t].pc = "none"
              /\ tick.at = "idle" /\ verdict.gen = 0

HrTyped == HrEngineTyped /\ HrDreamTyped /\ HrCodeTyped
HrInv ==
    /\ HrTyped /\ HrHistory /\ HrEngine /\ HrCapability /\ HrError
    /\ HrCode /\ HrDream /\ HrDown
-----------------------------------------------------------------------------
(* Harness: tasks, histories and the steps of one engine call. *)

\* A call is one of the Dream's, one of the coding session's, the Tool's or a proposal's.
LEMMA HrNames ==
  /\ Cap \in Tasks /\ Cap[1] = "capability" /\ InvOf(Cap) = Cap
  /\ \A g \in Gens : Dream(g) \in Tasks /\ Dream(g)[1] = "dream" /\ Dream(g) # Cap
                     /\ InvOf(Dream(g)) = Dream(g)
  /\ \A n \in 1 .. MaxTurns : Manual(n) \in Tasks /\ Manual(n)[1] = "manual" /\ Manual(n) # Cap
                              /\ InvOf(Manual(n)) = Manual(n)
  /\ \A t \in HrErrors : t \in Tasks /\ t[1] = "error" /\ t # Cap
  /\ \A g, h \in Gens : Dream(g) = Dream(h) => g = h
  /\ \A n, m \in 1 .. MaxTurns : Manual(n) = Manual(m) => n = m
  /\ \A t \in Tasks : \/ \E g \in Gens : t = Dream(g)
                      \/ \E n \in 1 .. MaxTurns : t = Manual(n)
                      \/ t = Cap \/ t \in HrErrors
  /\ \A t \in Tasks : t[1] # "user" /\ InvOf(t) \in Tasks /\ t \in HrCommits
  /\ \A t \in Tasks : t[1] \in {"dream", "manual", "capability", "error"}
  BY DEF Cap, Dream, Manual, Tasks, Gens, HrErrors, InvOf, HrCommits

\* The kind of a call names its owner.
LEMMA HrKinds ==
  ASSUME NEW t \in Tasks
  PROVE  /\ t[1] = "dream" => \E g \in Gens : t = Dream(g)
         /\ t[1] = "manual" => \E n \in 1 .. MaxTurns : t = Manual(n)
         /\ t[1] = "capability" => t = Cap
         /\ t[1] = "error" => t \in HrErrors
  BY HrNames

\* What a longer history contains.
LEMMA HrAppend ==
  ASSUME hist \in Seq(HrCommits), NEW s \in Seq(HrCommits), hist' = hist \o s
  PROVE  /\ hist' \in Seq(HrCommits) /\ Len(hist') = Len(hist) + Len(s)
         /\ \A x : Merged(x)' <=> Merged(x) \/ \E k \in DOMAIN s : s[k] = x
         /\ (\A i, j \in DOMAIN hist : hist[i] = hist[j] => i = j)
            /\ (\A i, j \in DOMAIN s : s[i] = s[j] => i = j)
            /\ (\A k \in DOMAIN s : ~Merged(s[k]))
              => \A i, j \in DOMAIN hist' : hist'[i] = hist'[j] => i = j
<1>1. /\ hist' \in Seq(HrCommits) /\ Len(hist') = Len(hist) + Len(s)
      /\ \A i \in 1 .. Len(hist) + Len(s) :
            hist'[i] = IF i <= Len(hist) THEN hist[i] ELSE s[i - Len(hist)]
  BY ConcatProperties
<1>2. /\ DOMAIN hist = 1 .. Len(hist) /\ DOMAIN s = 1 .. Len(s) /\ DOMAIN hist' = 1 .. Len(hist')
      /\ Len(hist) \in Nat /\ Len(s) \in Nat
  BY <1>1
<1>3. \A i \in DOMAIN hist : i \in DOMAIN hist' /\ hist'[i] = hist[i]
  BY <1>1, <1>2
<1>4. \A k \in DOMAIN s : k + Len(hist) \in DOMAIN hist' /\ hist'[k + Len(hist)] = s[k]
  BY <1>1, <1>2
<1>5. \A i \in DOMAIN hist' : \/ i \in DOMAIN hist /\ hist'[i] = hist[i]
                              \/ i - Len(hist) \in DOMAIN s /\ hist'[i] = s[i - Len(hist)]
  BY <1>1, <1>2
<1>6. ASSUME NEW x PROVE Merged(x)' <=> Merged(x) \/ \E k \in DOMAIN s : s[k] = x
  <2>1. Merged(x)' => Merged(x) \/ \E k \in DOMAIN s : s[k] = x
    <3>1. SUFFICES ASSUME NEW i \in DOMAIN hist', hist'[i] = x
                   PROVE  Merged(x) \/ \E k \in DOMAIN s : s[k] = x
      BY DEF Merged
    <3>2. CASE i \in DOMAIN hist /\ hist'[i] = hist[i]
      BY <3>1, <3>2 DEF Merged
    <3>3. CASE i - Len(hist) \in DOMAIN s /\ hist'[i] = s[i - Len(hist)]
      BY <3>1, <3>3
    <3> QED BY <1>5, <3>1, <3>2, <3>3
  <2>2. Merged(x) => Merged(x)'
    BY <1>3 DEF Merged
  <2>3. ASSUME NEW k \in DOMAIN s, s[k] = x PROVE Merged(x)'
    BY <1>4, <2>3 DEF Merged
  <2> QED BY <2>1, <2>2, <2>3
<1>7. ASSUME \A i, j \in DOMAIN hist : hist[i] = hist[j] => i = j,
             \A i, j \in DOMAIN s : s[i] = s[j] => i = j,
             \A k \in DOMAIN s : ~Merged(s[k]),
             NEW i \in DOMAIN hist', NEW j \in DOMAIN hist', hist'[i] = hist'[j]
      PROVE  i = j
  <2>1. CASE i \in DOMAIN hist /\ j \in DOMAIN hist
    BY <1>3, <1>7, <2>1
  <2>2. CASE i \notin DOMAIN hist /\ j \notin DOMAIN hist
    <3>1. /\ i - Len(hist) \in DOMAIN s /\ hist'[i] = s[i - Len(hist)]
          /\ j - Len(hist) \in DOMAIN s /\ hist'[j] = s[j - Len(hist)]
      BY <1>5, <2>2
    <3>2. i - Len(hist) = j - Len(hist)
      BY <3>1, <1>7
    <3>3. i \in Int /\ j \in Int
      BY <1>2
    <3> QED BY <3>2, <3>3, <1>2
  <2>3. CASE i \in DOMAIN hist /\ j \notin DOMAIN hist
    BY <1>3, <1>5, <1>7, <2>3 DEF Merged
  <2>4. CASE i \notin DOMAIN hist /\ j \in DOMAIN hist
    BY <1>3, <1>5, <1>7, <2>4 DEF Merged
  <2> QED BY <2>1, <2>2, <2>3, <2>4
<1> QED BY <1>1, <1>6, <1>7

\* Everything but the engine's call, its audit and the history.
HrRest == <<cap, proposal, evoUp, userSteps, dreamVars, codeVars>>

\* A place of a call that has begun and is not over.
HrUnderWay == {"open", "coding", "check", "merge", "verify", "merged"}

\* A step of one engine call that does not touch the history.
HrMoves(t, e, a) ==
    /\ t \in Tasks /\ task[t].pc \in HrUnderWay
    /\ e \in HrTaskRecords /\ a \in HrAudits
    /\ e.pc \in HrUnderWay \cup {"done"}
    /\ t[1] = "manual" => e.base = task[t].base /\ e.pc \notin {"open", "coding"}
    /\ task' = [task EXCEPT ![t] = e] /\ inv' = [inv EXCEPT ![InvOf(t)] = a]
    /\ UNCHANGED <<hist, HrRest>>
LEMMA HrMoveTyped ==
  ASSUME HrInv, NEW t, NEW e, NEW a, HrMoves(t, e, a)
  PROVE  /\ HrTyped' /\ HrHistory' /\ HrDown'
         /\ task'[t] = e /\ \A u \in Tasks \ {t} : task'[u] = task[u]
         /\ inv'[InvOf(t)] = a /\ \A u \in Tasks \ {InvOf(t)} : inv'[u] = inv[u]
         /\ \A x : Merged(x)' <=> Merged(x)
<1>0. /\ HrTyped /\ HrHistory /\ HrDown /\ t \in Tasks /\ e \in HrTaskRecords /\ a \in HrAudits
      /\ task' = [task EXCEPT ![t] = e] /\ inv' = [inv EXCEPT ![InvOf(t)] = a]
      /\ UNCHANGED <<hist, HrRest>> /\ InvOf(t) \in Tasks /\ task[t].pc # "none"
  BY HrNames DEF HrInv, HrMoves, HrUnderWay
<1>1. HrEngineTyped'
  BY <1>0 DEF HrTyped, HrEngineTyped, HrRest
<1>2. HrDreamTyped' /\ HrCodeTyped'
  BY <1>0 DEF HrTyped, HrDreamTyped, HrCodeTyped, HrRest, dreamVars, codeVars
<1>3. HrHistory'
  BY <1>0 DEF HrHistory, Merged, HrRest
<1>4. evoUp' /\ HrDown'
  BY <1>0 DEF HrDown, HrRest
<1>5. \A x : Merged(x)' <=> Merged(x)
  BY <1>0 DEF Merged
<1> QED BY <1>0, <1>1, <1>2, <1>3, <1>4, <1>5 DEF HrTyped, HrEngineTyped

\* It keeps the invariant when what its new place says of its commit holds.
LEMMA HrMove ==
  ASSUME HrInv, NEW t, NEW e, NEW a, HrMoves(t, e, a), HrKnown(t, e, a, Merged(t), Len(hist))
  PROVE  HrInv'
<1>0. /\ HrEngine /\ HrCapability /\ HrError /\ HrCode /\ HrDream /\ t \in Tasks
      /\ task[t].pc \in HrUnderWay /\ e.pc \in HrUnderWay \cup {"done"}
      /\ t[1] = "manual" => e.base = task[t].base /\ e.pc \notin {"open", "coding"}
      /\ UNCHANGED <<hist, HrRest>>
  BY DEF HrInv, HrMoves
<1>1. /\ HrTyped' /\ HrHistory' /\ HrDown'
      /\ task'[t] = e /\ \A u \in Tasks \ {t} : task'[u] = task[u]
      /\ inv'[InvOf(t)] = a /\ \A u \in Tasks \ {InvOf(t)} : inv'[u] = inv[u]
      /\ \A x : Merged(x)' <=> Merged(x)
  BY HrMoveTyped
<1>2. HrEngine'
  <2>1. ASSUME NEW u \in Tasks
        PROVE  HrKnown(u, task'[u], inv'[u], Merged(u)', Len(hist)')
    <3>1. CASE u = t
      <4>1. t[1] \in {"dream", "capability"} => InvOf(t) = t
        BY DEF InvOf
      <4>2. t[1] \in {"dream", "capability"} => inv'[t] = a
        BY <4>1, <1>1
      <4>3. Merged(u)' = Merged(t) /\ Len(hist)' = Len(hist)
        BY <1>0, <3>1 DEF Merged
      <4> QED BY <3>1, <4>2, <4>3, <1>1 DEF HrKnown
    <3>2. CASE u # t
      <4>1. u[1] \in {"dream", "capability"} => InvOf(t) # u
        BY <3>2 DEF InvOf
      <4>2. u[1] \in {"dream", "capability"} => inv'[u] = inv[u]
        BY <4>1, <1>1
      <4>3. Merged(u)' = Merged(u) /\ Len(hist)' = Len(hist)
        BY <1>0 DEF Merged
      <4>4. HrKnown(u, task[u], inv[u], Merged(u), Len(hist))
        BY <1>0 DEF HrEngine
      <4> QED BY <3>2, <4>2, <4>3, <4>4, <1>1 DEF HrKnown
    <3> QED BY <3>1, <3>2
  <2> QED BY <2>1 DEF HrEngine
<1>3. HrCapability'
  <2>1. task'[Cap].pc # "none" => task[Cap].pc # "none"
    BY <1>0, <1>1, HrNames DEF HrUnderWay
  <2> QED BY <1>0, <1>1, <2>1 DEF HrCapability, HrRest
<1>4. HrError'
  <2>1. ASSUME NEW u \in HrErrors
        PROVE  task'[u].pc \in {"none", "queued"} \/ task[u].pc \notin {"none", "queued"}
    BY <1>0, <1>1, HrNames DEF HrUnderWay
  <2>2. proposal' = proposal
    BY <1>0 DEF HrRest
  <2>3. ASSUME proposal \in {"proposed", "confirmed"}, NEW u \in HrErrors
        PROVE  task'[u].pc \in {"none", "queued"} /\ ~Merged(u)'
    BY <1>0, <1>1, <2>1, <2>3 DEF HrError
  <2>4. proposal = "merged" => \E u \in HrErrors : Merged(u)'
    BY <1>0, <1>1 DEF HrError
  <2>5. ASSUME proposal = "proposed", NEW u \in HrErrors PROVE task'[u].pc = "none"
    BY <1>0, <1>1, <2>5, HrNames DEF HrError, HrUnderWay
  <2> QED BY <2>2, <2>3, <2>4, <2>5 DEF HrError
<1>5. HrCode'
  <2>1. /\ UNCHANGED <<session, begun, stray, intents, hist>>
    BY <1>0 DEF HrRest, codeVars
  <2>2. HrManualMerged' = HrManualMerged
    BY <1>1 DEF HrManualMerged, Manual
  <2>3. HrBehind(session)' /\ HrBehind(stray)'
    BY <1>0, <2>1, <2>2 DEF HrCode, HrBehind
  <2>4. ASSUME NEW n \in 1 .. MaxTurns
        PROVE  /\ task'[Manual(n)].pc \notin {"queued", "open", "coding", "returned"}
               /\ task'[Manual(n)].pc # "none" =>
                    task[Manual(n)].pc # "none" /\ task'[Manual(n)].base = task[Manual(n)].base
               /\ task[Manual(n)].pc = "none" => task'[Manual(n)].pc = "none"
    BY <1>0, <1>1, HrNames DEF HrCode, HrUnderWay
  <2>5. ASSUME NEW n \in 1 .. MaxTurns
        PROVE  /\ task'[Manual(n)].pc # "none" =>
                    /\ session.status # "none" /\ task'[Manual(n)].base = session.base
                    /\ \A m \in 1 .. MaxTurns : task'[Manual(m)].pc # "none" => m = n
               /\ intents[n] = "committed" => Merged(Manual(n))'
    BY <1>0, <1>1, <2>4 DEF HrCode
  <2> QED BY <1>0, <2>1, <2>2, <2>3, <2>4, <2>5 DEF HrCode, Manual
<1>6. HrDream'
  <2>1. UNCHANGED <<row, dreamRun, dreamOp, tick, verdict, revert, restart, evoUp, hist>>
    BY <1>0 DEF HrRest, dreamVars
  <2>2. ASSUME NEW g \in Gens
        PROVE  /\ task'[Dream(g)].pc \notin {"none", "done"} => task[Dream(g)].pc \notin {"none", "done"}
               /\ task[Dream(g)].pc = "done" => task'[Dream(g)].pc = "done"
    BY <1>0, <1>1, HrNames DEF HrUnderWay
  <2>3. HrGenerations'
    BY <1>0, <1>1, <2>1, <2>2 DEF HrDream, HrGenerations, Dream
  <2>4. HrTick'
    <3>1. tick.at = "finish" => task'[Dream(row.gen)].pc = "done"
      <4>1. row.gen # 0 => row.gen \in Gens
        BY DEF HrInv, HrTyped, HrDreamTyped, HrRows, Gens
      <4>2. tick.at = "finish" => row.gen # 0
        BY <1>0 DEF HrDream, HrTick, HrRow, HrWorking
      <4> QED BY <1>0, <2>2, <4>1, <4>2 DEF HrDream, HrTick
    <3> QED BY <1>0, <2>1, <3>1 DEF HrDream, HrTick, Dream
  <2>5. HrRow'
    BY <1>0, <1>1, <2>1 DEF HrDream, HrRow, Dream
  <2> QED BY <2>3, <2>4, <2>5 DEF HrDream
<1> QED BY <1>1, <1>2, <1>3, <1>4, <1>5, <1>6 DEF HrInv

\* What is known of the call t when it acts.
LEMMA HrAt ==
  ASSUME HrInv, NEW t \in Tasks
  PROVE  /\ task[t] \in HrTaskRecords /\ inv[InvOf(t)] \in HrAudits /\ InvOf(t) \in Tasks
         /\ HrKnown(t, task[t], inv[t], Merged(t), Len(hist))
         /\ t[1] \in {"dream", "capability"} => InvOf(t) = t
         /\ t[1] = "manual" => task[t].pc \notin {"queued", "open", "coding", "returned"}
         /\ t[1] \in {"dream", "manual", "capability", "error"}
         /\ Len(hist) \in Nat
         /\ task \in [Tasks -> HrTaskRecords] /\ inv \in [Tasks -> HrAudits]
<1>1. t[1] = "manual" => task[t].pc \notin {"queued", "open", "coding", "returned"}
  <2>1. ASSUME NEW n \in 1 .. MaxTurns, t = Manual(n)
        PROVE  task[t].pc \notin {"queued", "open", "coding", "returned"}
    BY <2>1 DEF HrInv, HrCode
  <2> QED BY <2>1, HrKinds
<1>2. t[1] \in {"dream", "capability"} => InvOf(t) = t
  BY DEF InvOf
<1> QED BY <1>1, <1>2, HrNames DEF HrInv, HrTyped, HrEngineTyped, HrEngine

\* Worktrees are opened over a clean repository, on a new branch.
LEMMA HrOpenWorktree ==
  ASSUME HrInv, NEW t \in Tasks, OpenWorktree(t), UNCHANGED <<dreamVars, codeVars>>
  PROVE  HrInv'
<1>r. task[t] \in HrTaskRecords /\ inv[InvOf(t)] \in HrAudits
  BY HrAt
<1>0. /\ task[t].pc = "open" /\ UNCHANGED <<hist, HrRest>> /\ t[1] # "manual"
  BY HrAt DEF OpenWorktree, EngineAt, gitVars, HrRest
<1>1. HrFresh(task[t], Merged(t)) /\ ~Merged(t)
  BY <1>0, HrAt DEF HrKnown, HrFresh, HrBefore
<1>2. ASSUME NEW e, NEW a \in HrAudits, e \in HrTaskRecords, a.open,
             e.pc = "coding" \/ (e.pc = "done" /\ e.res \in HrResults \ {"merged"}),
             task' = [task EXCEPT ![t] = e], inv' = [inv EXCEPT ![InvOf(t)] = a]
      PROVE  HrInv'
  <2>1. HrMoves(t, e, a)
    BY <1>0, <1>2 DEF HrMoves, HrUnderWay
  <2>2. HrKnown(t, e, a, Merged(t), Len(hist))
    BY <1>1, <1>2 DEF HrKnown, HrPlace, HrFresh, HrAudited, HrBefore, HrAfter
  <2> QED BY <2>1, <2>2, HrMove
<1>3. PICK a : a = [inv[InvOf(t)] EXCEPT !.open = TRUE]
  OBVIOUS
<1>4. PICK b : b = [inv[InvOf(t)] EXCEPT !.open = TRUE, !.branch = TRUE]
  OBVIOUS
<1>5. a \in HrAudits /\ a.open /\ b \in HrAudits /\ b.open
  BY <1>r, <1>3, <1>4 DEF HrAudits
<1>6. ASSUME NEW r \in HrResults \ {"merged"}, End(t, r), inv' = [inv EXCEPT ![InvOf(t)].open = TRUE]
      PROVE  HrInv'
  <2>1. PICK e : e = [task[t] EXCEPT !.pc = "done", !.res = r]
    OBVIOUS
  <2>2. e \in HrTaskRecords /\ e.pc = "done" /\ e.res = r
    BY <1>r, <2>1 DEF HrTaskRecords, HrPcs
  <2>3. task' = [task EXCEPT ![t] = e] /\ inv' = [inv EXCEPT ![InvOf(t)] = a]
    BY <1>3, <1>6, <2>1 DEF End
  <2> QED BY <1>2, <1>5, <1>6, <2>2, <2>3
<1>7. CASE Called(t, Len(hist), "coding")
           /\ inv' = [inv EXCEPT ![InvOf(t)].open = TRUE, ![InvOf(t)].branch = TRUE]
  <2>1. PICK e : e = [NotCalled EXCEPT !.pc = "coding", !.base = Len(hist), !.try = 1]
    OBVIOUS
  <2>2. e \in HrTaskRecords /\ e.pc = "coding"
    BY <2>1, HrAt DEF HrTaskRecords, HrPcs, NotCalled, HrResults
  <2>3. task' = [task EXCEPT ![t] = e]
    BY <1>7, <2>1 DEF Called
  <2>4. inv' = [inv EXCEPT ![InvOf(t)] = b]
    <3>1. InvOf(t) \in DOMAIN inv
      BY HrAt
    <3> QED BY <1>4, <1>7, <3>1, HrAt
  <2> QED BY <1>2, <1>5, <2>2, <2>3, <2>4
<1>8. {"dirty_worktree", "deferred", "confirmed_failed", "unknown"} \subseteq HrResults \ {"merged"}
  BY DEF HrResults
<1> QED BY <1>6, <1>7, <1>8 DEF OpenWorktree

\* A call that ends without touching the history.
LEMMA HrEnds ==
  ASSUME HrInv, NEW t \in Tasks, task[t].pc \in HrUnderWay, NEW r \in HrResults, End(t, r),
         NEW a \in HrAudits, inv' = [inv EXCEPT ![InvOf(t)] = a],
         t[1] \in {"dream", "capability"} /\ Merged(t) =>
            a.open /\ a.intent /\ a.base = inv[InvOf(t)].base,
         r = "merged" => Merged(t),
         t[1] # "manual" /\ r \notin {"merged", "unknown", "raised"} => ~Merged(t),
         UNCHANGED <<hist, HrRest>>
  PROVE  HrInv'
<1>1. PICK e : e = [task[t] EXCEPT !.pc = "done", !.res = r]
  OBVIOUS
<1>2. e \in HrTaskRecords /\ e.pc = "done" /\ e.res = r /\ e.base = task[t].base
  BY <1>1, HrAt DEF HrTaskRecords, HrPcs
<1>3. HrMoves(t, e, a)
  BY <1>1, <1>2 DEF HrMoves, End
<1>4. HrKnown(t, e, a, Merged(t), Len(hist))
  BY <1>2, HrAt DEF HrKnown, HrPlace, HrFresh, HrAudited, HrBefore, HrAfter
<1> QED BY <1>3, <1>4, HrMove

\* An attempt of the repair loop, the check of the branch, and what is raised before the merge.
LEMMA HrRepair ==
  ASSUME HrInv, NEW t \in Tasks, Repair(t), UNCHANGED <<dreamVars, codeVars>>
  PROVE  HrInv'
<1>r. task[t] \in HrTaskRecords /\ inv[InvOf(t)] \in HrAudits
  BY HrAt
<1>0. /\ task[t].pc = "coding" /\ UNCHANGED <<hist, HrRest>> /\ t[1] # "manual"
      /\ task[t].pc \in HrUnderWay
  BY DEF Repair, EngineAt, gitVars, HrRest, HrUnderWay
<1>1. ~Merged(t)
  BY <1>0, HrAt DEF HrKnown, HrFresh, HrBefore
<1>2. ASSUME NEW e \in HrTaskRecords, e.pc \in {"coding", "check"}, task' = [task EXCEPT ![t] = e],
             UNCHANGED inv
      PROVE  HrInv'
  <2>1. inv' = [inv EXCEPT ![InvOf(t)] = inv[InvOf(t)]]
    BY <1>2, HrAt
  <2>2. HrMoves(t, e, inv[InvOf(t)])
    BY <1>0, <1>2, <2>1, HrAt DEF HrMoves, HrUnderWay
  <2>3. HrKnown(t, e, inv[InvOf(t)], Merged(t), Len(hist))
    BY <1>0, <1>1, <1>2, HrAt DEF HrKnown, HrPlace, HrFresh, HrAudited, HrBefore, HrAfter
  <2> QED BY <2>2, <2>3, HrMove
<1>3. CASE Goto(t, "check") /\ UNCHANGED inv
  <2>1. PICK e : e = [task[t] EXCEPT !.pc = "check"]
    OBVIOUS
  <2>2. e \in HrTaskRecords /\ e.pc = "check"
    BY <1>r, <2>1 DEF HrTaskRecords, HrPcs
  <2> QED BY <1>2, <1>3, <2>1, <2>2 DEF Goto
<1>4. CASE task' = [task EXCEPT ![t].try = @ + 1] /\ UNCHANGED inv
  <2>1. PICK e : e = [task[t] EXCEPT !.try = @ + 1]
    OBVIOUS
  <2>2. e \in HrTaskRecords /\ e.pc = "coding"
    BY <1>r, <1>0, <2>1 DEF HrTaskRecords
  <2> QED BY <1>2, <1>4, <2>1, <2>2
<1>5. ASSUME NEW f \in Feedbacks(t), End(t, f), inv' = [inv EXCEPT ![InvOf(t)].branch = Kept(t, f)]
      PROVE  HrInv'
  <2>1. f \in HrResults \ {"merged"}
    BY <1>0, HrAt DEF Feedbacks, ErrorFeedbacks, CapabilityFeedbacks, DreamFeedbacks, HrResults
  <2>2. PICK a : a = [inv[InvOf(t)] EXCEPT !.branch = Kept(t, f)]
    OBVIOUS
  <2>3. a \in HrAudits
    BY <1>r, <2>2 DEF HrAudits, Kept
  <2>4. inv' = [inv EXCEPT ![InvOf(t)] = a]
    BY <1>5, <2>2
  <2> QED BY <1>0, <1>1, <1>5, <2>1, <2>3, <2>4, HrEnds
<1> QED BY <1>3, <1>4, <1>5 DEF Repair

\* The branch is where the worktree began: the intent is written.
LEMMA HrCheckHead ==
  ASSUME HrInv, NEW t \in Tasks, CheckHead(t), UNCHANGED <<dreamVars, codeVars>>
  PROVE  HrInv'
<1>r. task[t] \in HrTaskRecords /\ inv[InvOf(t)] \in HrAudits
      /\ HrKnown(t, task[t], inv[t], Merged(t), Len(hist))
      /\ (t[1] \in {"dream", "capability"} => InvOf(t) = t)
      /\ t[1] \in {"dream", "manual", "capability", "error"}
  BY HrAt
<1>0. /\ task[t].pc = "check" /\ UNCHANGED <<hist, HrRest>> /\ task[t].pc \in HrUnderWay
  BY DEF CheckHead, EngineAt, gitVars, HrRest, HrUnderWay
<1>1. t[1] # "manual" => ~Merged(t)
  BY <1>0, <1>r DEF HrKnown, HrFresh, HrBefore
<1>2. CASE End(t, "blocked_main_changed") /\ UNCHANGED inv
  <2>1. inv' = [inv EXCEPT ![InvOf(t)] = inv[InvOf(t)]]
    BY <1>2, HrAt
  <2>2. "blocked_main_changed" \in HrResults
    BY DEF HrResults
  <2>3. t[1] \in {"dream", "capability"} => ~Merged(t)
    BY <1>1
  <2>4. inv[InvOf(t)] \in HrAudits /\ "blocked_main_changed" # "merged"
    BY <1>r
  <2> QED BY <1>0, <1>1, <1>2, <2>1, <2>2, <2>3, <2>4, HrEnds
<1>3. CASE Goto(t, "merge")
           /\ inv' = [inv EXCEPT ![InvOf(t)].intent = TRUE, ![InvOf(t)].base = task[t].base]
  <2>1. PICK e : e = [task[t] EXCEPT !.pc = "merge"]
    OBVIOUS
  <2>2. e \in HrTaskRecords /\ e.pc = "merge" /\ e.base = task[t].base
    BY <1>r, <2>1 DEF HrTaskRecords, HrPcs
  <2>3. PICK a : a = [inv[InvOf(t)] EXCEPT !.intent = TRUE, !.base = task[t].base]
    OBVIOUS
  <2>4. /\ a \in HrAudits /\ a.open = inv[InvOf(t)].open /\ a.intent /\ a.base = task[t].base
    BY <1>r, <2>3 DEF HrAudits, HrTaskRecords
  <2>5. task' = [task EXCEPT ![t] = e]
    BY <1>3, <2>1 DEF Goto
  <2>6. inv' = [inv EXCEPT ![InvOf(t)] = a]
    <3>1. InvOf(t) \in DOMAIN inv
      BY HrAt
    <3> QED BY <1>3, <2>3, <3>1, HrAt
  <2>7. HrMoves(t, e, a)
    BY <1>0, <2>2, <2>4, <2>5, <2>6 DEF HrMoves, HrUnderWay
  <2>8. HrKnown(t, e, a, Merged(t), Len(hist))
    BY <1>0, <1>1, <1>r, <2>2, <2>4 DEF HrKnown, HrPlace, HrFresh, HrAudited, HrBefore, HrAfter
  <2> QED BY <2>7, <2>8, HrMove
<1> QED BY <1>2, <1>3 DEF CheckHead

\* The merge is committed in the audit when the candidate is the head.
LEMMA HrVerifyHead ==
  ASSUME HrInv, NEW t \in Tasks, VerifyHead(t), UNCHANGED <<dreamVars, codeVars>>
  PROVE  HrInv'
<1>r. task[t] \in HrTaskRecords /\ inv[InvOf(t)] \in HrAudits
      /\ HrKnown(t, task[t], inv[t], Merged(t), Len(hist))
      /\ (t[1] \in {"dream", "capability"} => InvOf(t) = t)
  BY HrAt
<1>0. /\ task[t].pc = "verify" /\ UNCHANGED <<hist, HrRest>> /\ task[t].pc \in HrUnderWay
  BY DEF VerifyHead, EngineAt, gitVars, HrRest, HrUnderWay
<1>1. Merged(t)
  BY <1>0, <1>r DEF HrKnown, HrPlace, HrAfter
<1>2. t[1] \in {"dream", "capability"} => inv[t].open /\ inv[t].intent /\ inv[t].base < Len(hist)
  BY <1>1, <1>r DEF HrKnown, HrAudited
<1>3. CASE End(t, "unknown") /\ UNCHANGED inv
  <2>1. inv' = [inv EXCEPT ![InvOf(t)] = inv[InvOf(t)]]
    BY <1>3, HrAt
  <2>2. "unknown" \in HrResults
    BY DEF HrResults
  <2>3. t[1] \in {"dream", "capability"} /\ Merged(t) =>
            inv[InvOf(t)].open /\ inv[InvOf(t)].intent
    BY <1>2, <1>r
  <2>4. End(t, "unknown") /\ UNCHANGED <<hist, HrRest>> /\ task[t].pc \in HrUnderWay
    BY <1>0, <1>3
  <2>5. inv[InvOf(t)] \in HrAudits
    BY <1>r
  <2> QED BY <2>1, <2>2, <2>3, <2>4, <2>5, HrEnds
<1>4. CASE Goto(t, "merged") /\ inv' = [inv EXCEPT ![InvOf(t)].committed = TRUE]
  <2>1. PICK e : e = [task[t] EXCEPT !.pc = "merged"]
    OBVIOUS
  <2>2. e \in HrTaskRecords /\ e.pc = "merged" /\ e.base = task[t].base
    BY <1>r, <2>1 DEF HrTaskRecords, HrPcs
  <2>3. PICK a : a = [inv[InvOf(t)] EXCEPT !.committed = TRUE]
    OBVIOUS
  <2>4. /\ a \in HrAudits /\ a.open = inv[InvOf(t)].open /\ a.intent = inv[InvOf(t)].intent
        /\ a.base = inv[InvOf(t)].base
    BY <1>r, <2>3 DEF HrAudits
  <2>5. task' = [task EXCEPT ![t] = e] /\ inv' = [inv EXCEPT ![InvOf(t)] = a]
    BY <1>4, <2>1, <2>3 DEF Goto
  <2>6. HrMoves(t, e, a)
    BY <1>0, <2>2, <2>4, <2>5 DEF HrMoves, HrUnderWay
  <2>7. HrKnown(t, e, a, Merged(t), Len(hist))
    BY <1>1, <1>2, <1>r, <2>2, <2>4 DEF HrKnown, HrPlace, HrFresh, HrAudited, HrBefore, HrAfter
  <2> QED BY <2>6, <2>7, HrMove
<1> QED BY <1>3, <1>4 DEF VerifyHead

\* The worktree goes; what raised after the merge is unknown to the caller.
LEMMA HrCloseWorktree ==
  ASSUME HrInv, NEW t \in Tasks, CloseWorktree(t), UNCHANGED <<dreamVars, codeVars>>
  PROVE  HrInv'
<1>r. task[t] \in HrTaskRecords /\ inv[InvOf(t)] \in HrAudits
      /\ HrKnown(t, task[t], inv[t], Merged(t), Len(hist))
      /\ (t[1] \in {"dream", "capability"} => InvOf(t) = t)
  BY HrAt
<1>0. /\ task[t].pc = "merged" /\ UNCHANGED <<hist, HrRest>> /\ task[t].pc \in HrUnderWay
  BY DEF CloseWorktree, EngineAt, gitVars, HrRest, HrUnderWay
<1>1. Merged(t)
  BY <1>0, <1>r DEF HrKnown, HrPlace, HrAfter
<1>2. PICK a : a = [inv[InvOf(t)] EXCEPT !.branch = FALSE]
  OBVIOUS
<1>3. /\ a \in HrAudits /\ a.open = inv[InvOf(t)].open /\ a.intent = inv[InvOf(t)].intent
      /\ a.base = inv[InvOf(t)].base
  BY <1>r, <1>2 DEF HrAudits
<1>4. inv' = [inv EXCEPT ![InvOf(t)] = a]
  BY <1>2 DEF CloseWorktree
<1>5. PICK r \in {"merged", "raised"} : End(t, r)
  BY DEF CloseWorktree
<1>6. r \in HrResults
  BY <1>5 DEF HrResults
<1>7. t[1] \in {"dream", "capability"} => a.open /\ a.intent
  BY <1>1, <1>3, <1>r DEF HrKnown, HrAudited
<1> QED BY <1>0, <1>1, <1>3, <1>4, <1>5, <1>6, <1>7, HrEnds

\* What raises out of the engine before the merge.
LEMMA HrEngineRaises ==
  ASSUME HrInv, NEW t \in Tasks, EngineRaises(t), UNCHANGED <<dreamVars, codeVars>>
  PROVE  HrInv'
<1>r. inv[InvOf(t)] \in HrAudits /\ HrKnown(t, task[t], inv[t], Merged(t), Len(hist))
  BY HrAt
<1>0. /\ task[t].pc = "coding" /\ UNCHANGED <<hist, HrRest>> /\ task[t].pc \in HrUnderWay
      /\ End(t, "raised") /\ t[1] # "manual"
  BY DEF EngineRaises, EngineAt, gitVars, HrRest, HrUnderWay
<1>1. ~Merged(t)
  BY <1>0, <1>r DEF HrKnown, HrFresh, HrBefore
<1>2. inv' = [inv EXCEPT ![InvOf(t)] = inv[InvOf(t)]]
  BY HrAt DEF EngineRaises
<1>3. "raised" \in HrResults
  BY DEF HrResults
<1> QED BY <1>0, <1>1, <1>2, <1>3, <1>r, HrEnds

\* Commits are put on top of the history.  A task is among them only when its call merges it.
HrAppends(s) ==
    /\ s \in Seq(HrCommits) /\ Len(s) > 0 /\ hist' = hist \o s
    /\ \A i, j \in DOMAIN s : s[i] = s[j] => i = j
    /\ \A k \in DOMAIN s : ~Merged(s[k])
HrAdds(s, x) == \E k \in DOMAIN s : s[k] = x
LEMMA HrGrown ==
  ASSUME HrInv, NEW s, HrAppends(s),
         userSteps' \in Nat, userSteps' >= userSteps,
         \A k \in Nat : HrAdds(s, <<"user", k>>) => k <= userSteps'
  PROVE  /\ hist' \in Seq(HrCommits) /\ Len(hist') > Len(hist) /\ Len(hist) \in Nat
         /\ \A x : Merged(x)' <=> Merged(x) \/ HrAdds(s, x)
         /\ HrHistory'
<1>1. /\ hist \in Seq(HrCommits) /\ s \in Seq(HrCommits) /\ Len(s) > 0 /\ hist' = hist \o s
      /\ HrHistory /\ userSteps \in Nat
  BY DEF HrInv, HrTyped, HrEngineTyped, HrAppends
<1>2. /\ hist' \in Seq(HrCommits) /\ Len(hist') = Len(hist) + Len(s)
      /\ \A x : Merged(x)' <=> Merged(x) \/ HrAdds(s, x)
      /\ \A i, j \in DOMAIN hist' : hist'[i] = hist'[j] => i = j
  BY <1>1, HrAppend DEF HrAppends, HrHistory, HrAdds
<1>3. Len(hist) \in Nat /\ Len(s) \in Nat
  BY <1>1
<1>4. \A k \in Nat : Merged(<<"user", k>>)' => k <= userSteps'
  BY <1>1, <1>2 DEF HrHistory
<1>5. HrHistory'
  BY <1>2, <1>4 DEF HrHistory
<1>6. Len(hist') > Len(hist)
  BY <1>1, <1>2, <1>3
<1> QED BY <1>2, <1>3, <1>5, <1>6

\* What the other calls know is not disturbed.
LEMMA HrKnownLater ==
  ASSUME NEW t, NEW e, NEW a \in HrAudits, NEW m \in BOOLEAN, NEW n \in Nat, NEW k \in Nat, n < k,
         HrKnown(t, e, a, m, n)
  PROVE  /\ HrKnown(t, e, a, m, k)
         /\ t[1] = "manual" => HrKnown(t, e, a, TRUE, k)
  BY DEF HrKnown, HrPlace, HrFresh, HrAudited, HrAudits
LEMMA HrOthersKnow ==
  ASSUME HrInv, NEW s, hist' \in Seq(HrCommits), Len(hist') > Len(hist), Len(hist) \in Nat,
         \A x : Merged(x)' <=> Merged(x) \/ HrAdds(s, x),
         NEW u \in Tasks, u[1] # "manual" => ~HrAdds(s, u)
  PROVE  HrKnown(u, task[u], inv[u], Merged(u)', Len(hist)')
<1>1. /\ HrKnown(u, task[u], inv[u], Merged(u), Len(hist)) /\ inv[u] \in HrAudits
      /\ Merged(u) \in BOOLEAN /\ Len(hist') \in Nat
  <2>1. HrKnown(u, task[u], inv[u], Merged(u), Len(hist)) /\ inv[u] \in HrAudits
    BY DEF HrInv, HrEngine, HrTyped, HrEngineTyped
  <2>2. Merged(u) \in BOOLEAN
    BY DEF Merged
  <2>3. Len(hist') \in Nat
    OBVIOUS
  <2> QED BY <2>1, <2>2, <2>3
<1>2. /\ HrKnown(u, task[u], inv[u], Merged(u), Len(hist'))
      /\ u[1] = "manual" => HrKnown(u, task[u], inv[u], TRUE, Len(hist'))
  BY <1>1, HrKnownLater
<1>3. CASE Merged(u)' = Merged(u)
  BY <1>2, <1>3
<1>4. CASE ~(Merged(u)' = Merged(u))
  <2>1. Merged(u)' = TRUE /\ u[1] = "manual"
    BY <1>4 DEF Merged
  <2> QED BY <1>2, <2>1
<1> QED BY <1>3, <1>4

\* The user of the repository commits.
LEMMA HrUserStep ==
  ASSUME HrInv, UserEdits \/ UserCommits, UNCHANGED <<dreamVars, codeVars>>
  PROVE  HrInv'
<1>1. CASE UserEdits
  <2>1. UNCHANGED <<hist, task, inv, cap, proposal, evoUp, dreamVars, codeVars>>
        /\ userSteps' = userSteps + 1
    BY <1>1 DEF UserEdits
  <2>2. HrTyped'
    BY <2>1 DEF HrInv, HrTyped, HrEngineTyped, HrDreamTyped, HrCodeTyped, dreamVars, codeVars
  <2>3. HrHistory'
    BY <2>1 DEF HrInv, HrHistory, HrTyped, HrEngineTyped, Merged
  <2>4. HrEngine' /\ HrCapability' /\ HrError' /\ HrDown'
    BY <2>1 DEF HrInv, HrEngine, HrCapability, HrError, HrDown, dreamVars, Merged
  <2>5. HrCode'
    BY <2>1 DEF HrInv, HrCode, HrBehind, HrManualMerged, codeVars, Merged
  <2>6. HrDream'
    BY <2>1 DEF HrInv, HrDream, HrGenerations, HrTick, HrRow, dreamVars, Merged
  <2> QED BY <2>2, <2>3, <2>4, <2>5, <2>6 DEF HrInv
<1>2. CASE UserCommits
  <2>1. PICK s : s = <<<<"user", userSteps'>>>>
    OBVIOUS
  <2>2. /\ UNCHANGED <<task, inv, cap, proposal, evoUp, dreamVars, codeVars>>
        /\ userSteps' = userSteps + 1 /\ userSteps \in Nat
        /\ hist' = Append(hist, <<"user", userSteps'>>) /\ hist \in Seq(HrCommits)
    BY <1>2 DEF UserCommits, HrInv, HrTyped, HrEngineTyped
  <2>0. <<"user", userSteps'>> \in HrCommits
    BY <2>2 DEF HrCommits
  <2>3. s \in Seq(HrCommits) /\ Len(s) = 1 /\ s[1] = <<"user", userSteps'>> /\ DOMAIN s = {1}
    BY <2>0, <2>1
  <2>4. hist' = hist \o s
    BY <2>0, <2>1, <2>2, AppendIsConcat
  <2>5. ~Merged(<<"user", userSteps'>>)
    BY <2>2 DEF HrInv, HrHistory
  <2>6. HrAppends(s)
    <3>1. \A i, j \in DOMAIN s : i = j
      BY <2>3
    <3>2. \A k \in DOMAIN s : ~Merged(s[k])
      BY <2>3, <2>5
    <3>3. s \in Seq(HrCommits) /\ Len(s) > 0
      BY <2>3
    <3> QED BY <2>4, <3>1, <3>2, <3>3 DEF HrAppends
  <2>7. \A x : HrAdds(s, x) <=> x = <<"user", userSteps'>>
    BY <2>3 DEF HrAdds
  <2>8. \A k \in Nat : HrAdds(s, <<"user", k>>) => k <= userSteps'
    BY <2>2, <2>7
  <2>9. /\ hist' \in Seq(HrCommits) /\ Len(hist') > Len(hist) /\ Len(hist) \in Nat
        /\ \A x : Merged(x)' <=> Merged(x) \/ HrAdds(s, x)
        /\ HrHistory'
    <3>1. userSteps' \in Nat /\ userSteps' >= userSteps
      BY <2>2
    <3> QED BY <2>6, <2>8, <3>1, HrGrown
  <2>10. ASSUME NEW u \in Tasks PROVE ~HrAdds(s, u) /\ Merged(u)' = Merged(u)
    <3>1. u # <<"user", userSteps'>>
      BY HrNames
    <3> QED BY <2>7, <2>9, <3>1 DEF Merged
  <2>11. HrTyped'
    BY <2>2, <2>9 DEF HrInv, HrTyped, HrEngineTyped, HrDreamTyped, HrCodeTyped, dreamVars, codeVars
  <2>12. HrEngine'
    <3>1. ASSUME NEW u \in Tasks PROVE HrKnown(u, task[u], inv[u], Merged(u)', Len(hist)')
      BY <2>9, <2>10, HrOthersKnow
    <3> QED BY <2>2, <3>1 DEF HrEngine
  <2>13. HrCapability' /\ HrError' /\ HrDown'
    BY <2>2, <2>10, HrNames DEF HrInv, HrCapability, HrError, HrDown, dreamVars
  <2>14. HrCode'
    <3>1. HrManualMerged' = HrManualMerged
      BY <2>10, HrNames DEF HrManualMerged, Manual
    <3>2. UNCHANGED <<session, begun, stray, intents, task>>
      BY <2>2 DEF codeVars
    <3>3. HrBehind(session)' /\ HrBehind(stray)'
      BY <2>9, <3>1, <3>2 DEF HrInv, HrCode, HrBehind, HrTyped, HrCodeTyped, HrSessions
    <3>4. ASSUME NEW n \in 1 .. MaxTurns, intents[n] = "committed" PROVE Merged(Manual(n))'
      BY <2>10, <3>4, HrNames DEF HrInv, HrCode
    <3> QED BY <3>1, <3>2, <3>3, <3>4 DEF HrInv, HrCode, Manual
  <2>15. HrDream'
    <3>1. \A g \in Gens : Merged(Dream(g))' = Merged(Dream(g))
      BY <2>10, HrNames
    <3>2. UNCHANGED <<row, dreamRun, dreamOp, tick, verdict, restart, task, evoUp>>
      BY <2>2 DEF dreamVars
    <3>3. row.gen # 0 => row.gen \in Gens
      BY DEF HrInv, HrTyped, HrDreamTyped, HrRows, Gens
    <3>4. HrGenerations' /\ HrTick'
      BY <3>1, <3>2 DEF HrInv, HrDream, HrGenerations, HrTick, Dream
    <3>5. HrRow'
      BY <3>1, <3>2, <3>3 DEF HrInv, HrDream, HrRow, Dream
    <3> QED BY <3>4, <3>5 DEF HrDream
  <2> QED BY <2>9, <2>11, <2>12, <2>13, <2>14, <2>15 DEF HrInv
<1> QED BY <1>1, <1>2

\* The candidate of a call: its commit, or all turns of the coding session up to it.
LEMMA HrCandidate ==
  ASSUME NEW t \in Tasks
  PROVE  /\ Candidate(t) \in Seq(HrCommits) /\ Len(Candidate(t)) > 0
         /\ \A i, j \in DOMAIN Candidate(t) : Candidate(t)[i] = Candidate(t)[j] => i = j
         /\ HrAdds(Candidate(t), t)
         /\ t[1] # "manual" => \A x : HrAdds(Candidate(t), x) => x = t
         /\ t[1] = "manual" => \A x : HrAdds(Candidate(t), x) =>
                                    \E n \in 1 .. MaxTurns : x = Manual(n)
<1>1. CASE t[1] # "manual"
  <2>1. PICK s : s = <<t>>
    OBVIOUS
  <2>2. t \in HrCommits
    BY HrNames
  <2>3. s \in Seq(HrCommits) /\ Len(s) = 1 /\ s[1] = t /\ DOMAIN s = {1}
    BY <2>1, <2>2
  <2>4. Candidate(t) = s
    BY <1>1, <2>1 DEF Candidate
  <2>5. Len(s) > 0 /\ HrAdds(s, t) /\ \A x : HrAdds(s, x) => x = t
    BY <2>3 DEF HrAdds
  <2>6. \A i, j \in DOMAIN s : i = j
    BY <2>3
  <2> QED BY <1>1, <2>3, <2>4, <2>5, <2>6
<1>2. CASE t[1] = "manual"
  <2>1. PICK n \in 1 .. MaxTurns : t = Manual(n)
    BY <1>2, HrKinds
  <2>2. MaxTurns \in Nat /\ n \in Nat \ {0} /\ t[2] = n
    BY <2>1, EvoAssumption DEF Manual
  <2>3. PICK s : s = [k \in 1 .. n |-> <<"manual", k>>]
    OBVIOUS
  <2>4. Candidate(t) = s
    BY <1>2, <2>2, <2>3 DEF Candidate
  <2>5. \A k \in 1 .. n : s[k] = Manual(k) /\ k \in 1 .. MaxTurns /\ Manual(k) \in HrCommits
    <3>1. ASSUME NEW k \in 1 .. n PROVE k \in 1 .. MaxTurns
      BY <2>1, <2>2
    <3>2. ASSUME NEW k \in 1 .. n PROVE s[k] = Manual(k)
      BY <2>3 DEF Manual
    <3> QED BY <3>1, <3>2, HrNames
  <2>6. s \in Seq(HrCommits) /\ DOMAIN s = 1 .. n /\ Len(s) = n
    <3>1. s \in [1 .. n -> HrCommits]
      BY <2>3, <2>5
    <3> QED BY <2>2, <2>3, <3>1
  <2>7. \A i, j \in DOMAIN s : s[i] = s[j] => i = j
    BY <2>5, <2>6, HrNames
  <2>8. n \in DOMAIN s /\ s[n] = t
    BY <2>1, <2>2, <2>5, <2>6
  <2>9. \A x : HrAdds(s, x) => \E m \in 1 .. MaxTurns : x = Manual(m)
    BY <2>5, <2>6 DEF HrAdds
  <2>10. HrAdds(s, t) /\ Len(s) > 0
    BY <2>2, <2>6, <2>8 DEF HrAdds
  <2> QED BY <1>2, <2>4, <2>6, <2>7, <2>9, <2>10
<1> QED BY <1>1, <1>2

\* A merge of what no other call waits for: only calls at the merge see their commit appear.
HrMerges(s) ==
    /\ HrAppends(s) /\ userSteps' \in Nat /\ userSteps' >= userSteps
    /\ \A k \in Nat : ~HrAdds(s, <<"user", k>>)
    /\ task' \in [Tasks -> HrTaskRecords]
    /\ \A u \in Tasks :
        /\ \/ task'[u] = task[u]
           \/ task[u].pc = "merge" /\ task'[u].pc = "verify" /\ task'[u].base = task[u].base
        /\ u[1] # "manual" /\ HrAdds(s, u) => task[u].pc = "merge"
    /\ ~begun => \A n \in 1 .. MaxTurns : ~HrAdds(s, Manual(n))
    /\ UNCHANGED <<inv, cap, proposal, evoUp, dreamVars, codeVars>>
LEMMA HrMergeKeeps ==
  ASSUME HrInv, NEW s, HrMerges(s), HrEngine'
  PROVE  HrInv'
<1>1. /\ HrAppends(s) /\ task' \in [Tasks -> HrTaskRecords]
      /\ UNCHANGED <<inv, cap, proposal, evoUp, dreamVars, codeVars>>
      /\ userSteps' \in Nat
  BY DEF HrMerges
<1>2. \A u \in Tasks :
        /\ \/ task'[u] = task[u]
           \/ task[u].pc = "merge" /\ task'[u].pc = "verify" /\ task'[u].base = task[u].base
        /\ u[1] # "manual" /\ HrAdds(s, u) => task[u].pc = "merge"
  BY DEF HrMerges
<1>3. /\ hist' \in Seq(HrCommits) /\ Len(hist') > Len(hist) /\ Len(hist) \in Nat
      /\ \A x : Merged(x)' <=> Merged(x) \/ HrAdds(s, x)
      /\ HrHistory'
  BY HrGrown DEF HrMerges
<1>4. HrTyped'
  <2>1. HrEngineTyped'
    BY <1>1, <1>3 DEF HrInv, HrTyped, HrEngineTyped
  <2> QED BY <1>1, <2>1 DEF HrInv, HrTyped, HrDreamTyped, HrCodeTyped, dreamVars, codeVars
<1>5. HrCapability'
  <2>1. task'[Cap].pc # "none" => task[Cap].pc # "none"
    BY <1>2, HrNames
  <2>2. Merged(Cap)' /\ ~Merged(Cap) => cap.op = "running"
    BY <1>2, <1>3, HrNames DEF HrInv, HrCapability
  <2> QED BY <1>1, <1>3, <2>1, <2>2 DEF HrInv, HrCapability, Cap
<1>6. HrError'
  <2>1. ASSUME proposal \in {"proposed", "confirmed"}, NEW u \in HrErrors
        PROVE  task'[u].pc \in {"none", "queued"} /\ ~Merged(u)'
    <3>1. task[u].pc \in {"none", "queued"} /\ ~Merged(u) /\ u \in Tasks /\ u[1] # "manual"
      BY <2>1, HrNames DEF HrInv, HrError
    <3> QED BY <1>2, <1>3, <3>1
  <2>2. proposal = "merged" => \E u \in HrErrors : Merged(u)'
    BY <1>3 DEF HrInv, HrError
  <2>3. ASSUME proposal = "proposed", NEW u \in HrErrors PROVE task'[u].pc = "none"
    <3>1. task[u].pc = "none" /\ u \in Tasks
      BY <2>3, HrNames DEF HrInv, HrError
    <3> QED BY <1>2, <3>1
  <2> QED BY <1>1, <2>1, <2>2, <2>3 DEF HrError
<1>7. HrCode'
  <2>1. UNCHANGED <<session, begun, stray, intents>>
    BY <1>1 DEF codeVars
  <2>2. HrBehind(session)' /\ HrBehind(stray)'
    <3>1. /\ session.status # "none" => session.base <= Len(hist)
          /\ stray.status # "none" => stray.base <= Len(hist)
          /\ session.base \in Nat /\ stray.base \in Nat
      BY DEF HrInv, HrCode, HrBehind, HrTyped, HrCodeTyped, HrSessions
    <3>2. Len(hist') \in Nat
      BY <1>3
    <3> QED BY <1>3, <2>1, <3>1, <3>2 DEF HrBehind
  <2>3. ASSUME NEW n \in 1 .. MaxTurns
        PROVE  /\ task'[Manual(n)].pc \notin {"queued", "open", "coding", "returned"}
               /\ task'[Manual(n)].pc # "none" <=> task[Manual(n)].pc # "none"
               /\ task'[Manual(n)].base = task[Manual(n)].base
    BY <1>2, HrNames DEF HrInv, HrCode
  <2>4. ASSUME NEW n \in 1 .. MaxTurns
        PROVE  /\ task'[Manual(n)].pc # "none" =>
                    /\ session.status # "none" /\ task'[Manual(n)].base = session.base
                    /\ \A m \in 1 .. MaxTurns : task'[Manual(m)].pc # "none" => m = n
               /\ intents[n] = "committed" => Merged(Manual(n))'
    BY <1>3, <2>3 DEF HrInv, HrCode
  <2>5. ~begun => session.status = "none" /\ stray.status = "none" /\ ~HrManualMerged'
    <3>1. SUFFICES ASSUME ~begun PROVE ~HrManualMerged'
      BY DEF HrInv, HrCode
    <3>2. \A n \in 1 .. MaxTurns : ~HrAdds(s, Manual(n))
      BY <3>1 DEF HrMerges
    <3> QED BY <1>3, <3>1, <3>2 DEF HrInv, HrCode, HrManualMerged, Manual
  <2> QED BY <2>1, <2>2, <2>3, <2>4, <2>5 DEF HrInv, HrCode, Manual
<1>8. HrDream'
  <2>1. UNCHANGED <<row, dreamRun, dreamOp, tick, verdict, restart, evoUp>>
    BY <1>1 DEF dreamVars
  <2>2. ASSUME NEW g \in Gens, Merged(Dream(g))', ~Merged(Dream(g))
        PROVE  /\ g = row.gen /\ tick.at = "record" /\ row.status = "running"
               /\ dreamOp[g].status = "running"
    <3>1. task[Dream(g)].pc = "merge"
      BY <1>2, <1>3, <2>2, HrNames
    <3>2. g = row.gen /\ tick.at = "record"
      BY <3>1 DEF HrInv, HrDream, HrGenerations
    <3> QED BY <3>2 DEF HrInv, HrDream, HrTick, HrWorking
  <2>3. row.status # "running" => \A g \in Gens : Merged(Dream(g))' = Merged(Dream(g))
    BY <1>3, <2>2 DEF Merged
  <2>4. row.gen # 0 => row.gen \in Gens
    BY DEF HrInv, HrTyped, HrDreamTyped, HrRows, Gens
  <2>5. \A g \in Gens :
          /\ task'[Dream(g)].pc \notin {"none", "done"} => task[Dream(g)].pc \notin {"none", "done"}
          /\ task[Dream(g)].pc = "done" => task'[Dream(g)].pc = "done"
    BY <1>2, HrNames
  <2>6. HrGenerations'
    <3>1. ASSUME NEW g \in Gens
          PROVE  /\ task'[Dream(g)].pc \notin {"none", "done"} => g = row.gen /\ tick.at = "record"
                 /\ Merged(Dream(g))' => g = row.gen /\ dreamOp[g].status \notin {"none", "prepared"}
                 /\ g > row.gen => dreamRun[g] = "none"
                 /\ dreamRun[g] = "none" => dreamOp[g].status = "none"
                 /\ dreamOp[g].status = "completed" /\ dreamOp[g].res = "merged" => Merged(Dream(g))'
      BY <1>3, <2>2, <2>5 DEF HrInv, HrDream, HrGenerations
    <3> QED BY <2>1, <3>1 DEF HrGenerations, Dream
  <2>7. HrTick'
    <3>1. tick.at = "finish" => task'[Dream(row.gen)].pc = "done"
      <4>1. tick.at = "finish" => row.gen # 0
        BY DEF HrInv, HrDream, HrTick, HrRow, HrWorking
      <4> QED BY <2>4, <2>5, <4>1 DEF HrInv, HrDream, HrTick
    <3> QED BY <2>1, <3>1 DEF HrInv, HrDream, HrTick, Dream
  <2>8. HrRow'
    <3>1. CASE row.status = "running"
      BY <2>1, <3>1 DEF HrInv, HrDream, HrRow
    <3>2. CASE row.status # "running" /\ row.gen # 0
      BY <2>1, <2>3, <2>4, <3>2 DEF HrInv, HrDream, HrRow, Dream
    <3>3. CASE row.gen = 0
      BY <2>1, <3>3 DEF HrInv, HrDream, HrRow, HrTyped, HrDreamTyped
    <3> QED BY <3>1, <3>2, <3>3
  <2> QED BY <2>6, <2>7, <2>8 DEF HrDream
<1>9. HrDown'
  <2>1. UNCHANGED <<evoUp, tick, verdict>>
    BY <1>1 DEF dreamVars
  <2> QED BY <1>2, <2>1 DEF HrInv, HrDown
<1> QED BY <1>3, <1>4, <1>5, <1>6, <1>7, <1>8, <1>9 DEF HrInv

\* A fast-forward merges the commit of a call, or all turns of a coding session.
LEMMA HrFastForward ==
  ASSUME HrInv, NEW t \in Tasks, FastForward(t), UNCHANGED <<dreamVars, codeVars>>
  PROVE  HrInv'
<1>r. /\ task[t] \in HrTaskRecords /\ inv[InvOf(t)] \in HrAudits
      /\ HrKnown(t, task[t], inv[t], Merged(t), Len(hist))
      /\ task \in [Tasks -> HrTaskRecords]
  BY HrAt
<1>0. /\ task[t].pc = "merge" /\ task[t].pc \in HrUnderWay
      /\ UNCHANGED <<userSteps, inv, cap, proposal, evoUp, dreamVars, codeVars>>
  BY DEF FastForward, EngineAt, HrUnderWay
<1>1. t[1] # "manual" => ~Merged(t)
  BY <1>0, <1>r DEF HrKnown, HrFresh, HrBefore
<1>2. ASSUME NEW r \in {"blocked_local_changes", "unknown"}, r = "unknown" \/ t[1] = "manual",
             End(t, r), UNCHANGED hist
      PROVE  HrInv'
  <2>1. inv' = [inv EXCEPT ![InvOf(t)] = inv[InvOf(t)]]
    BY <1>0, HrAt
  <2>2. r \in HrResults /\ r # "merged"
    BY DEF HrResults
  <2>3. UNCHANGED <<hist, HrRest>>
    BY <1>0, <1>2 DEF HrRest
  <2>4. t[1] \in {"dream", "capability"} => ~Merged(t)
    BY <1>1
  <2> QED BY <1>0, <1>1, <1>2, <1>r, <2>1, <2>2, <2>3, <2>4, HrEnds
<1>3. CASE Len(hist) = task[t].base /\ hist' = hist \o Candidate(t) /\ Goto(t, "verify")
  <2>1. PICK s : s = Candidate(t)
    OBVIOUS
  <2>2. /\ s \in Seq(HrCommits) /\ Len(s) > 0
        /\ \A i, j \in DOMAIN s : s[i] = s[j] => i = j
        /\ HrAdds(s, t)
        /\ t[1] # "manual" => \A x : HrAdds(s, x) => x = t
        /\ t[1] = "manual" => \A x : HrAdds(s, x) => \E n \in 1 .. MaxTurns : x = Manual(n)
    BY <2>1, HrCandidate
  <2>3. t[1] = "manual" => begun /\ ~HrManualMerged
    <3>1. SUFFICES ASSUME t[1] = "manual" PROVE begun /\ ~HrManualMerged
      OBVIOUS
    <3>2. PICK n \in 1 .. MaxTurns : t = Manual(n)
      BY <3>1, HrKinds
    <3>3. session.status # "none" /\ task[t].base = session.base /\ HrBehind(session)
      BY <1>0, <3>2 DEF HrInv, HrCode
    <3>4. Len(hist) \in Nat
      BY HrAt
    <3> QED BY <1>3, <3>3, <3>4 DEF HrInv, HrCode, HrBehind
  <2>4. \A x : HrAdds(s, x) => ~Merged(x)
    BY <1>1, <2>2, <2>3 DEF HrManualMerged
  <2>5. HrAppends(s)
    BY <1>3, <2>1, <2>2, <2>4 DEF HrAppends, HrAdds
  <2>6. PICK e : e = [task[t] EXCEPT !.pc = "verify"]
    OBVIOUS
  <2>7. e \in HrTaskRecords /\ e.pc = "verify" /\ e.base = task[t].base
    BY <1>r, <2>6 DEF HrTaskRecords, HrPcs
  <2>8. task' = [task EXCEPT ![t] = e]
    BY <1>3, <2>6 DEF Goto
  <2>9. /\ task' \in [Tasks -> HrTaskRecords] /\ task'[t] = e
        /\ \A u \in Tasks \ {t} : task'[u] = task[u]
    BY <1>r, <2>7, <2>8
  <2>10. /\ \A k \in Nat : ~HrAdds(s, <<"user", k>>)
         /\ ~begun => \A n \in 1 .. MaxTurns : ~HrAdds(s, Manual(n))
         /\ \A u \in Tasks : u[1] # "manual" /\ HrAdds(s, u) => u = t
    <3>1. CASE t[1] = "manual"
      <4>1. \A x : HrAdds(s, x) => \E n \in 1 .. MaxTurns : x = Manual(n)
        BY <2>2, <3>1
      <4>2. \A k \in Nat, n \in 1 .. MaxTurns : <<"user", k>> # Manual(n)
        BY DEF Manual
      <4> QED BY <2>3, <3>1, <4>1, <4>2, HrNames
    <3>2. CASE t[1] # "manual"
      <4>1. \A k \in Nat : <<"user", k>> # t
        BY HrNames
      <4>2. \A n \in 1 .. MaxTurns : Manual(n) # t
        BY <3>2, HrNames
      <4> QED BY <2>2, <3>2, <4>1, <4>2
    <3> QED BY <3>1, <3>2
  <2>11. HrMerges(s)
    <3>1. userSteps' \in Nat /\ userSteps' >= userSteps
      BY <1>0 DEF HrInv, HrTyped, HrEngineTyped
    <3>2. ASSUME NEW u \in Tasks
          PROVE  /\ \/ task'[u] = task[u]
                    \/ task[u].pc = "merge" /\ task'[u].pc = "verify" /\ task'[u].base = task[u].base
                 /\ u[1] # "manual" /\ HrAdds(s, u) => task[u].pc = "merge"
      BY <1>0, <2>7, <2>9, <2>10
    <3> QED BY <1>0, <2>5, <2>9, <2>10, <3>1, <3>2 DEF HrMerges
  <2>12. /\ hist' \in Seq(HrCommits) /\ Len(hist') > Len(hist) /\ Len(hist) \in Nat
         /\ \A x : Merged(x)' <=> Merged(x) \/ HrAdds(s, x)
    BY <2>11, HrGrown DEF HrMerges
  <2>13. HrEngine'
    <3>1. ASSUME NEW u \in Tasks
          PROVE  HrKnown(u, task'[u], inv[u], Merged(u)', Len(hist)')
      <4>1. CASE u # t
        <5>1. u[1] # "manual" => ~HrAdds(s, u)
          BY <2>10, <4>1
        <5> QED BY <2>9, <2>12, <4>1, <5>1, HrOthersKnow
      <4>2. CASE u = t
        <5>1. Merged(t)'
          BY <2>2, <2>12
        <5>2. t[1] \in {"dream", "capability"} =>
                inv[t].open /\ inv[t].intent /\ inv[t].base < Len(hist')
          <6>1. t[1] \in {"dream", "capability"} =>
                inv[t].open /\ inv[t].intent /\ inv[t].base = task[t].base
            BY <1>0, <1>r DEF HrKnown, HrAudited
          <6> QED BY <1>3, <2>12, <6>1
        <5>3. task'[u].pc = "verify"
          BY <2>7, <2>9, <4>2
        <5> QED BY <4>2, <5>1, <5>2, <5>3 DEF HrKnown, HrPlace, HrFresh, HrAudited, HrBefore, HrAfter
      <4> QED BY <4>1, <4>2
    <3> QED BY <1>0, <3>1 DEF HrEngine
  <2> QED BY <2>11, <2>13, HrMergeKeeps
<1> QED BY <1>2, <1>3 DEF FastForward

\* The user merges the branch of a coding session that a death took.
LEMMA HrUserMergesStray ==
  ASSUME HrInv, UserMergesStray, UNCHANGED dreamVars
  PROVE  HrInv'
<1>0. /\ userSteps' = userSteps + 1 /\ stray.turns > 0 /\ Len(hist) = stray.base
      /\ hist' = hist \o Candidate(Manual(stray.turns))
      /\ UNCHANGED <<task, inv, cap, proposal, evoUp, dreamVars, codeVars>>
  BY DEF UserMergesStray
<1>1. PICK n : n = stray.turns
  OBVIOUS
<1>2. n \in 1 .. MaxTurns /\ Manual(n) \in Tasks /\ Manual(n)[1] = "manual"
  BY <1>0, <1>1, HrNames, EvoAssumption DEF HrInv, HrTyped, HrCodeTyped, HrSessions
<1>3. PICK s : s = Candidate(Manual(n))
  OBVIOUS
<1>4. /\ s \in Seq(HrCommits) /\ Len(s) > 0
      /\ \A i, j \in DOMAIN s : s[i] = s[j] => i = j
      /\ \A x : HrAdds(s, x) => \E m \in 1 .. MaxTurns : x = Manual(m)
  BY <1>2, <1>3, HrCandidate
<1>5. begun /\ ~HrManualMerged
  <2>1. stray.status # "none" /\ HrBehind(stray)
    BY <1>0 DEF HrInv, HrCode
  <2>2. Len(hist) \in Nat
    BY DEF HrInv, HrTyped, HrEngineTyped
  <2> QED BY <1>0, <2>1, <2>2 DEF HrInv, HrCode, HrBehind
<1>6. \A x : HrAdds(s, x) => ~Merged(x)
  BY <1>4, <1>5 DEF HrManualMerged
<1>7. HrAppends(s)
  BY <1>0, <1>1, <1>3, <1>4, <1>6 DEF HrAppends, HrAdds
<1>8. /\ \A k \in Nat : ~HrAdds(s, <<"user", k>>)
      /\ \A u \in Tasks : u[1] # "manual" => ~HrAdds(s, u)
  <2>1. \A k \in Nat, m \in 1 .. MaxTurns : <<"user", k>> # Manual(m)
    BY DEF Manual
  <2> QED BY <1>4, <2>1, HrNames
<1>9. HrMerges(s)
  <2>1. userSteps' \in Nat /\ userSteps' >= userSteps /\ task' \in [Tasks -> HrTaskRecords]
    BY <1>0 DEF HrInv, HrTyped, HrEngineTyped
  <2>2. \A u \in Tasks : task'[u] = task[u] /\ (u[1] # "manual" => ~HrAdds(s, u))
    BY <1>0, <1>8
  <2> QED BY <1>0, <1>5, <1>7, <1>8, <2>1, <2>2 DEF HrMerges
<1>10. /\ hist' \in Seq(HrCommits) /\ Len(hist') > Len(hist) /\ Len(hist) \in Nat
       /\ \A x : Merged(x)' <=> Merged(x) \/ HrAdds(s, x)
  BY <1>9, HrGrown DEF HrMerges
<1>11. HrEngine'
  <2>1. ASSUME NEW u \in Tasks PROVE HrKnown(u, task[u], inv[u], Merged(u)', Len(hist)')
    BY <1>8, <1>10, HrOthersKnow
  <2> QED BY <1>0, <2>1 DEF HrEngine
<1> QED BY <1>9, <1>11, HrMergeKeeps

\* The Tool and the proposals: what they do to their own call disturbs nobody else.
HrCalls(t, e) ==
    /\ evoUp /\ t \in Tasks /\ t[1] \in {"capability", "error"} /\ e \in HrTaskRecords
    /\ task' = [task EXCEPT ![t] = e]
    /\ HrKnown(t, e, inv[t], Merged(t), Len(hist))
    /\ UNCHANGED <<gitVars, inv, evoUp, dreamVars, codeVars>>
LEMMA HrCallKeeps ==
  ASSUME HrInv, NEW t, NEW e, HrCalls(t, e),
         cap' \in [op : {"none", "running", "unknown", "completed", "not_applied"}, res : HrResults],
         proposal' \in HrResults \cup {"proposed", "confirmed", "rejected", "running"},
         HrCapability', HrError'
  PROVE  HrInv'
<1>0. /\ evoUp /\ t \in Tasks /\ t[1] \in {"capability", "error"} /\ e \in HrTaskRecords
      /\ task' = [task EXCEPT ![t] = e] /\ HrKnown(t, e, inv[t], Merged(t), Len(hist))
      /\ UNCHANGED <<hist, userSteps, inv, evoUp, dreamVars, codeVars>>
  BY DEF HrCalls, gitVars
<1>1. /\ task' \in [Tasks -> HrTaskRecords] /\ task'[t] = e
      /\ \A u \in Tasks \ {t} : task'[u] = task[u]
  BY <1>0 DEF HrInv, HrTyped, HrEngineTyped
<1>2. \A x : Merged(x)' <=> Merged(x)
  BY <1>0 DEF Merged
<1>3. HrTyped'
  <2>1. HrEngineTyped'
    BY <1>0, <1>1 DEF HrInv, HrTyped, HrEngineTyped
  <2> QED BY <1>0, <2>1 DEF HrInv, HrTyped, HrDreamTyped, HrCodeTyped, dreamVars, codeVars
<1>4. HrHistory'
  BY <1>0 DEF HrInv, HrHistory, Merged
<1>5. HrEngine'
  <2>1. ASSUME NEW u \in Tasks PROVE HrKnown(u, task'[u], inv[u], Merged(u), Len(hist))
    BY <1>0, <1>1 DEF HrInv, HrEngine
  <2> QED BY <1>0, <2>1 DEF HrEngine, Merged
<1>6. HrCode'
  <2>1. \A n \in 1 .. MaxTurns : task'[Manual(n)] = task[Manual(n)]
    BY <1>0, <1>1, HrNames
  <2>2. UNCHANGED <<session, begun, stray, intents, hist>>
    BY <1>0 DEF codeVars
  <2>3. HrManualMerged' = HrManualMerged
    BY <1>2 DEF HrManualMerged, Manual
  <2>4. HrBehind(session)' /\ HrBehind(stray)'
    BY <2>2, <2>3 DEF HrInv, HrCode, HrBehind
  <2> QED BY <1>2, <2>1, <2>2, <2>3, <2>4 DEF HrInv, HrCode, Manual
<1>7. HrDream'
  <2>1. \A g \in Gens : task'[Dream(g)] = task[Dream(g)]
    BY <1>0, <1>1, HrNames
  <2>2. UNCHANGED <<row, dreamRun, dreamOp, tick, verdict, restart, evoUp, hist>>
    BY <1>0 DEF dreamVars
  <2>3. tick.at = "finish" => row.gen \in Gens
    BY DEF HrInv, HrDream, HrTick, HrRow, HrWorking, HrTyped, HrDreamTyped, HrRows, Gens
  <2>4. HrGenerations'
    BY <1>2, <2>1, <2>2 DEF HrInv, HrDream, HrGenerations, Dream
  <2>5. HrTick'
    BY <2>1, <2>2, <2>3 DEF HrInv, HrDream, HrTick, Dream
  <2>6. HrRow'
    BY <1>2, <2>2 DEF HrInv, HrDream, HrRow, Dream
  <2> QED BY <2>4, <2>5, <2>6 DEF HrDream
<1>8. evoUp' /\ HrDown'
  BY <1>0 DEF HrDown
<1> QED BY <1>3, <1>4, <1>5, <1>6, <1>7, <1>8 DEF HrInv

\* A call that begins.
LEMMA HrCalled ==
  ASSUME NEW t \in Tasks, NEW b \in Nat, NEW pc \in HrPcs, HrTyped, Called(t, b, pc)
  PROVE  \E e \in HrTaskRecords : e.pc = pc /\ e.base = b /\ task' = [task EXCEPT ![t] = e]
<1>1. PICK e : e = [NotCalled EXCEPT !.pc = pc, !.base = b, !.try = 1]
  OBVIOUS
<1>2. e \in HrTaskRecords /\ e.pc = pc /\ e.base = b
  BY <1>1 DEF HrTaskRecords, NotCalled, HrResults
<1> QED BY <1>1, <1>2 DEF Called
LEMMA HrIdle ==
  NotCalled \in HrTaskRecords /\ NotCalled.pc = "none"
  BY DEF NotCalled, HrTaskRecords, HrPcs, HrResults

\* The harness_capability Tool.
LEMMA HrCapabilityStep ==
  ASSUME HrInv, CapabilityNext, UNCHANGED <<dreamVars, codeVars>>
  PROVE  HrInv'
<1>t. /\ Cap \in Tasks /\ Cap[1] = "capability" /\ Cap \notin HrErrors
      /\ cap.op \in {"none", "running", "unknown", "completed", "not_applied"} /\ cap.res \in HrResults
      /\ task[Cap] \in HrTaskRecords /\ inv[Cap] \in HrAudits
      /\ proposal \in HrResults \cup {"proposed", "confirmed", "rejected", "running"}
      /\ task \in [Tasks -> HrTaskRecords] /\ HrErrors \subseteq Tasks
  BY HrNames DEF HrInv, HrTyped, HrEngineTyped
<1>k. /\ HrCapability /\ HrError /\ HrKnown(Cap, task[Cap], inv[Cap], Merged(Cap), Len(hist))
      /\ HrTyped
  BY <1>t DEF HrInv, HrEngine
<1>e. ASSUME NEW e, task' = [task EXCEPT ![Cap] = e], UNCHANGED <<hist, proposal>>
      PROVE  HrError'
  <2>1. \A u \in HrErrors : task'[u] = task[u]
    BY <1>e, <1>t
  <2> QED BY <1>e, <1>k, <2>1 DEF HrError, Merged
<1>1. CASE CapabilityCalled
  <2>1. PICK e \in HrTaskRecords : e.pc = "open" /\ task' = [task EXCEPT ![Cap] = e]
    BY <1>1, <1>t, <1>k, HrCalled DEF CapabilityCalled, HrPcs
  <2>2. /\ ~Merged(Cap) /\ cap' = [op |-> "running", res |-> "none"]
        /\ UNCHANGED <<gitVars, inv, proposal, evoUp>> /\ evoUp
    BY <1>1, <1>k DEF CapabilityCalled, HrCapability
  <2>3. HrKnown(Cap, e, inv[Cap], Merged(Cap), Len(hist))
    BY <1>t, <2>1, <2>2 DEF HrKnown, HrPlace, HrFresh, HrAudited, HrBefore, HrAfter
  <2>4. HrCalls(Cap, e)
    BY <1>t, <2>1, <2>2, <2>3 DEF HrCalls
  <2>5. HrCapability'
    BY <2>2 DEF HrCapability
  <2>6. HrError'
    BY <1>e, <2>1, <2>2 DEF gitVars
  <2>7. cap' \in [op : {"none", "running", "unknown", "completed", "not_applied"}, res : HrResults]
    BY <2>2 DEF HrResults
  <2> QED BY <1>t, <2>2, <2>4, <2>5, <2>6, <2>7, HrCallKeeps
<1>2. CASE CapabilityReturns
  <2>1. /\ task[Cap].pc = "done" /\ task' = [task EXCEPT ![Cap] = NotCalled] /\ evoUp
        /\ UNCHANGED <<gitVars, inv, proposal, evoUp>>
    BY <1>2 DEF CapabilityReturns, EngineAt
  <2>2. cap' = IF task[Cap].res = "raised" THEN [op |-> "unknown", res |-> "none"]
                                           ELSE [op |-> "completed", res |-> task[Cap].res]
    BY <1>2 DEF CapabilityReturns
  <2>3. /\ cap'.op = "unknown" \/ cap'.op = "completed"
        /\ cap'.op = "completed" => cap'.res = task[Cap].res
        /\ cap' \in [op : {"none", "running", "unknown", "completed", "not_applied"}, res : HrResults]
    BY <1>t, <2>2 DEF HrTaskRecords, HrResults
  <2>4. HrKnown(Cap, NotCalled, inv[Cap], Merged(Cap), Len(hist))
    BY <1>k, HrIdle DEF HrKnown, HrPlace, HrFresh, HrAudited, HrBefore, HrAfter
  <2>5. HrCalls(Cap, NotCalled)
    BY <1>t, <2>1, <2>4, HrIdle DEF HrCalls
  <2>6. HrCapability'
    <3>1. task'[Cap].pc = "none"
      BY <1>t, <2>1, HrIdle
    <3>2. task[Cap].res = "merged" => Merged(Cap)
      BY <1>k, <2>1 DEF HrKnown, HrPlace
    <3>3. UNCHANGED hist
      BY <2>1 DEF gitVars
    <3> QED BY <2>3, <3>1, <3>2, <3>3 DEF HrCapability, Merged, Cap
  <2>7. HrError'
    BY <1>e, <2>1 DEF gitVars
  <2> QED BY <1>t, <2>1, <2>3, <2>5, <2>6, <2>7, HrCallKeeps
<1>3. CASE CapabilityReconciled
  <2>1. /\ cap.op = "unknown" /\ CapabilityEvidence # "UNKNOWN" /\ evoUp
        /\ cap' = IF CapabilityEvidence = "COMPLETED" THEN [op |-> "completed", res |-> "merged"]
                                                      ELSE [op |-> "not_applied", res |-> "none"]
        /\ UNCHANGED <<gitVars, task, inv, proposal, evoUp>>
    BY <1>3 DEF CapabilityReconciled
  <2>2. task' = [task EXCEPT ![Cap] = task[Cap]]
    BY <1>t, <2>1
  <2>3. HrCalls(Cap, task[Cap])
    BY <1>t, <1>k, <2>1, <2>2 DEF HrCalls
  <2>4. CapabilityEvidence = "COMPLETED" => Merged(Cap)
    <3>1. Len(hist) \in DOMAIN hist
      BY DEF HrInv, HrTyped, HrEngineTyped
    <3> QED BY <3>1 DEF CapabilityEvidence, HeadCommit, Merged
  <2>5. CapabilityEvidence # "COMPLETED" => ~Merged(Cap)
    <3>1. CapabilityEvidence # "COMPLETED" => ~inv[Cap].open
      BY <2>1 DEF CapabilityEvidence
    <3> QED BY <1>t, <1>k, <3>1 DEF HrKnown, HrAudited
  <2>6. HrCapability'
    <3>1. task[Cap].pc = "none"
      BY <1>k, <2>1 DEF HrCapability
    <3>2. UNCHANGED <<hist, task>>
      BY <2>1 DEF gitVars
    <3> QED BY <2>1, <2>4, <2>5, <3>1, <3>2 DEF HrCapability, Merged, Cap
  <2>7. HrError'
    BY <1>e, <2>1, <2>2 DEF gitVars
  <2>8. cap' \in [op : {"none", "running", "unknown", "completed", "not_applied"}, res : HrResults]
    BY <2>1 DEF HrResults
  <2> QED BY <1>t, <2>1, <2>3, <2>6, <2>7, <2>8, HrCallKeeps
<1> QED BY <1>1, <1>2, <1>3 DEF CapabilityNext

\* The ERROR proposals.
LEMMA HrErrorStep ==
  ASSUME HrInv, ErrorNext, UNCHANGED <<dreamVars, codeVars>>
  PROVE  HrInv'
<1>k. /\ HrCapability /\ HrError /\ HrTyped /\ Cap \notin HrErrors /\ HrErrors \subseteq Tasks
      /\ proposal \in HrResults \cup {"proposed", "confirmed", "rejected", "running"}
      /\ cap \in [op : {"none", "running", "unknown", "completed", "not_applied"}, res : HrResults]
      /\ task \in [Tasks -> HrTaskRecords]
  BY HrNames DEF HrInv, HrTyped, HrEngineTyped
<1>t. \A t \in HrErrors : /\ t \in Tasks /\ t[1] = "error" /\ task[t] \in HrTaskRecords
                          /\ HrKnown(t, task[t], inv[t], Merged(t), Len(hist))
  BY <1>k, HrNames DEF HrInv, HrEngine
<1>c. ASSUME NEW t \in HrErrors, NEW e, task' = [task EXCEPT ![t] = e], UNCHANGED <<hist, cap>>
      PROVE  HrCapability'
  <2>1. task'[Cap] = task[Cap]
    BY <1>c, <1>k, HrNames
  <2> QED BY <1>c, <1>k, <2>1 DEF HrCapability, Merged, Cap
<1>o. ASSUME NEW t \in HrErrors, NEW e, task' = [task EXCEPT ![t] = e]
      PROVE  task'[t] = e /\ \A u \in HrErrors \ {t} : task'[u] = task[u]
  BY <1>o, <1>k
<1>1. CASE RejectProposal
  <2>1. /\ evoUp /\ proposal = "proposed" /\ proposal' = "rejected"
        /\ UNCHANGED <<gitVars, task, inv, cap, evoUp, hist>>
    BY <1>1 DEF RejectProposal, gitVars
  <2>2. PICK t \in HrErrors : TRUE
    BY DEF HrErrors
  <2>3. task' = [task EXCEPT ![t] = task[t]]
    BY <1>k, <2>1
  <2>4. HrCalls(t, task[t])
    BY <1>t, <2>1, <2>3 DEF HrCalls
  <2>5. HrError'
    BY <2>1 DEF HrError
  <2>6. HrCapability'
    BY <1>c, <2>1, <2>3
  <2> QED BY <1>k, <2>1, <2>4, <2>5, <2>6, HrCallKeeps
<1>2. ASSUME NEW t \in HrErrors, ConfirmProposal(t) PROVE HrInv'
  <2>1. /\ evoUp /\ task[t] = NotCalled /\ proposal \in {"proposed", "confirmed"} /\ proposal' = "confirmed"
        /\ Called(t, 0, "queued") /\ UNCHANGED <<gitVars, inv, cap, evoUp, hist>>
    BY <1>2 DEF ConfirmProposal, gitVars
  <2>2. PICK e \in HrTaskRecords : e.pc = "queued" /\ task' = [task EXCEPT ![t] = e]
    BY <1>t, <1>k, <2>1, HrCalled DEF HrPcs
  <2>3. ~Merged(t)
    BY <1>k, <2>1 DEF HrError
  <2>4. HrCalls(t, e)
    BY <1>t, <2>1, <2>2, <2>3 DEF HrCalls, HrKnown, HrPlace, HrFresh, HrBefore, HrAfter
  <2>5. HrError'
    <3>1. ASSUME NEW u \in HrErrors PROVE task'[u].pc \in {"none", "queued"} /\ ~Merged(u)'
      BY <1>k, <1>o, <2>1, <2>2 DEF HrError, Merged
    <3> QED BY <2>1, <3>1 DEF HrError
  <2>6. HrCapability'
    BY <1>c, <2>1, <2>2
  <2> QED BY <1>k, <2>1, <2>4, <2>5, <2>6, HrCallKeeps
<1>3. ASSUME NEW t \in HrErrors, ExecuteError(t) PROVE HrInv'
  <2>1. /\ evoUp /\ task[t].pc = "queued" /\ UNCHANGED <<gitVars, inv, cap, evoUp, hist>>
    BY <1>3 DEF ExecuteError, EngineAt, gitVars
  <2>2. ~Merged(t)
    BY <1>t, <2>1 DEF HrKnown, HrFresh, HrBefore
  <2>3. CASE proposal \in {"confirmed", "running"} /\ proposal' = "running" /\ Goto(t, "open")
    <3>1. PICK e : e = [task[t] EXCEPT !.pc = "open"]
      OBVIOUS
    <3>2. e \in HrTaskRecords /\ e.pc = "open"
      BY <1>t, <3>1 DEF HrTaskRecords, HrPcs
    <3>3. task' = [task EXCEPT ![t] = e]
      BY <2>3, <3>1 DEF Goto
    <3>4. HrCalls(t, e)
      BY <1>t, <2>1, <2>2, <3>2, <3>3 DEF HrCalls, HrKnown, HrPlace, HrFresh, HrBefore, HrAfter
    <3>5. HrError'
      BY <2>3 DEF HrError
    <3>6. HrCapability'
      BY <1>c, <2>1, <3>3
    <3> QED BY <1>k, <2>1, <2>3, <3>4, <3>5, <3>6, HrCallKeeps
  <2>4. CASE proposal \notin {"confirmed", "running"} /\ End(t, "raised") /\ UNCHANGED proposal
    <3>1. PICK e : e = [task[t] EXCEPT !.pc = "done", !.res = "raised"]
      OBVIOUS
    <3>2. e \in HrTaskRecords /\ e.pc = "done" /\ e.res = "raised"
      BY <1>t, <3>1 DEF HrTaskRecords, HrPcs, HrResults
    <3>3. task' = [task EXCEPT ![t] = e]
      BY <2>4, <3>1 DEF End
    <3>4. HrCalls(t, e)
      BY <1>t, <2>1, <2>2, <3>2, <3>3 DEF HrCalls, HrKnown, HrPlace, HrFresh, HrBefore, HrAfter
    <3>5. HrError'
      BY <1>k, <2>1, <2>4 DEF HrError, Merged
    <3>6. HrCapability'
      BY <1>c, <2>1, <3>3
    <3> QED BY <1>k, <2>1, <2>4, <3>4, <3>5, <3>6, HrCallKeeps
  <2> QED BY <1>3, <2>3, <2>4 DEF ExecuteError
<1>4. ASSUME NEW t \in HrErrors, ErrorReturns(t) PROVE HrInv'
  <2>1. /\ evoUp /\ task[t].pc = "done" /\ Goto(t, "returned")
        /\ proposal' = (IF task[t].res = "raised" THEN proposal ELSE task[t].res)
        /\ UNCHANGED <<gitVars, inv, cap, evoUp, hist>>
    BY <1>4 DEF ErrorReturns, EngineAt, gitVars
  <2>2. PICK e : e = [task[t] EXCEPT !.pc = "returned"]
    OBVIOUS
  <2>3. e \in HrTaskRecords /\ e.pc = "returned"
    BY <1>t, <2>2 DEF HrTaskRecords, HrPcs
  <2>4. task' = [task EXCEPT ![t] = e]
    BY <2>1, <2>2 DEF Goto
  <2>5. HrCalls(t, e)
    BY <1>t, <2>1, <2>3, <2>4 DEF HrCalls, HrKnown, HrPlace, HrFresh, HrBefore, HrAfter
  <2>6. task[t].res \in HrResults /\ proposal \notin {"proposed", "confirmed"}
    BY <1>k, <1>t, <2>1 DEF HrError, HrTaskRecords
  <2>7. proposal' \in HrResults \cup {"rejected", "running"}
    BY <1>k, <2>1, <2>6
  <2>8. task[t].res = "merged" => Merged(t)
    BY <1>t, <2>1 DEF HrKnown, HrPlace
  <2>9. HrError'
    <3>1. proposal' \notin {"proposed", "confirmed"}
      BY <2>7 DEF HrResults
    <3>2. proposal' = "merged" => \E u \in HrErrors : Merged(u)
      BY <1>k, <2>1, <2>8 DEF HrError
    <3> QED BY <2>1, <3>1, <3>2 DEF HrError, Merged
  <2>10. HrCapability'
    BY <1>c, <2>1, <2>4
  <2> QED BY <1>k, <2>1, <2>5, <2>7, <2>9, <2>10, HrCallKeeps
<1> QED BY <1>1, <1>2, <1>3, <1>4 DEF ErrorNext, HrErrors

\* The coding session: what it does to its own calls and records disturbs nobody else.
LEMMA HrCodeKeeps ==
  ASSUME HrInv, UNCHANGED <<gitVars, inv, cap, proposal, evoUp, dreamVars>>,
         task' \in [Tasks -> HrTaskRecords], HrCodeTyped', HrCode',
         evoUp \/ UNCHANGED task,
         \A u \in Tasks : u[1] # "manual" => task'[u] = task[u],
         \A u \in Tasks : u[1] = "manual" => HrPlace(task'[u], Merged(u))
  PROVE  HrInv'
<1>1. UNCHANGED <<hist, userSteps, inv, cap, proposal, evoUp, dreamVars>>
  BY DEF gitVars
<1>2. \A x : Merged(x)' <=> Merged(x)
  BY <1>1 DEF Merged
<1>3. HrTyped'
  <2>1. HrEngineTyped'
    BY <1>1 DEF HrInv, HrTyped, HrEngineTyped
  <2> QED BY <1>1, <2>1 DEF HrInv, HrTyped, HrDreamTyped, dreamVars
<1>4. HrHistory'
  BY <1>1 DEF HrInv, HrHistory, Merged
<1>5. HrEngine'
  <2>1. ASSUME NEW u \in Tasks PROVE HrKnown(u, task'[u], inv[u], Merged(u), Len(hist))
    BY DEF HrInv, HrEngine, HrKnown
  <2> QED BY <1>1, <2>1 DEF HrEngine, Merged
<1>6. HrCapability' /\ HrError'
  <2>1. task'[Cap] = task[Cap] /\ \A u \in HrErrors : task'[u] = task[u]
    BY HrNames
  <2> QED BY <1>1, <1>2, <2>1 DEF HrInv, HrCapability, HrError, Cap
<1>7. HrDream'
  <2>1. \A g \in Gens : task'[Dream(g)] = task[Dream(g)]
    BY HrNames
  <2>2. UNCHANGED <<row, dreamRun, dreamOp, tick, verdict, restart, evoUp, hist>>
    BY <1>1 DEF dreamVars
  <2>3. tick.at = "finish" => row.gen \in Gens
    BY DEF HrInv, HrDream, HrTick, HrRow, HrWorking, HrTyped, HrDreamTyped, HrRows, Gens
  <2>4. HrGenerations'
    BY <1>2, <2>1, <2>2 DEF HrInv, HrDream, HrGenerations, Dream
  <2>5. HrTick'
    BY <2>1, <2>2, <2>3 DEF HrInv, HrDream, HrTick, Dream
  <2>6. HrRow'
    BY <1>2, <2>2 DEF HrInv, HrDream, HrRow, Dream
  <2> QED BY <2>4, <2>5, <2>6 DEF HrDream
<1>8. HrDown'
  BY <1>1 DEF HrInv, HrDown, dreamVars
<1> QED BY <1>3, <1>4, <1>5, <1>6, <1>7, <1>8 DEF HrInv

\* A session begins, works, and is given up; the branch a death left is deleted.
LEMMA HrSessionStep ==
  ASSUME HrInv, CodeStart \/ CodeTurn \/ Abort \/ DeleteStray, UNCHANGED dreamVars
  PROVE  HrInv'
<1>1. UNCHANGED <<engineVars, intents>>
  BY DEF CodeStart, CodeTurn, Abort, DeleteStray
<1>2. UNCHANGED <<gitVars, inv, cap, proposal, evoUp, task, hist>>
  BY <1>1 DEF engineVars, gitVars
<1>t. /\ session \in HrSessions /\ stray \in HrSessions /\ begun \in BOOLEAN /\ HrCode
      /\ intents \in [1 .. MaxTurns -> {"none", "pending", "committed", "recovery_required"}]
      /\ MaxTurns \in Nat /\ Len(hist) \in Nat
  BY EvoAssumption DEF HrInv, HrTyped, HrCodeTyped, HrEngineTyped
<1>n. NoSession \in HrSessions /\ NoSession.status = "none" /\ NoSession.turns = 0
  BY <1>t DEF NoSession, HrSessions
<1>3. HrManualMerged' = HrManualMerged /\ \A n \in 1 .. MaxTurns : Merged(Manual(n))' = Merged(Manual(n))
  BY <1>2 DEF HrManualMerged, Merged, Manual
<1>4. HrCodeTyped' /\ HrCode'
  <2>1. CASE CodeStart
    <3>1. /\ ~begun /\ begun' /\ UNCHANGED stray
          /\ session' = [status |-> "active", base |-> Len(hist), turns |-> 0]
      BY <2>1 DEF CodeStart
    <3>2. session' \in HrSessions /\ session'.status = "active" /\ session'.base = Len(hist)
      BY <1>t, <3>1 DEF HrSessions
    <3>3. ~HrManualMerged /\ stray.status = "none"
      BY <1>t, <3>1 DEF HrCode
    <3>4. \A n \in 1 .. MaxTurns : task[Manual(n)].pc = "none"
      BY <1>t, <3>1 DEF HrCode
    <3>5. HrBehind(session)' /\ HrBehind(stray)'
      BY <1>2, <1>3, <1>t, <3>1, <3>2, <3>3 DEF HrBehind
    <3>6. HrCodeTyped'
      BY <1>1, <1>t, <3>1, <3>2 DEF HrCodeTyped
    <3>7. HrCode'
      BY <1>1, <1>2, <1>3, <1>t, <3>1, <3>2, <3>3, <3>4, <3>5 DEF HrCode, Manual
    <3> QED BY <3>6, <3>7
  <2>2. CASE CodeTurn
    <3>1. UNCHANGED <<begun, stray>> /\ session.status # "none"
      BY <2>2 DEF CodeTurn, Active
    <3>2. session' \in HrSessions /\ session'.status # "none" /\ session'.base = session.base
      <4>1. CASE /\ session.turns < MaxTurns
                 /\ session' = [session EXCEPT !.turns = @ + 1, !.status = "active"]
        <5>1. session = [status |-> session.status, base |-> session.base, turns |-> session.turns]
              /\ session.base \in Nat /\ session.turns \in 0 .. MaxTurns
          BY <1>t DEF HrSessions
        <5>2. session' = [status |-> "active", base |-> session.base, turns |-> session.turns + 1]
          BY <4>1, <5>1
        <5>3. session.turns + 1 \in 0 .. MaxTurns
          BY <1>t, <4>1, <5>1
        <5> QED BY <5>1, <5>2, <5>3 DEF HrSessions
      <4>2. CASE session' = [session EXCEPT !.status = "unverified"]
        BY <1>t, <4>2 DEF HrSessions
      <4> QED BY <2>2, <4>1, <4>2 DEF CodeTurn
    <3>3. HrBehind(session)' /\ HrBehind(stray)'
      BY <1>2, <1>3, <1>t, <3>1, <3>2 DEF HrCode, HrBehind
    <3>4. HrCodeTyped'
      BY <1>1, <1>t, <3>1, <3>2 DEF HrCodeTyped
    <3>5. HrCode'
      BY <1>1, <1>2, <1>3, <1>t, <3>1, <3>2, <3>3 DEF HrCode, Manual
    <3> QED BY <3>4, <3>5
  <2>3. CASE Abort
    <3>1. UNCHANGED <<begun, stray>> /\ session' = NoSession
          /\ \A n \in 1 .. MaxTurns : task[Manual(n)].pc = "none"
      BY <2>3 DEF Abort, Active, Finalizing
    <3>2. HrBehind(session)' /\ HrBehind(stray)'
      BY <1>2, <1>3, <1>n, <1>t, <3>1 DEF HrCode, HrBehind
    <3>3. HrCodeTyped'
      BY <1>1, <1>n, <1>t, <3>1 DEF HrCodeTyped
    <3>4. HrCode'
      BY <1>1, <1>2, <1>3, <1>n, <1>t, <3>1, <3>2 DEF HrCode, Manual
    <3> QED BY <3>3, <3>4
  <2>4. CASE DeleteStray
    <3>1. UNCHANGED <<begun, session>> /\ stray' = NoSession
      BY <2>4 DEF DeleteStray
    <3>2. HrBehind(session)' /\ HrBehind(stray)'
      BY <1>2, <1>3, <1>n, <1>t, <3>1 DEF HrCode, HrBehind
    <3>3. HrCodeTyped'
      BY <1>1, <1>n, <1>t, <3>1 DEF HrCodeTyped
    <3>4. stray'.status = "none" /\ stray'.turns = 0 /\ UNCHANGED <<begun, session, task, intents>>
      BY <1>1, <1>2, <1>n, <3>1
    <3>5. ASSUME NEW n \in 1 .. MaxTurns
          PROVE  /\ task'[Manual(n)].pc \notin {"queued", "open", "coding", "returned"}
                 /\ task'[Manual(n)].pc # "none" =>
                    /\ session'.status # "none" /\ task'[Manual(n)].base = session'.base
                    /\ \A m \in 1 .. MaxTurns : task'[Manual(m)].pc # "none" => m = n
                 /\ intents'[n] = "committed" => Merged(Manual(n))'
      BY <1>3, <1>t, <3>4 DEF HrCode
    <3>6. ~begun' => session'.status = "none" /\ stray'.status = "none" /\ ~HrManualMerged'
      BY <1>3, <1>t, <3>4 DEF HrCode
    <3>7. stray'.turns > 0 => stray'.status # "none"
      BY <3>4
    <3>8. HrCode'
      BY <3>2, <3>5, <3>6, <3>7 DEF HrCode, Manual
    <3> QED BY <3>3, <3>8
  <2> QED BY <2>1, <2>2, <2>3, <2>4
<1>5. /\ task' \in [Tasks -> HrTaskRecords]
      /\ \A u \in Tasks : task'[u] = task[u] /\ HrPlace(task'[u], Merged(u))
  BY <1>2 DEF HrInv, HrTyped, HrEngineTyped, HrEngine, HrKnown
<1> QED BY <1>2, <1>4, <1>5, HrCodeKeeps

\* The /exit of a session: its merge is called, and what it answers is recorded.
LEMMA HrCodeRest ==
  ASSUME HrInv, Finalize \/ FinalizeBlocked \/ CommitGrants \/ FinalizeEnds
  PROVE  /\ UNCHANGED <<gitVars, inv, cap, proposal, evoUp, hist, stray, begun>> /\ evoUp
         /\ session \in HrSessions /\ stray \in HrSessions /\ begun \in BOOLEAN /\ HrCode
         /\ intents \in [1 .. MaxTurns -> {"none", "pending", "committed", "recovery_required"}]
         /\ task \in [Tasks -> HrTaskRecords] /\ MaxTurns \in Nat /\ begun
         /\ session.status # "none"
         /\ \A n \in 1 .. MaxTurns : Merged(Manual(n))' = Merged(Manual(n))
         /\ HrManualMerged' = HrManualMerged
         /\ HrBehind(session) /\ HrBehind(stray)
<1>1. UNCHANGED <<gitVars, inv, cap, proposal, evoUp, stray, begun>>
  BY DEF Finalize, FinalizeBlocked, CommitGrants, FinalizeEnds
<1>2. UNCHANGED hist
  BY <1>1 DEF gitVars
<1>3. /\ session \in HrSessions /\ stray \in HrSessions /\ begun \in BOOLEAN /\ HrCode
      /\ intents \in [1 .. MaxTurns -> {"none", "pending", "committed", "recovery_required"}]
      /\ task \in [Tasks -> HrTaskRecords] /\ MaxTurns \in Nat
  BY EvoAssumption DEF HrInv, HrTyped, HrCodeTyped, HrEngineTyped
<1>4. evoUp /\ session.status # "none"
  <2>1. ASSUME NEW n \in 1 .. MaxTurns, NEW pc \in {"done", "merged", "granted"},
               EngineAt(Manual(n), pc)
        PROVE  evoUp /\ session.status # "none"
    BY <1>3, <2>1 DEF EngineAt, HrCode
  <2>2. Finalize => evoUp /\ session.status # "none"
    BY DEF Finalize, Active
  <2> QED BY <2>1, <2>2 DEF FinalizeBlocked, CommitGrants, FinalizeEnds
<1>5. begun
  BY <1>3, <1>4 DEF HrCode
<1>6. /\ \A n \in 1 .. MaxTurns : Merged(Manual(n))' = Merged(Manual(n))
      /\ HrManualMerged' = HrManualMerged
  BY <1>2 DEF HrManualMerged, Merged, Manual
<1> QED BY <1>1, <1>2, <1>3, <1>4, <1>5, <1>6 DEF HrCode

LEMMA HrFinalize ==
  ASSUME HrInv, Finalize, UNCHANGED dreamVars
  PROVE  HrInv'
<1>c. /\ UNCHANGED <<gitVars, inv, cap, proposal, evoUp, hist, stray, begun>> /\ evoUp
      /\ session \in HrSessions /\ stray \in HrSessions /\ begun \in BOOLEAN /\ HrCode
      /\ intents \in [1 .. MaxTurns -> {"none", "pending", "committed", "recovery_required"}]
      /\ task \in [Tasks -> HrTaskRecords] /\ MaxTurns \in Nat /\ begun
      /\ session.status # "none"
      /\ \A n \in 1 .. MaxTurns : Merged(Manual(n))' = Merged(Manual(n))
      /\ HrManualMerged' = HrManualMerged
      /\ HrBehind(session) /\ HrBehind(stray)
  BY HrCodeRest
<1>n. NoSession \in HrSessions /\ NoSession.status = "none" /\ NoSession.turns = 0
  BY <1>c DEF NoSession, HrSessions
<1>1. \A n \in 1 .. MaxTurns : task[Manual(n)].pc = "none"
  BY DEF Finalize, Active, Finalizing
<1>2. HrBehind(stray)' /\ session.turns \in 0 .. MaxTurns /\ session.base \in Nat
  BY <1>c DEF HrBehind, HrSessions
<1>3. CASE session.turns = 0
  <2>1. session' = NoSession /\ UNCHANGED <<task, intents>>
    BY <1>3 DEF Finalize
  <2>2. HrBehind(session)'
    BY <1>n, <2>1 DEF HrBehind
  <2>3. HrCodeTyped'
    BY <1>c, <1>n, <2>1 DEF HrCodeTyped
  <2>4. HrCode'
    BY <1>c, <1>1, <1>2, <1>n, <2>1, <2>2 DEF HrCode, Manual
  <2>5. \A u \in Tasks : task'[u] = task[u] /\ HrPlace(task'[u], Merged(u))
    BY <2>1 DEF HrInv, HrEngine, HrKnown
  <2>6. task' \in [Tasks -> HrTaskRecords]
    BY <1>c, <2>1
  <2> QED BY <1>c, <2>3, <2>4, <2>5, <2>6, HrCodeKeeps
<1>4. CASE session.turns # 0
  <2> DEFINE n == session.turns
  <2>0. n \in 1 .. MaxTurns /\ Manual(n) \in Tasks /\ Manual(n)[1] = "manual"
    BY <1>c, <1>2, <1>4, HrNames
  <2>1. /\ intents' = [intents EXCEPT ![n] = IF @ = "none" THEN "pending" ELSE @]
        /\ Called(Manual(n), session.base, "check") /\ UNCHANGED session
    BY <1>4 DEF Finalize
  <2>2. PICK e \in HrTaskRecords : /\ e.pc = "check" /\ e.base = session.base
                                   /\ task' = [task EXCEPT ![Manual(n)] = e]
    <3>1. "check" \in HrPcs /\ HrTyped
      BY DEF HrPcs, HrInv
    <3> HIDE DEF n
    <3> QED BY <1>2, <2>0, <2>1, <3>1, HrCalled
  <2>3. task' \in [Tasks -> HrTaskRecords] /\ task'[Manual(n)] = e
        /\ \A u \in Tasks \ {Manual(n)} : task'[u] = task[u]
    BY <1>c, <2>0, <2>2
  <2>4. /\ intents' \in [1 .. MaxTurns -> {"none", "pending", "committed", "recovery_required"}]
        /\ \A m \in 1 .. MaxTurns : intents'[m] = "committed" => intents[m] = "committed"
    BY <1>c, <2>0, <2>1
  <2> HIDE DEF n
  <2>5. HrCodeTyped'
    BY <1>c, <2>1, <2>4 DEF HrCodeTyped
  <2>6. ASSUME NEW m \in 1 .. MaxTurns
        PROVE  /\ task'[Manual(m)].pc \in {"none", "check"}
               /\ task'[Manual(m)].pc # "none" => m = n /\ task'[Manual(m)].base = session.base
    <3>1. Manual(m) = Manual(n) => m = n
      BY <2>0, HrNames
    <3>2. Manual(m) \in Tasks
      BY HrNames
    <3> QED BY <1>1, <2>2, <2>3, <3>1, <3>2
  <2>7. HrBehind(session)'
    BY <1>c, <2>1 DEF HrBehind
  <2>8. HrCode'
    <3>1. ASSUME NEW m \in 1 .. MaxTurns
          PROVE  /\ task'[Manual(m)].pc \notin {"queued", "open", "coding", "returned"}
                 /\ task'[Manual(m)].pc # "none" =>
                    /\ session'.status # "none" /\ task'[Manual(m)].base = session'.base
                    /\ \A k \in 1 .. MaxTurns : task'[Manual(k)].pc # "none" => k = m
                 /\ intents'[m] = "committed" => Merged(Manual(m))'
      BY <1>c, <2>1, <2>4, <2>6 DEF HrCode
    <3>2. stray'.turns > 0 => stray'.status # "none"
      BY <1>c DEF HrCode
    <3> QED BY <1>c, <1>2, <2>7, <3>1, <3>2 DEF HrCode, Manual
  <2>9. ASSUME NEW u \in Tasks PROVE HrPlace(task'[u], Merged(u))
    <3>1. CASE u = Manual(n)
      BY <2>2, <2>3, <3>1 DEF HrPlace, HrAfter
    <3>2. CASE u # Manual(n)
      BY <2>3, <3>2 DEF HrInv, HrEngine, HrKnown
    <3> QED BY <3>1, <3>2
  <2>10. \A u \in Tasks : u[1] # "manual" => task'[u] = task[u]
    BY <2>0, <2>3
  <2> QED BY <1>c, <2>3, <2>5, <2>8, <2>9, <2>10, HrCodeKeeps
<1> QED BY <1>3, <1>4

LEMMA HrFinalized ==
  ASSUME HrInv, FinalizeBlocked \/ CommitGrants \/ FinalizeEnds, UNCHANGED dreamVars
  PROVE  HrInv'
<1>c. /\ UNCHANGED <<gitVars, inv, cap, proposal, evoUp, hist, stray, begun>> /\ evoUp
      /\ session \in HrSessions /\ stray \in HrSessions /\ begun \in BOOLEAN /\ HrCode
      /\ intents \in [1 .. MaxTurns -> {"none", "pending", "committed", "recovery_required"}]
      /\ task \in [Tasks -> HrTaskRecords] /\ MaxTurns \in Nat /\ begun
      /\ session.status # "none"
      /\ \A n \in 1 .. MaxTurns : Merged(Manual(n))' = Merged(Manual(n))
      /\ HrManualMerged' = HrManualMerged
      /\ HrBehind(session) /\ HrBehind(stray)
  BY HrCodeRest
<1>n. NoSession \in HrSessions /\ NoSession.status = "none"
  BY <1>c DEF NoSession, HrSessions
<1>1. PICK n \in 1 .. MaxTurns :
        \/ /\ EngineAt(Manual(n), "merged") /\ Goto(Manual(n), "granted") /\ UNCHANGED session
           /\ intents' = [intents EXCEPT ![n] = "committed"]
        \/ /\ EngineAt(Manual(n), "done") /\ task' = [task EXCEPT ![Manual(n)] = NotCalled]
           /\ session' = [session EXCEPT !.status = "main_changed"] /\ UNCHANGED intents
        \/ /\ EngineAt(Manual(n), "granted") /\ task' = [task EXCEPT ![Manual(n)] = NotCalled]
           /\ session' = NoSession /\ UNCHANGED intents
  BY DEF FinalizeBlocked, CommitGrants, FinalizeEnds
<1>2. Manual(n) \in Tasks /\ Manual(n)[1] = "manual" /\ task[Manual(n)] \in HrTaskRecords
  BY <1>c, HrNames
<1>3. /\ task[Manual(n)].pc # "none" /\ task[Manual(n)].base = session.base
      /\ \A m \in 1 .. MaxTurns : m # n => task[Manual(m)].pc = "none"
  BY <1>c, <1>1 DEF HrCode, EngineAt
<1>4. HrBehind(stray)' /\ HrPlace(task[Manual(n)], Merged(Manual(n)))
  BY <1>c, <1>2 DEF HrBehind, HrInv, HrEngine, HrKnown
<1>5. PICK e \in HrTaskRecords :
         /\ task' = [task EXCEPT ![Manual(n)] = e]
         /\ e.pc \in {"none", "granted"}
         /\ e.pc = "granted" => /\ Merged(Manual(n)) /\ e.base = session.base /\ UNCHANGED session
                                /\ intents' = [intents EXCEPT ![n] = "committed"]
         /\ e.pc = "none" => /\ UNCHANGED intents
                             /\ \/ session' = NoSession
                                \/ session' = [session EXCEPT !.status = "main_changed"]
  <2>1. CASE /\ EngineAt(Manual(n), "merged") /\ Goto(Manual(n), "granted") /\ UNCHANGED session
             /\ intents' = [intents EXCEPT ![n] = "committed"]
    <3> DEFINE e == [task[Manual(n)] EXCEPT !.pc = "granted"]
    <3>1. e \in HrTaskRecords /\ e.pc = "granted" /\ e.base = session.base
      BY <1>2, <1>3 DEF HrTaskRecords, HrPcs
    <3>2. task' = [task EXCEPT ![Manual(n)] = e]
      BY <2>1 DEF Goto
    <3>3. Merged(Manual(n))
      BY <1>4, <2>1 DEF EngineAt, HrPlace, HrAfter
    <3> HIDE DEF e
    <3> QED BY <2>1, <3>1, <3>2, <3>3
  <2>2. CASE task' = [task EXCEPT ![Manual(n)] = NotCalled] /\ UNCHANGED intents
             /\ (session' = NoSession \/ session' = [session EXCEPT !.status = "main_changed"])
    <3>1. NotCalled.pc \in {"none", "granted"} /\ NotCalled.pc # "granted"
      BY HrIdle
    <3> QED BY <2>2, <3>1, HrIdle
  <2> QED BY <1>1, <2>1, <2>2
<1>6. task' \in [Tasks -> HrTaskRecords] /\ task'[Manual(n)] = e
      /\ \A u \in Tasks \ {Manual(n)} : task'[u] = task[u]
  BY <1>c, <1>2, <1>5
<1>7. session' \in HrSessions /\ HrBehind(session)'
  <2>1. CASE session' = NoSession
    BY <1>n, <2>1 DEF HrBehind
  <2>2. CASE session' = [session EXCEPT !.status = "main_changed"] \/ UNCHANGED session
    <3>1. session' \in HrSessions /\ session'.base = session.base
      BY <1>c, <2>2 DEF HrSessions
    <3> QED BY <1>c, <3>1 DEF HrBehind
  <2> QED BY <1>5, <2>1, <2>2
<1>8. /\ intents' \in [1 .. MaxTurns -> {"none", "pending", "committed", "recovery_required"}]
      /\ \A m \in 1 .. MaxTurns : intents'[m] = "committed" => Merged(Manual(m))
  BY <1>c, <1>5 DEF HrCode
<1>9. ASSUME NEW m \in 1 .. MaxTurns
      PROVE  IF m = n THEN task'[Manual(m)] = e ELSE task'[Manual(m)].pc = "none"
  <2>1. Manual(m) = Manual(n) => m = n
    BY HrNames
  <2>2. Manual(m) \in Tasks
    BY HrNames
  <2> QED BY <1>3, <1>6, <2>1, <2>2
<1>10. HrCodeTyped'
  BY <1>c, <1>7, <1>8 DEF HrCodeTyped
<1>11. HrCode'
  <2>1. ASSUME NEW m \in 1 .. MaxTurns
        PROVE  /\ task'[Manual(m)].pc \notin {"queued", "open", "coding", "returned"}
               /\ task'[Manual(m)].pc # "none" =>
                    /\ session'.status # "none" /\ task'[Manual(m)].base = session'.base
                    /\ \A k \in 1 .. MaxTurns : task'[Manual(k)].pc # "none" => k = m
               /\ intents'[m] = "committed" => Merged(Manual(m))'
    BY <1>c, <1>5, <1>8, <1>9
  <2>2. stray'.turns > 0 => stray'.status # "none"
    BY <1>c DEF HrCode
  <2> QED BY <1>c, <1>4, <1>7, <2>1, <2>2 DEF HrCode, Manual
<1>12. ASSUME NEW u \in Tasks PROVE HrPlace(task'[u], Merged(u))
  <2>1. CASE u = Manual(n)
    BY <1>5, <1>6, <2>1 DEF HrPlace, HrAfter
  <2>2. CASE u # Manual(n)
    BY <1>6, <2>2 DEF HrInv, HrEngine, HrKnown
  <2> QED BY <2>1, <2>2
<1>13. \A u \in Tasks : u[1] # "manual" => task'[u] = task[u]
  BY <1>2, <1>6
<1> QED BY <1>c, <1>6, <1>10, <1>11, <1>12, <1>13, HrCodeKeeps

\* Every step of the coding session.
LEMMA HrCodeStep ==
  ASSUME HrInv, CodeNext, UNCHANGED dreamVars
  PROVE  HrInv'
  BY HrSessionStep, HrFinalize, HrFinalized, HrUserMergesStray DEF CodeNext

\* The Dream: what a step on its own rows and its own call leaves as it was.
LEMMA HrDreamKeeps ==
  ASSUME HrInv, evoUp, UNCHANGED <<gitVars, inv, cap, proposal, evoUp, codeVars>>,
         task' \in [Tasks -> HrTaskRecords], HrDreamTyped', HrDream',
         \A u \in Tasks : u[1] # "dream" => task'[u] = task[u],
         \A u \in Tasks : u[1] = "dream" => HrKnown(u, task'[u], inv[u], Merged(u), Len(hist))
  PROVE  HrInv'
<1>1. UNCHANGED <<hist, userSteps, inv, cap, proposal, evoUp, session, begun, stray, intents>>
  BY DEF gitVars, codeVars
<1>2. \A x : Merged(x)' <=> Merged(x)
  BY <1>1 DEF Merged
<1>3. HrTyped'
  <2>1. HrEngineTyped'
    BY <1>1 DEF HrInv, HrTyped, HrEngineTyped
  <2>2. HrCodeTyped'
    BY <1>1 DEF HrInv, HrTyped, HrCodeTyped
  <2> QED BY <2>1, <2>2 DEF HrTyped
<1>4. HrHistory'
  BY <1>1 DEF HrInv, HrHistory, Merged
<1>5. HrEngine'
  <2>1. ASSUME NEW u \in Tasks PROVE HrKnown(u, task'[u], inv[u], Merged(u), Len(hist))
    BY DEF HrInv, HrEngine
  <2> QED BY <1>1, <2>1 DEF HrEngine, Merged
<1>6. HrCapability' /\ HrError'
  <2>1. task'[Cap] = task[Cap] /\ \A u \in HrErrors : task'[u] = task[u]
    BY HrNames
  <2> QED BY <1>1, <1>2, <2>1 DEF HrInv, HrCapability, HrError, Cap
<1>7. HrCode'
  <2>1. \A n \in 1 .. MaxTurns : task'[Manual(n)] = task[Manual(n)]
    BY HrNames
  <2>2. HrManualMerged' = HrManualMerged
    BY <1>2 DEF HrManualMerged, Manual
  <2>3. HrBehind(session)' /\ HrBehind(stray)'
    BY <1>1, <2>2 DEF HrInv, HrCode, HrBehind
  <2> QED BY <1>1, <1>2, <2>1, <2>2, <2>3 DEF HrInv, HrCode, Manual
<1>8. HrDown'
  BY <1>1 DEF HrDown
<1> QED BY <1>3, <1>4, <1>5, <1>6, <1>7, <1>8 DEF HrInv

\* A step on its rows only.
LEMMA HrRowsKeep ==
  ASSUME HrInv, evoUp, UNCHANGED <<engineVars, codeVars>>,
         HrDreamTyped', HrGenerations', HrTick', HrRow'
  PROVE  HrInv'
<1>1. UNCHANGED <<gitVars, inv, cap, proposal, evoUp, task>>
  BY DEF engineVars, gitVars
<1>2. task' \in [Tasks -> HrTaskRecords]
  BY <1>1 DEF HrInv, HrTyped, HrEngineTyped
<1>3. \A u \in Tasks : HrKnown(u, task'[u], inv[u], Merged(u), Len(hist))
  BY <1>1 DEF HrInv, HrEngine
<1> QED BY <1>1, <1>2, <1>3, HrDreamKeeps DEF HrDream

\* The row, its generation and its rows in the other tables.
LEMMA HrDreamFacts ==
  ASSUME HrInv
  PROVE  /\ row \in HrRows /\ tick \in HrTicks
         /\ dreamRun \in [Gens -> {"none", "running", "recovery", "terminal"}]
         /\ dreamOp \in [Gens -> [status : {"none", "prepared", "running", "completed",
                                            "unknown", "failed"}, res : HrResults]]
         /\ verdict \in [gen : 0 .. MaxGenerations,
                         status : {"none", "COMPLETED", "NOT_APPLIED", "UNKNOWN"}]
         /\ HrGenerations /\ HrTick /\ HrRow
         /\ row.gen \in 0 .. MaxGenerations /\ row.rev \in Nat /\ MaxGenerations \in Nat
         /\ Gens = 1 .. MaxGenerations
         /\ row.gen # 0 => row.gen \in Gens
         /\ row.status \notin {"absent", "discovered", "no_changes"} => row.gen \in Gens
         /\ tick.at \in HrWorking => row.gen \in Gens
         /\ tick.rev \in Nat
<1>1. /\ row \in HrRows /\ tick \in HrTicks
      /\ dreamRun \in [Gens -> {"none", "running", "recovery", "terminal"}]
      /\ dreamOp \in [Gens -> [status : {"none", "prepared", "running", "completed",
                                         "unknown", "failed"}, res : HrResults]]
      /\ verdict \in [gen : 0 .. MaxGenerations,
                      status : {"none", "COMPLETED", "NOT_APPLIED", "UNKNOWN"}]
      /\ HrGenerations /\ HrTick /\ HrRow
  BY DEF HrInv, HrTyped, HrDreamTyped, HrDream
<1>2. row.gen \in 0 .. MaxGenerations /\ row.rev \in Nat /\ MaxGenerations \in Nat /\ tick.rev \in Nat
  BY <1>1, EvoAssumption DEF HrRows, HrTicks
<1>3. Gens = 1 .. MaxGenerations /\ (row.gen # 0 => row.gen \in Gens)
  BY <1>2 DEF Gens
<1>4. row.status \notin {"absent", "discovered", "no_changes"} => row.gen \in Gens
  BY <1>1, <1>3 DEF HrRow
<1>5. tick.at \in HrWorking => row.gen \in Gens
  BY <1>1, <1>4 DEF HrTick
<1> QED BY <1>1, <1>2, <1>3, <1>4, <1>5

\* reconcile_dream answers COMPLETED only for a merged candidate, NOT_APPLIED only for another.
LEMMA HrEvidence ==
  ASSUME HrInv, NEW g \in Gens
  PROVE  /\ DreamEvidence(g) \in {"COMPLETED", "NOT_APPLIED", "UNKNOWN"}
         /\ DreamEvidence(g) = "COMPLETED" => Merged(Dream(g))
         /\ DreamEvidence(g) = "NOT_APPLIED" => ~Merged(Dream(g))
         /\ Recovered(g) \in {"COMPLETED", "NOT_APPLIED", "UNKNOWN"}
         /\ Recovered(g) = "COMPLETED" => Merged(Dream(g))
         /\ Recovered(g) = "NOT_APPLIED" => ~Merged(Dream(g))
<1>1. Dream(g) \in Tasks /\ Dream(g)[1] = "dream"
  BY HrNames
<1>2. /\ HrKnown(Dream(g), task[Dream(g)], inv[Dream(g)], Merged(Dream(g)), Len(hist))
      /\ inv[Dream(g)] \in HrAudits /\ Len(hist) \in Nat
  BY <1>1, HrAt
<1>3. Merged(Dream(g)) => /\ inv[Dream(g)].open /\ inv[Dream(g)].intent
                          /\ inv[Dream(g)].base < Len(hist)
  BY <1>1, <1>2 DEF HrKnown, HrAudited
<1>4. HeadCommit = Dream(g) => Merged(Dream(g))
  <2>1. Len(hist) \in DOMAIN hist
    BY DEF HrInv, HrTyped, HrEngineTyped
  <2> QED BY <2>1 DEF HeadCommit, Merged
<1>5. inv[Dream(g)].base \in Nat
  BY <1>2 DEF HrAudits
<1>6. /\ DreamEvidence(g) \in {"COMPLETED", "NOT_APPLIED", "UNKNOWN"}
      /\ DreamEvidence(g) = "COMPLETED" => Merged(Dream(g))
      /\ DreamEvidence(g) = "NOT_APPLIED" => ~Merged(Dream(g))
  BY <1>2, <1>3, <1>4, <1>5 DEF DreamEvidence
<1>7. dreamOp[g].status = "completed" /\ dreamOp[g].res = "merged" => Merged(Dream(g))
  BY HrDreamFacts DEF HrGenerations
<1>8. dreamOp[g].status = "none" => Recovered(g) = "UNKNOWN"
  BY DEF Recovered
<1>9. dreamOp[g].status = "completed" =>
        Recovered(g) = IF dreamOp[g].res = "merged" THEN "COMPLETED" ELSE "UNKNOWN"
  BY DEF Recovered
<1>10. dreamOp[g].status \notin {"none", "completed"} => Recovered(g) = DreamEvidence(g)
  BY DEF Recovered
<1> QED BY <1>6, <1>7, <1>8, <1>9, <1>10

\* A changeset is claimed or selected.
LEMMA HrClaim ==
  ASSUME HrInv, Claim, UNCHANGED codeVars
  PROVE  HrInv'
<1>f. /\ row \in HrRows /\ tick \in HrTicks /\ HrGenerations /\ HrTick /\ HrRow
      /\ MaxGenerations \in Nat /\ HrDreamTyped
  BY HrDreamFacts DEF HrInv, HrTyped
<1>1. /\ evoUp /\ tick.at = "idle" /\ row.status = "absent" /\ row.gen = 0
      /\ UNCHANGED <<engineVars, dreamRun, dreamOp, tick, verdict, revert, restart>>
  BY <1>f DEF Claim, HrRow
<1>2. PICK found \in {"discovered", "no_changes"} : row' = RowClaimed(found)
  BY DEF Claim
<1>3. row' = [status |-> found, gen |-> 0, active |-> 0, rev |-> 0, res |-> "none"]
  BY <1>2 DEF RowClaimed, NoRow
<1>4. row' \in HrRows
  BY <1>f, <1>3 DEF HrRows, HrResults
<1>5. UNCHANGED <<task, hist, evoUp>>
  BY <1>1 DEF engineVars
<1>6. \A x : Merged(x)' <=> Merged(x)
  BY <1>5 DEF Merged
<1>7. HrDreamTyped'
  BY <1>f, <1>1, <1>4 DEF HrDreamTyped
<1>8. HrGenerations'
  BY <1>f, <1>1, <1>3, <1>5, <1>6 DEF HrGenerations, Dream
<1>9. HrTick'
  BY <1>f, <1>1, <1>3, <1>5 DEF HrTick, HrWorking
<1>10. HrRow'
  BY <1>f, <1>1, <1>3, <1>6 DEF HrRow, Dream
<1> QED BY <1>1, <1>7, <1>8, <1>9, <1>10, HrRowsKeep

LEMMA HrSelectChangeset ==
  ASSUME HrInv, NEW caller, SelectChangeset(caller), UNCHANGED codeVars
  PROVE  HrInv'
<1>f. /\ row \in HrRows /\ tick \in HrTicks /\ HrGenerations /\ HrTick /\ HrRow
      /\ row.rev \in Nat /\ HrDreamTyped
  BY HrDreamFacts DEF HrInv, HrTyped
<1>1. /\ evoUp /\ tick.at = "idle"
      /\ UNCHANGED <<engineVars, row, dreamRun, dreamOp, verdict, revert, restart>>
      /\ tick' = [at |-> "start", rev |-> row.rev, blocked |-> caller = "decision"]
  BY DEF SelectChangeset
<1>2. row.status \in {"discovered", "deferred", "failed", "blocked"}
  BY <1>f DEF SelectChangeset, Runnable, HrRows, Outcomes
<1>3. tick' \in HrTicks /\ tick'.at = "start" /\ tick'.rev = row.rev
  BY <1>f, <1>1 DEF HrTicks
<1>5. UNCHANGED <<task, hist, evoUp>>
  BY <1>1 DEF engineVars
<1>6. \A x : Merged(x)' <=> Merged(x)
  BY <1>5 DEF Merged
<1>7. HrDreamTyped'
  BY <1>f, <1>1, <1>3 DEF HrDreamTyped
<1>8. HrGenerations'
  BY <1>f, <1>1, <1>5, <1>6 DEF HrGenerations, Dream
<1>9. HrTick'
  BY <1>f, <1>1, <1>2, <1>3, <1>5 DEF HrTick, HrWorking
<1>10. HrRow'
  BY <1>f, <1>1, <1>6 DEF HrRow, Dream
<1> QED BY <1>1, <1>7, <1>8, <1>9, <1>10, HrRowsKeep

\* A generation starts only from a row whose earlier generations merged nothing.
LEMMA HrStartGeneration ==
  ASSUME HrInv, StartDreamGeneration, UNCHANGED codeVars
  PROVE  HrInv'
<1>f. /\ row \in HrRows /\ tick \in HrTicks /\ HrGenerations /\ HrTick /\ HrRow
      /\ row.rev \in Nat /\ HrDreamTyped /\ row.gen \in 0 .. MaxGenerations
      /\ MaxGenerations \in Nat /\ Gens = 1 .. MaxGenerations
  BY HrDreamFacts DEF HrInv, HrTyped
<1>1. /\ evoUp /\ tick.at = "start" /\ UNCHANGED <<engineVars, dreamRun, dreamOp, verdict, revert, restart>>
  BY DEF StartDreamGeneration, Tick
<1>5. UNCHANGED <<task, hist, evoUp>>
  BY <1>1 DEF engineVars
<1>6. \A x : Merged(x)' <=> Merged(x)
  BY <1>5 DEF Merged
<1>t. \A at \in {"idle", "run"} : StepTo(at) => tick' \in HrTicks /\ tick'.at = at
  BY <1>f DEF StepTo, HrTicks
<1>2. CASE MayStart
  <2>1. /\ row.gen < MaxGenerations /\ StepTo("run")
        /\ row' = [row EXCEPT !.status = "running", !.gen = @ + 1, !.active = row.gen + 1, !.rev = @ + 1]
    BY <1>2 DEF StartDreamGeneration
  <2>2. row.status \in {"discovered", "deferred", "failed", "blocked"}
    BY <1>f, <1>1, <1>2 DEF MayStart, HrTick
  <2>3. row' = [status |-> "running", gen |-> row.gen + 1, active |-> row.gen + 1,
                rev |-> row.rev + 1, res |-> row.res]
    BY <1>f, <2>1 DEF HrRows
  <2>4. row' \in HrRows /\ row.gen + 1 \in 1 .. MaxGenerations
    BY <1>f, <2>1, <2>3 DEF HrRows
  <2>5. tick' \in HrTicks /\ tick'.at = "run"
    BY <1>t, <2>1
  <2>6. \A g \in Gens : ~Merged(Dream(g))
    BY <1>f, <2>2 DEF HrGenerations, HrRow
  <2>7. dreamRun[row.gen + 1] = "none"
    BY <1>f, <2>4 DEF HrGenerations
  <2>8. HrDreamTyped'
    BY <1>f, <1>1, <2>4, <2>5 DEF HrDreamTyped
  <2>9. HrGenerations'
    <3>1. ASSUME NEW g \in Gens
          PROVE  /\ task[Dream(g)].pc \in {"none", "done"}
                 /\ ~Merged(Dream(g))' /\ ~Merged(Dream(g))
                 /\ g > row'.gen => g > row.gen
      BY <1>f, <1>1, <1>6, <2>3, <2>6 DEF HrGenerations, Dream
    <3>2. ASSUME NEW g \in Gens
          PROVE  /\ task'[Dream(g)].pc \in {"none", "done"} /\ ~Merged(Dream(g))'
                 /\ g > row'.gen => dreamRun'[g] = "none"
                 /\ dreamRun'[g] = "none" => dreamOp'[g].status = "none"
                 /\ ~(dreamOp'[g].status = "completed" /\ dreamOp'[g].res = "merged")
      BY <1>f, <1>1, <1>5, <3>1 DEF HrGenerations
    <3> QED BY <3>2 DEF HrGenerations, Dream
  <2>10. HrTick'
    BY <1>1, <1>5, <2>3, <2>5, <2>7 DEF HrTick, HrWorking
  <2>11. HrRow'
    BY <1>f, <1>1, <2>2, <2>3, <2>4 DEF HrRow
  <2> QED BY <1>1, <2>8, <2>9, <2>10, <2>11, HrRowsKeep
<1>3. CASE ~MayStart
  <2>1. UNCHANGED row /\ tick' \in HrTicks /\ tick'.at = "idle"
    BY <1>3, <1>t DEF StartDreamGeneration
  <2>2. row.status # "running"
    BY <1>f, <1>1 DEF HrTick, HrWorking
  <2>3. HrDreamTyped'
    BY <1>f, <1>1, <2>1 DEF HrDreamTyped
  <2>4. HrGenerations'
    BY <1>f, <1>1, <1>5, <1>6, <2>1 DEF HrGenerations, Dream
  <2>5. HrTick'
    BY <1>5, <2>1, <2>2 DEF HrTick, HrWorking
  <2>6. HrRow'
    BY <1>f, <1>1, <1>6, <2>1 DEF HrRow, Dream
  <2> QED BY <1>1, <2>3, <2>4, <2>5, <2>6, HrRowsKeep
<1> QED BY <1>2, <1>3

\* Its Run and its Operation are created.
LEMMA HrAttempt ==
  ASSUME HrInv, BeginRun \/ CreateAttempt, UNCHANGED codeVars
  PROVE  HrInv'
<1>f. /\ row \in HrRows /\ tick \in HrTicks /\ HrGenerations /\ HrTick /\ HrRow
      /\ HrDreamTyped /\ Gens = 1 .. MaxGenerations
      /\ dreamRun \in [Gens -> {"none", "running", "recovery", "terminal"}]
      /\ dreamOp \in [Gens -> [status : {"none", "prepared", "running", "completed",
                                         "unknown", "failed"}, res : HrResults]]
  BY HrDreamFacts DEF HrInv, HrTyped
<1>1. evoUp /\ UNCHANGED <<engineVars, row, verdict, revert, restart>>
  BY DEF BeginRun, CreateAttempt, Tick
<1>2. row.gen \in Gens /\ row.status = "running"
  BY <1>f, HrDreamFacts DEF BeginRun, CreateAttempt, Tick, HrWorking, HrTick
<1>5. UNCHANGED <<task, hist, evoUp>>
  BY <1>1 DEF engineVars
<1>6. \A x : Merged(x)' <=> Merged(x)
  BY <1>5 DEF Merged
<1>t. \A at \in {"create", "attempt"} : StepTo(at) => tick' \in HrTicks /\ tick'.at = at
  BY <1>f DEF StepTo, HrTicks
<1>7. CASE BeginRun
  <2>1. /\ tick.at = "run" /\ dreamRun' = [dreamRun EXCEPT ![row.gen] = "running"]
        /\ UNCHANGED dreamOp /\ tick' \in HrTicks /\ tick'.at = "create"
    BY <1>7, <1>t DEF BeginRun, Tick
  <2>2. /\ dreamRun' \in [Gens -> {"none", "running", "recovery", "terminal"}]
        /\ dreamRun'[row.gen] = "running"
        /\ \A g \in Gens : g # row.gen => dreamRun'[g] = dreamRun[g]
    BY <1>f, <1>2, <2>1
  <2>3. dreamOp[row.gen].status = "none"
    BY <1>f, <1>2, <2>1 DEF HrTick, HrGenerations
  <2>4. HrDreamTyped'
    BY <1>f, <1>1, <2>1, <2>2 DEF HrDreamTyped
  <2>5. HrGenerations'
    <3>1. ASSUME NEW g \in Gens
          PROVE  /\ task[Dream(g)].pc \in {"none", "done"}
                 /\ g > row.gen => dreamRun'[g] = "none"
                 /\ dreamRun'[g] = "none" => dreamRun[g] = "none"
      BY <1>f, <1>2, <2>1, <2>2 DEF HrGenerations
    <3> QED BY <1>f, <1>1, <1>5, <1>6, <2>1, <3>1 DEF HrGenerations, Dream
  <2>6. HrTick'
    BY <1>1, <1>2, <1>5, <2>1, <2>2, <2>3 DEF HrTick, HrWorking
  <2>7. HrRow'
    BY <1>f, <1>1, <1>6 DEF HrRow, Dream
  <2> QED BY <1>1, <2>4, <2>5, <2>6, <2>7, HrRowsKeep
<1>8. CASE CreateAttempt
  <2>1. /\ tick.at = "create" /\ dreamOp' = [dreamOp EXCEPT ![row.gen].status = "prepared"]
        /\ UNCHANGED dreamRun /\ tick' \in HrTicks /\ tick'.at = "attempt"
    BY <1>8, <1>t DEF CreateAttempt, Tick
  <2>2. /\ dreamOp' \in [Gens -> [status : {"none", "prepared", "running", "completed",
                                            "unknown", "failed"}, res : HrResults]]
        /\ dreamOp'[row.gen].status = "prepared"
        /\ \A g \in Gens : g # row.gen => dreamOp'[g] = dreamOp[g]
    BY <1>f, <1>2, <2>1
  <2>3. dreamOp[row.gen].status = "none" /\ dreamRun[row.gen] # "none" /\ ~Merged(Dream(row.gen))
    BY <1>f, <1>2, <2>1 DEF HrTick, HrGenerations
  <2>4. HrDreamTyped'
    BY <1>f, <1>1, <2>1, <2>2 DEF HrDreamTyped
  <2>5. HrGenerations'
    <3>1. ASSUME NEW g \in Gens
          PROVE  /\ task[Dream(g)].pc \in {"none", "done"}
                 /\ Merged(Dream(g)) => g = row.gen /\ dreamOp'[g].status \notin {"none", "prepared"}
                 /\ dreamRun[g] = "none" => dreamOp'[g].status = "none"
                 /\ dreamOp'[g].status = "completed" /\ dreamOp'[g].res = "merged" => Merged(Dream(g))
      BY <1>f, <1>2, <2>1, <2>2, <2>3 DEF HrGenerations
    <3> QED BY <1>f, <1>1, <1>5, <1>6, <2>1, <3>1 DEF HrGenerations, Dream
  <2>6. HrTick'
    BY <1>1, <1>2, <1>5, <2>1, <2>2, <2>3 DEF HrTick, HrWorking
  <2>7. HrRow'
    BY <1>f, <1>1, <1>6 DEF HrRow, Dream
  <2> QED BY <1>1, <2>4, <2>5, <2>6, <2>7, HrRowsKeep
<1> QED BY <1>7, <1>8

\* The engine is called once for a generation whose Operation was only prepared.
LEMMA HrStartAttempt ==
  ASSUME HrInv, StartDreamAttempt, UNCHANGED codeVars
  PROVE  HrInv'
<1>f. /\ row \in HrRows /\ tick \in HrTicks /\ HrGenerations /\ HrTick /\ HrRow
      /\ HrDreamTyped /\ Gens = 1 .. MaxGenerations
      /\ dreamOp \in [Gens -> [status : {"none", "prepared", "running", "completed",
                                         "unknown", "failed"}, res : HrResults]]
  BY HrDreamFacts DEF HrInv, HrTyped
<1>1. /\ evoUp /\ tick.at = "attempt" /\ Called(Dream(row.gen), 0, "open") /\ StepTo("record")
      /\ dreamOp' = [dreamOp EXCEPT ![row.gen].status = "running"]
      /\ UNCHANGED <<gitVars, inv, cap, proposal, evoUp, row, dreamRun, verdict, revert, restart>>
  BY DEF StartDreamAttempt, Tick, ExecuteDream
<1> DEFINE d == row.gen
<1>2. d \in Gens /\ row.status = "running" /\ dreamOp[d].status = "prepared"
  BY <1>f, <1>1, HrDreamFacts DEF HrWorking, HrTick
<1>3. ~Merged(Dream(d)) /\ dreamRun[d] # "none"
  BY <1>f, <1>2 DEF HrGenerations
<1>4. Dream(d) \in Tasks /\ Dream(d)[1] = "dream" /\ \A g \in Gens : Dream(g) = Dream(d) => g = d
  BY <1>2, HrNames
<1>5. UNCHANGED <<hist, evoUp>> /\ \A x : Merged(x)' <=> Merged(x)
  BY <1>1 DEF gitVars, Merged
<1>6. tick' \in HrTicks /\ tick'.at = "record"
  BY <1>f, <1>1 DEF StepTo, HrTicks
<1>7. PICK e \in HrTaskRecords : e.pc = "open" /\ task' = [task EXCEPT ![Dream(d)] = e]
  <2>1. "open" \in HrPcs /\ HrTyped /\ 0 \in Nat
    BY DEF HrPcs, HrInv
  <2> QED BY <1>1, <1>4, <2>1, HrCalled
<1>8. /\ task' \in [Tasks -> HrTaskRecords] /\ task'[Dream(d)] = e
      /\ \A u \in Tasks \ {Dream(d)} : task'[u] = task[u]
  BY <1>4, <1>7 DEF HrInv, HrTyped, HrEngineTyped
<1>9. /\ dreamOp' \in [Gens -> [status : {"none", "prepared", "running", "completed",
                                          "unknown", "failed"}, res : HrResults]]
      /\ dreamOp'[d].status = "running" /\ \A g \in Gens : g # d => dreamOp'[g] = dreamOp[g]
  BY <1>f, <1>1, <1>2
<1>10. HrDreamTyped'
  BY <1>f, <1>1, <1>6, <1>9 DEF HrDreamTyped
<1>11. HrGenerations'
  <2>1. ASSUME NEW g \in Gens
        PROVE  /\ task'[Dream(g)].pc \notin {"none", "done"} => g = d
               /\ Merged(Dream(g)) => g = d /\ dreamOp'[g].status \notin {"none", "prepared"}
               /\ g > d => dreamRun[g] = "none"
               /\ dreamRun[g] = "none" => dreamOp'[g].status = "none"
               /\ dreamOp'[g].status = "completed" /\ dreamOp'[g].res = "merged" => Merged(Dream(g))
    <3>1. CASE g = d
      <4>1. ~(g > d) /\ dreamOp'[g].status = "running"
        BY <1>f, <1>2, <1>9, <3>1, HrDreamFacts
      <4> QED BY <1>2, <1>3, <3>1, <4>1
    <3>2. CASE g # d
      <4>1. task'[Dream(g)] = task[Dream(g)] /\ dreamOp'[g] = dreamOp[g]
        BY <1>4, <1>8, <1>9, <3>2, HrNames
      <4> QED BY <1>f, <3>2, <4>1 DEF HrGenerations
    <3> QED BY <3>1, <3>2
  <2>2. row'.gen = d /\ UNCHANGED dreamRun
    BY <1>1
  <2>3. \A g \in Gens : Merged(Dream(g))' <=> Merged(Dream(g))
    BY <1>5 DEF Merged, Dream
  <2> HIDE DEF d
  <2> QED BY <1>6, <2>1, <2>2, <2>3 DEF HrGenerations, Dream
<1>12. HrTick'
  BY <1>1, <1>2, <1>6, <1>9 DEF HrTick, HrWorking
<1>13. HrRow'
  BY <1>f, <1>1, <1>5 DEF HrRow, Dream
<1>14. ASSUME NEW u \in Tasks PROVE HrKnown(u, task'[u], inv[u], Merged(u), Len(hist))
  <2>1. CASE u = Dream(d)
    BY <1>3, <1>7, <1>8, <2>1
       DEF HrKnown, HrPlace, HrFresh, HrAudited, HrBefore, HrAfter
  <2>2. CASE u # Dream(d)
    BY <1>8, <2>2 DEF HrInv, HrEngine
  <2> QED BY <2>1, <2>2
<1>15. \A u \in Tasks : u[1] # "dream" => task'[u] = task[u]
  BY <1>4, <1>8
<1>16. HrDream'
  BY <1>11, <1>12, <1>13 DEF HrDream
<1> QED BY <1>1, <1>8, <1>10, <1>14, <1>15, <1>16, HrDreamKeeps

\* What the engine answered of the generation of the row.
LEMMA HrAnswered ==
  ASSUME HrInv, row.gen \in Gens, task[Dream(row.gen)].pc = "done"
  PROVE  LET res == task[Dream(row.gen)].res
             outcome == OutcomeOf(res)
         IN  /\ res \in HrResults /\ outcome \in Outcomes
             /\ res = "merged" => Merged(Dream(row.gen))
             /\ outcome = "success" => res = "merged" \/ ~Merged(Dream(row.gen))
             /\ outcome \in {"failed", "deferred", "blocked"} => ~Merged(Dream(row.gen))
<1> DEFINE t == Dream(row.gen)
           res == task[t].res
<1>1. t \in Tasks /\ t[1] = "dream"
  BY HrNames
<1>2. task[t] \in HrTaskRecords /\ HrKnown(t, task[t], inv[t], Merged(t), Len(hist))
  BY <1>1, HrAt
<1>3. res \in HrResults
  BY <1>2 DEF HrTaskRecords
<1>4. /\ res = "merged" => Merged(t)
      /\ res \notin {"merged", "unknown", "raised"} => ~Merged(t)
  BY <1>1, <1>2 DEF HrKnown, HrPlace, HrFresh
<1>5. /\ OutcomeOf(res) \in Outcomes
      /\ OutcomeOf(res) = "success" => res \in {"merged", "no_code_changes"}
      /\ OutcomeOf(res) \in {"failed", "deferred", "blocked"} =>
            res \notin {"merged", "unknown", "raised"}
  BY DEF OutcomeOf, Outcomes
<1> QED BY <1>3, <1>4, <1>5

\* The result is recorded in the Operation, then in the row.
LEMMA HrRecordAttempt ==
  ASSUME HrInv, RecordAttempt, UNCHANGED codeVars
  PROVE  HrInv'
<1>f. /\ row \in HrRows /\ tick \in HrTicks /\ HrGenerations /\ HrTick /\ HrRow
      /\ HrDreamTyped /\ Gens = 1 .. MaxGenerations
      /\ dreamOp \in [Gens -> [status : {"none", "prepared", "running", "completed",
                                         "unknown", "failed"}, res : HrResults]]
  BY HrDreamFacts DEF HrInv, HrTyped
<1> DEFINE d == row.gen
           res == task[Dream(d)].res
           outcome == OutcomeOf(res)
           o == [status |-> IF outcome \in {"unknown", "failed"} THEN outcome ELSE "completed",
                 res |-> IF outcome \in {"unknown", "failed"} THEN "none" ELSE res]
<1>1. /\ evoUp /\ tick.at = "record" /\ task[Dream(d)].pc = "done" /\ StepTo("finish")
      /\ dreamOp' = [dreamOp EXCEPT ![d] = o]
      /\ UNCHANGED <<engineVars, row, dreamRun, verdict, revert, restart>>
  BY DEF RecordAttempt, Tick, EngineAt
<1>2. d \in Gens /\ row.status = "running" /\ dreamOp[d].status = "running"
  BY <1>f, <1>1, HrDreamFacts DEF HrWorking, HrTick
<1>3. dreamRun[d] # "none"
  BY <1>f, <1>2 DEF HrGenerations
<1>4. /\ o \in [status : {"none", "prepared", "running", "completed", "unknown", "failed"},
                res : HrResults]
      /\ o.status \in {"completed", "unknown", "failed"}
      /\ o.res = "merged" => Merged(Dream(d))
  <2>1. res \in HrResults /\ (res = "merged" => Merged(Dream(d)))
    BY <1>1, <1>2, HrAnswered
  <2>2. "none" \in HrResults
    BY DEF HrResults
  <2> HIDE DEF res, outcome
  <2>3. o.status \in {"completed", "unknown", "failed"} /\ o.res \in {"none", res}
    OBVIOUS
  <2> QED BY <2>1, <2>2, <2>3
<1> HIDE DEF o, outcome, res
<1>5. UNCHANGED <<task, hist, evoUp>> /\ \A x : Merged(x)' <=> Merged(x)
  BY <1>1 DEF engineVars, Merged
<1>6. tick' \in HrTicks /\ tick'.at = "finish"
  BY <1>f, <1>1 DEF StepTo, HrTicks
<1>7. /\ dreamOp' \in [Gens -> [status : {"none", "prepared", "running", "completed",
                                          "unknown", "failed"}, res : HrResults]]
      /\ dreamOp'[d] = o /\ \A g \in Gens : g # d => dreamOp'[g] = dreamOp[g]
  BY <1>f, <1>1, <1>2, <1>4
<1>8. HrDreamTyped'
  BY <1>f, <1>1, <1>6, <1>7 DEF HrDreamTyped
<1>9. HrGenerations'
  <2>1. ASSUME NEW g \in Gens
        PROVE  /\ task[Dream(g)].pc \in {"none", "done"}
               /\ Merged(Dream(g)) => g = d /\ dreamOp'[g].status \notin {"none", "prepared"}
               /\ dreamRun[g] = "none" => dreamOp'[g].status = "none"
               /\ dreamOp'[g].status = "completed" /\ dreamOp'[g].res = "merged" => Merged(Dream(g))
    <3>1. CASE g = d
      BY <1>1, <1>3, <1>4, <1>7, <3>1
    <3>2. CASE g # d
      BY <1>f, <1>7, <3>2 DEF HrGenerations
    <3> QED BY <3>1, <3>2
  <2> QED BY <1>f, <1>1, <1>5, <2>1 DEF HrGenerations, Dream
<1>10. HrTick'
  BY <1>1, <1>2, <1>5, <1>6 DEF HrTick, HrWorking, Dream
<1>11. HrRow'
  BY <1>f, <1>1, <1>5 DEF HrRow, Dream
<1> QED BY <1>1, <1>8, <1>9, <1>10, <1>11, HrRowsKeep

\* A row that changes while no Dream step is on its way: its generation, its run and its operation stay.
LEMMA HrRowChanges ==
  ASSUME HrInv, evoUp, UNCHANGED <<engineVars, codeVars, dreamRun, dreamOp, revert>>,
         row' \in HrRows, row'.gen = row.gen, row.gen \in Gens, row'.status \notin {"absent", "running"},
         tick' \in HrTicks, tick'.at \notin HrWorking,
         tick'.at = "start" => tick'.rev < row'.rev,
         \A g \in Gens : task[Dream(g)].pc \in {"none", "done"},
         verdict' \in [gen : 0 .. MaxGenerations,
                       status : {"none", "COMPLETED", "NOT_APPLIED", "UNKNOWN"}],
         HrRow'
  PROVE  HrInv'
<1>f. HrGenerations /\ HrDreamTyped
  BY HrDreamFacts DEF HrInv, HrTyped
<1>1. UNCHANGED <<task, hist, evoUp, dreamRun, dreamOp>> /\ \A x : Merged(x)' <=> Merged(x)
  BY DEF engineVars, Merged
<1>2. HrDreamTyped'
  BY <1>f DEF HrDreamTyped
<1>3. HrGenerations'
  <2>1. ASSUME NEW g \in Gens
        PROVE  /\ task'[Dream(g)].pc \in {"none", "done"}
               /\ Merged(Dream(g))' => g = row'.gen /\ dreamOp'[g].status \notin {"none", "prepared"}
               /\ g > row'.gen => dreamRun'[g] = "none"
               /\ dreamRun'[g] = "none" => dreamOp'[g].status = "none"
               /\ dreamOp'[g].status = "completed" /\ dreamOp'[g].res = "merged" => Merged(Dream(g))'
    BY <1>f, <1>1 DEF HrGenerations, Dream
  <2> QED BY <2>1 DEF HrGenerations, Dream
<1>4. row'.rev \in Nat /\ tick'.rev \in Nat
  BY DEF HrRows, HrTicks
<1>5. HrTick'
  BY <1>1, <1>4 DEF HrTick, HrWorking
<1> QED BY <1>2, <1>3, <1>5, HrRowsKeep

LEMMA HrFinishGeneration ==
  ASSUME HrInv, FinishGeneration, UNCHANGED codeVars
  PROVE  HrInv'
<1>f. /\ row \in HrRows /\ tick \in HrTicks /\ HrGenerations /\ HrTick /\ HrRow
      /\ HrDreamTyped /\ row.rev \in Nat
  BY HrDreamFacts DEF HrInv, HrTyped
<1> DEFINE d == row.gen
           res == task[Dream(d)].res
           outcome == OutcomeOf(res)
<1>1. /\ evoUp /\ tick.at = "finish" /\ StepTo("end") /\ Finished(outcome, res)
      /\ UNCHANGED <<engineVars, dreamRun, dreamOp, verdict, revert, restart>>
  BY DEF FinishGeneration, Tick
<1>2. d \in Gens /\ row.status = "running" /\ task[Dream(d)].pc = "done" /\ row.active = d
  BY <1>f, <1>1, HrDreamFacts DEF HrWorking, HrTick, HrRow
<1>3. /\ res \in HrResults /\ outcome \in Outcomes
      /\ res = "merged" => Merged(Dream(d))
      /\ outcome = "success" => res = "merged" \/ ~Merged(Dream(d))
      /\ outcome \in {"failed", "deferred", "blocked"} => ~Merged(Dream(d))
  BY <1>2, HrAnswered
<1> HIDE DEF res, outcome
<1>4. row' = [status |-> outcome, gen |-> d, rev |-> row.rev + 1, res |-> res,
              active |-> IF outcome = "unknown" THEN d ELSE 0]
  BY <1>f, <1>1, <1>2 DEF Finished, HrRows
<1>5. row' \in HrRows /\ row'.gen = d /\ row'.status = outcome /\ row'.res = res
      /\ row'.active = (IF outcome = "unknown" THEN d ELSE 0)
  BY <1>f, <1>2, <1>3, <1>4, HrDreamFacts DEF HrRows
<1>6. tick' \in HrTicks /\ tick'.at = "end"
  BY <1>f, <1>1 DEF StepTo, HrTicks
<1>7. \A g \in Gens : task[Dream(g)].pc \in {"none", "done"}
  BY <1>f, <1>1 DEF HrGenerations
<1>8. outcome \notin {"absent", "running", "discovered", "no_changes", "restart_wait_timeout"} /\ d # 0
  BY <1>2, <1>3, HrDreamFacts DEF Outcomes
<1>9. Merged(Dream(row.gen))' <=> Merged(Dream(d))
  BY <1>1, <1>5 DEF engineVars, Merged, Dream
<1>10. restart' # "waiting" /\ verdict'.gen = 0
  BY <1>f, <1>1, <1>2 DEF HrRow
<1> HIDE DEF d
<1>11. HrRow'
  <2>1. row'.active = IF row'.status \in {"running", "unknown"} THEN row'.gen ELSE 0
    BY <1>5, <1>8
  <2>2. row'.gen # 0 /\ row'.status \notin {"absent", "discovered", "restart_wait_timeout"}
    BY <1>5, <1>8
  <2>3. row'.status = "success" => (row'.res = "merged" <=> Merged(Dream(row.gen))')
    BY <1>3, <1>5, <1>9
  <2>4. row'.status \in {"failed", "deferred", "blocked"} => ~Merged(Dream(row.gen))'
    BY <1>3, <1>5, <1>9
  <2> QED BY <1>10, <2>1, <2>2, <2>3, <2>4 DEF HrRow, Dream
<1>12. verdict' \in [gen : 0 .. MaxGenerations,
                     status : {"none", "COMPLETED", "NOT_APPLIED", "UNKNOWN"}]
  BY <1>f, <1>1 DEF HrDreamTyped
<1>13. row'.gen = row.gen /\ row.gen \in Gens
  BY <1>2, <1>5 DEF d
<1> QED BY <1>1, <1>5, <1>6, <1>7, <1>8, <1>11, <1>12, <1>13, HrRowChanges DEF HrWorking

\* A merge that waits for a restart is marked when the restart does not come.
LEMMA HrRestartTimesOut ==
  ASSUME HrInv, RestartTimesOut, UNCHANGED codeVars
  PROVE  HrInv'
<1>f. /\ row \in HrRows /\ tick \in HrTicks /\ HrGenerations /\ HrTick /\ HrRow
      /\ HrDreamTyped /\ row.rev \in Nat /\ tick.rev \in Nat
  BY HrDreamFacts DEF HrInv, HrTyped
<1>1. /\ evoUp /\ restart = "waiting" /\ restart' = "restart_wait_timeout"
      /\ row' = [row EXCEPT !.status = "restart_wait_timeout", !.rev = @ + 1]
      /\ UNCHANGED <<engineVars, dreamRun, dreamOp, tick, verdict, revert>>
  BY DEF RestartTimesOut, RowTimedOut
<1>2. row.status = "success" /\ row.res = "merged" /\ Merged(Dream(row.gen)) /\ row.active = 0
      /\ row.gen \in Gens /\ row.gen # 0 /\ verdict.gen = 0
  BY <1>f, <1>1, HrDreamFacts DEF HrRow
<1>3. row' = [status |-> "restart_wait_timeout", gen |-> row.gen, rev |-> row.rev + 1,
              res |-> "merged", active |-> 0]
  BY <1>f, <1>1, <1>2 DEF HrRows
<1>4. row' \in HrRows
  BY <1>f, <1>3, HrDreamFacts DEF HrRows, HrResults
<1>5. tick.at \notin HrWorking /\ (tick.at = "start" => tick.rev <= row.rev)
  BY <1>f, <1>2 DEF HrTick
<1>6. \A g \in Gens : task[Dream(g)].pc \in {"none", "done"}
  BY <1>f, <1>5 DEF HrGenerations, HrWorking
<1>7. Merged(Dream(row.gen))'
  BY <1>1, <1>2, <1>3 DEF engineVars, Merged, Dream
<1>8. HrRow'
  BY <1>1, <1>2, <1>3, <1>7 DEF HrRow, Dream
<1>9. /\ tick' \in HrTicks /\ tick'.at \notin HrWorking
      /\ tick'.at = "start" => tick'.rev < row'.rev
      /\ row'.gen = row.gen /\ row'.status \notin {"absent", "running"}
  BY <1>f, <1>1, <1>3, <1>5 DEF HrWorking
<1>10. verdict' \in [gen : 0 .. MaxGenerations,
                     status : {"none", "COMPLETED", "NOT_APPLIED", "UNKNOWN"}]
  BY <1>f, <1>1 DEF HrDreamTyped
<1> QED BY <1>1, <1>2, <1>4, <1>6, <1>8, <1>9, <1>10, HrRowChanges

\* The Run of the generation ends; a merge asks for a restart.
LEMMA HrFinishRun ==
  ASSUME HrInv, FinishRun, UNCHANGED codeVars
  PROVE  HrInv'
<1>f. /\ row \in HrRows /\ tick \in HrTicks /\ HrGenerations /\ HrTick /\ HrRow
      /\ HrDreamTyped /\ Gens = 1 .. MaxGenerations
      /\ dreamRun \in [Gens -> {"none", "running", "recovery", "terminal"}]
  BY HrDreamFacts DEF HrInv, HrTyped
<1>1. /\ evoUp /\ tick.at = "end" /\ StepTo("idle")
      /\ dreamRun' = [dreamRun EXCEPT ![row.gen] =
                        IF row.status = "unknown" THEN "recovery" ELSE "terminal"]
      /\ restart' = IF row.status = "success" /\ row.res = "merged" /\ restart = "none"
                    THEN "waiting" ELSE restart
      /\ UNCHANGED <<engineVars, row, dreamOp, verdict, revert>>
  BY DEF FinishRun, Tick
<1>2. UNCHANGED <<task, hist, evoUp>> /\ \A x : Merged(x)' <=> Merged(x)
  BY <1>1 DEF engineVars, Merged
<1>3. tick' \in HrTicks /\ tick'.at = "idle"
  BY <1>f, <1>1 DEF StepTo, HrTicks
<1>4. /\ dreamRun' \in [Gens -> {"none", "running", "recovery", "terminal"}]
      /\ \A g \in Gens : dreamRun'[g] = dreamRun[g] \/ (g = row.gen /\ dreamRun'[g] # "none")
  BY <1>f, <1>1
<1>5. HrDreamTyped'
  BY <1>f, <1>1, <1>3, <1>4 DEF HrDreamTyped
<1>6. HrGenerations'
  <2>1. ASSUME NEW g \in Gens
        PROVE  /\ task[Dream(g)].pc \in {"none", "done"}
               /\ g > row.gen => dreamRun'[g] = "none"
               /\ dreamRun'[g] = "none" => dreamRun[g] = "none"
    BY <1>f, <1>1, <1>4 DEF HrGenerations
  <2> QED BY <1>f, <1>1, <1>2, <2>1 DEF HrGenerations, Dream
<1>7. row.status # "running"
  BY <1>f, <1>1 DEF HrTick, HrWorking
<1>8. HrTick'
  BY <1>1, <1>2, <1>3, <1>7 DEF HrTick, HrWorking
<1>9. HrRow'
  <2>1. restart' = "waiting" => row.status = "success" /\ row.res = "merged"
    BY <1>f, <1>1 DEF HrRow
  <2> QED BY <1>f, <1>1, <1>2, <2>1 DEF HrRow, Dream
<1> QED BY <1>1, <1>5, <1>6, <1>8, <1>9, HrRowsKeep

\* The decision's reconcile is held until it is recorded; a revert is only proposed.
LEMMA HrAsked ==
  ASSUME HrInv, DecideReconciles \/ RevertCreated \/ RevertRejected, UNCHANGED codeVars
  PROVE  HrInv'
<1>f. /\ row \in HrRows /\ tick \in HrTicks /\ HrGenerations /\ HrTick /\ HrRow
      /\ HrDreamTyped /\ row.gen \in 0 .. MaxGenerations
  BY HrDreamFacts DEF HrInv, HrTyped
<1>1. /\ evoUp /\ UNCHANGED <<engineVars, row, dreamRun, dreamOp, tick, restart>>
      /\ \/ UNCHANGED verdict
         \/ /\ row.status = "unknown" /\ DreamEvidence(row.gen) # "UNKNOWN"
            /\ verdict' = [gen |-> row.active, status |-> DreamEvidence(row.gen)]
  BY DEF DecideReconciles, RevertCreated, RevertRejected
<1>2. UNCHANGED <<task, hist, evoUp>> /\ \A x : Merged(x)' <=> Merged(x)
  BY <1>1 DEF engineVars, Merged
<1>3. HrGenerations'
  BY <1>f, <1>1, <1>2 DEF HrGenerations, Dream
<1>4. HrTick'
  BY <1>f, <1>1, <1>2 DEF HrTick, HrWorking, Dream
<1>5. CASE UNCHANGED verdict
  <2>1. HrRow'
    BY <1>f, <1>1, <1>2, <1>5 DEF HrRow, Dream
  <2>2. HrDreamTyped'
    BY <1>f, <1>1, <1>5 DEF HrDreamTyped
  <2> QED BY <1>1, <1>3, <1>4, <2>1, <2>2, HrRowsKeep
<1>6. CASE /\ row.status = "unknown" /\ DreamEvidence(row.gen) # "UNKNOWN"
           /\ verdict' = [gen |-> row.active, status |-> DreamEvidence(row.gen)]
  <2>1. row.gen \in Gens /\ row.active = row.gen
    BY <1>f, <1>6, HrDreamFacts DEF HrRow
  <2>2. /\ DreamEvidence(row.gen) \in {"COMPLETED", "NOT_APPLIED"}
        /\ DreamEvidence(row.gen) = "COMPLETED" <=> Merged(Dream(row.gen))
    BY <1>6, <2>1, HrEvidence
  <2>3. /\ verdict'.gen = row.gen /\ verdict'.status \in {"COMPLETED", "NOT_APPLIED"}
        /\ verdict'.status = "COMPLETED" <=> Merged(Dream(row.gen))
        /\ verdict' \in [gen : 0 .. MaxGenerations,
                         status : {"none", "COMPLETED", "NOT_APPLIED", "UNKNOWN"}]
    BY <1>f, <1>6, <2>1, <2>2
  <2>4. HrRow'
    BY <1>f, <1>1, <1>2, <1>6, <2>3 DEF HrRow, Dream
  <2>5. HrDreamTyped'
    BY <1>f, <1>1, <2>3 DEF HrDreamTyped
  <2> QED BY <1>1, <1>3, <1>4, <2>4, <2>5, HrRowsKeep
<1> QED BY <1>1, <1>5, <1>6

\* A generation that was lost is settled by what is known of its commit.
LEMMA HrSettled ==
  ASSUME HrInv, row.status \in {"running", "unknown"}, tick.at \notin HrWorking,
         NEW status \in {"COMPLETED", "NOT_APPLIED", "UNKNOWN"},
         status = "COMPLETED" => Merged(Dream(row.gen)),
         status = "NOT_APPLIED" => ~Merged(Dream(row.gen)),
         NEW r \in {"recovery", "terminal"}, dreamRun' = [dreamRun EXCEPT ![row.gen] = r],
         DreamSettled(status), dreamOp' = ReconciledOp(row.gen, status),
         restart' = "waiting" => status = "COMPLETED" \/ restart = "waiting",
         verdict'.gen = 0,
         verdict' \in [gen : 0 .. MaxGenerations,
                       status : {"none", "COMPLETED", "NOT_APPLIED", "UNKNOWN"}],
         evoUp', UNCHANGED <<hist, task, tick, revert>>
  PROVE  HrDreamTyped' /\ HrGenerations' /\ HrTick' /\ HrRow'
<1>f. /\ row \in HrRows /\ tick \in HrTicks /\ HrGenerations /\ HrTick /\ HrRow
      /\ HrDreamTyped /\ row.rev \in Nat /\ row.gen \in Gens /\ tick.rev \in Nat
      /\ Gens = 1 .. MaxGenerations /\ MaxGenerations \in Nat
      /\ dreamRun \in [Gens -> {"none", "running", "recovery", "terminal"}]
      /\ dreamOp \in [Gens -> [status : {"none", "prepared", "running", "completed",
                                         "unknown", "failed"}, res : HrResults]]
  BY HrDreamFacts DEF HrInv, HrTyped
<1> DEFINE d == row.gen
<1>1. d \in Gens /\ d # 0 /\ row.active = d
  BY <1>f DEF HrRow
<1>2. PICK s, res :
        /\ row' = [status |-> s, gen |-> d, rev |-> row.rev + 1, res |-> res,
                   active |-> IF s = "unknown" THEN d ELSE 0]
        /\ \/ status = "COMPLETED" /\ s = "success" /\ res = "merged"
           \/ status = "NOT_APPLIED" /\ s = "failed" /\ res = "confirmed_failed"
           \/ status = "UNKNOWN" /\ s = "unknown" /\ res = "unknown"
  <2>1. \A s, res : Finished(s, res) =>
            row' = [status |-> s, gen |-> d, rev |-> row.rev + 1, res |-> res,
                    active |-> IF s = "unknown" THEN d ELSE 0]
    BY <1>f, <1>1 DEF Finished, HrRows
  <2>2. CASE status = "COMPLETED"
    <3>1. Finished("success", "merged")
      BY <2>2 DEF DreamSettled
    <3> QED BY <2>1, <2>2, <3>1
  <2>3. CASE status = "NOT_APPLIED"
    <3>1. Finished("failed", "confirmed_failed")
      BY <2>3 DEF DreamSettled
    <3> QED BY <2>1, <2>3, <3>1
  <2>4. CASE status = "UNKNOWN"
    <3>1. Finished("unknown", "unknown")
      BY <2>4 DEF DreamSettled
    <3> QED BY <2>1, <2>4, <3>1
  <2> QED BY <2>2, <2>3, <2>4
<1>3. row' \in HrRows
  <2>1. s \in Outcomes /\ res \in HrResults
    BY <1>2 DEF Outcomes, HrResults
  <2> QED BY <1>f, <1>1, <1>2, <2>1 DEF HrRows
<1>4. \A x : Merged(x)' <=> Merged(x)
  BY DEF Merged
<1>5. /\ dreamOp' \in [Gens -> [status : {"none", "prepared", "running", "completed",
                                          "unknown", "failed"}, res : HrResults]]
      /\ \A g \in Gens : g # d => dreamOp'[g] = dreamOp[g]
      /\ dreamOp'[d].res = dreamOp[d].res
      /\ dreamOp'[d].status # dreamOp[d].status =>
            /\ dreamOp[d].status \in {"running", "unknown"}
            /\ dreamOp'[d].status \in {"completed", "failed", "unknown"}
            /\ dreamOp'[d].status = "completed" => status = "COMPLETED"
  <2> DEFINE was == dreamOp[d].status
             now == IF was \in {"running", "unknown"}
                    THEN CASE status = "COMPLETED" -> "completed"
                           [] status = "NOT_APPLIED" -> "failed" [] OTHER -> "unknown"
                    ELSE was
  <2>1. dreamOp' = [dreamOp EXCEPT ![d].status = now]
    BY DEF ReconciledOp
  <2>2. was \in {"none", "prepared", "running", "completed", "unknown", "failed"}
    BY <1>f
  <2>3. /\ now \in {"none", "prepared", "running", "completed", "unknown", "failed"}
        /\ now # was => /\ was \in {"running", "unknown"}
                        /\ now \in {"completed", "failed", "unknown"}
                        /\ now = "completed" => status = "COMPLETED"
    BY <2>2
  <2> HIDE DEF now
  <2>4. dreamOp'[d].status = now /\ dreamOp'[d].res = dreamOp[d].res
    BY <1>f, <2>1
  <2> QED BY <1>f, <2>1, <2>3, <2>4
<1>6. /\ dreamRun' \in [Gens -> {"none", "running", "recovery", "terminal"}]
      /\ dreamRun'[d] # "none" /\ \A g \in Gens : g # d => dreamRun'[g] = dreamRun[g]
  BY <1>f
<1>7. HrDreamTyped'
  BY <1>f, <1>3, <1>5, <1>6 DEF HrDreamTyped
<1>8. HrGenerations'
  <2>1. ASSUME NEW g \in Gens
        PROVE  /\ task[Dream(g)].pc \in {"none", "done"}
               /\ Merged(Dream(g)) => g = d /\ dreamOp'[g].status \notin {"none", "prepared"}
               /\ g > d => dreamRun'[g] = "none"
               /\ dreamRun'[g] = "none" => dreamOp'[g].status = "none"
               /\ dreamOp'[g].status = "completed" /\ dreamOp'[g].res = "merged" => Merged(Dream(g))
    <3>0. task[Dream(g)].pc \in {"none", "done"} /\ g \in Nat
      BY <1>f DEF HrGenerations, HrWorking
    <3>1. CASE g = d
      BY <1>f, <1>5, <1>6, <3>0, <3>1 DEF HrGenerations
    <3>2. CASE g # d
      BY <1>f, <1>5, <1>6, <3>0, <3>2 DEF HrGenerations
    <3> QED BY <3>1, <3>2
  <2>2. row'.gen = d
    BY <1>2
  <2>3. ASSUME NEW g \in Gens
        PROVE  task'[Dream(g)] = task[Dream(g)] /\ (Merged(Dream(g))' <=> Merged(Dream(g)))
    BY <1>4 DEF Dream, Merged
  <2> HIDE DEF d
  <2> QED BY <2>1, <2>2, <2>3 DEF HrGenerations, Dream
<1>9. HrTick'
  BY <1>f, <1>2 DEF HrTick, HrWorking
<1>10. HrRow'
  <2>1. row'.status = s /\ row'.gen = d /\ row'.res = res
        /\ row'.active = (IF s = "unknown" THEN d ELSE 0)
    BY <1>2
  <2>2. Merged(Dream(row.gen))' <=> Merged(Dream(d))
    BY <2>1, <1>4 DEF Dream, Merged
  <2>3. restart' = "waiting" => s = "success" /\ res = "merged"
    <3>1. restart # "waiting"
      BY <1>f DEF HrRow
    <3> QED BY <1>2, <3>1
  <2> QED BY <1>1, <1>2, <2>1, <2>2, <2>3 DEF HrRow, Dream
<1> QED BY <1>7, <1>8, <1>9, <1>10

\* The decision is recorded for the generation it was asked for.
LEMMA HrDecideFinishes ==
  ASSUME HrInv, DecideFinishes, UNCHANGED codeVars
  PROVE  HrInv'
<1>f. HrTick /\ HrRow /\ verdict.gen # 0 /\ row.gen = verdict.gen /\ row.status = "unknown"
      /\ row.active = verdict.gen /\ verdict.status \in {"COMPLETED", "NOT_APPLIED"}
      /\ (verdict.status = "COMPLETED" <=> Merged(Dream(row.gen)))
  BY HrDreamFacts DEF HrRow, DecideFinishes
<1>1. /\ evoUp /\ verdict' = [gen |-> 0, status |-> "none"]
      /\ dreamOp' = ReconciledOp(row.gen, verdict.status)
      /\ DreamSettled(verdict.status) /\ dreamRun' = [dreamRun EXCEPT ![row.gen] = "terminal"]
      /\ restart' = IF verdict.status = "COMPLETED" /\ restart = "none" THEN "waiting" ELSE restart
      /\ UNCHANGED <<engineVars, tick, revert>>
  BY <1>f DEF DecideFinishes
<1>2. tick.at \notin HrWorking
  BY <1>f DEF HrTick
<1>3. verdict'.gen = 0
      /\ verdict' \in [gen : 0 .. MaxGenerations,
                       status : {"none", "COMPLETED", "NOT_APPLIED", "UNKNOWN"}]
  BY <1>1, HrDreamFacts
<1>4. UNCHANGED <<hist, task, evoUp>>
  BY <1>1 DEF engineVars
<1>5. restart' = "waiting" => verdict.status = "COMPLETED" \/ restart = "waiting"
  BY <1>1
<1>6. HrDreamTyped' /\ HrGenerations' /\ HrTick' /\ HrRow'
  BY <1>f, <1>1, <1>2, <1>3, <1>4, <1>5, HrSettled
<1> QED BY <1>1, <1>6, HrRowsKeep

\* Every step of the Dream.
LEMMA HrDreamStep ==
  ASSUME HrInv, DreamNext, UNCHANGED codeVars
  PROVE  HrInv'
  BY HrClaim, HrSelectChangeset, HrStartGeneration, HrAttempt, HrStartAttempt, HrRecordAttempt,
     HrFinishGeneration, HrFinishRun, HrRestartTimesOut, HrAsked, HrDecideFinishes DEF DreamNext

\* A death of the Gateway takes the calls; history, audits and rows stay.
LEMMA HrGatewayDies ==
  ASSUME HrInv, GatewayDies
  PROVE  HrInv'
<1>f. /\ HrEngineTyped /\ HrCodeTyped /\ HrDreamTyped /\ HrHistory /\ HrEngine
      /\ HrCapability /\ HrError /\ HrCode /\ HrGenerations /\ HrTick /\ HrRow
      /\ tick \in HrTicks /\ MaxTurns \in Nat /\ MaxGenerations \in Nat
  BY HrDreamFacts, EvoAssumption DEF HrInv, HrTyped
<1>1. /\ evoUp' = FALSE /\ task' = [t \in Tasks |-> NotCalled]
      /\ cap' = IF cap.op = "running" THEN [cap EXCEPT !.op = "unknown"] ELSE cap
      /\ tick' = [tick EXCEPT !.at = "idle"] /\ verdict' = [gen |-> 0, status |-> "none"]
      /\ session' = NoSession /\ stray' = IF session.status = "none" THEN stray ELSE session
      /\ UNCHANGED <<gitVars, inv, proposal, row, dreamRun, dreamOp, revert, restart, begun, intents>>
  BY DEF GatewayDies, EngineDies
<1>2. UNCHANGED <<hist, userSteps>> /\ \A x : Merged(x)' <=> Merged(x)
  BY <1>1 DEF gitVars, Merged
<1>3. /\ task' \in [Tasks -> HrTaskRecords] /\ \A t \in Tasks : task'[t] = NotCalled
      /\ NotCalled.pc = "none"
  BY <1>1, HrIdle
<1>4. /\ cap' \in [op : {"none", "running", "unknown", "completed", "not_applied"}, res : HrResults]
      /\ cap'.res = cap.res
      /\ cap'.op = (IF cap.op = "running" THEN "unknown" ELSE cap.op)
  BY <1>f, <1>1 DEF HrEngineTyped
<1>5. HrEngineTyped'
  BY <1>f, <1>1, <1>2, <1>3, <1>4 DEF HrEngineTyped
<1>6. tick' \in HrTicks /\ tick'.at = "idle"
  BY <1>f, <1>1 DEF HrTicks
<1>7. HrDreamTyped'
  <2>1. verdict' \in [gen : 0 .. MaxGenerations,
                      status : {"none", "COMPLETED", "NOT_APPLIED", "UNKNOWN"}]
    BY <1>f, <1>1
  <2> QED BY <1>f, <1>1, <1>6, <2>1 DEF HrDreamTyped
<1>8. NoSession \in HrSessions /\ NoSession.status = "none"
  BY <1>f DEF NoSession, HrSessions
<1>9. HrCodeTyped'
  BY <1>f, <1>1, <1>8 DEF HrCodeTyped
<1>10. HrHistory'
  BY <1>f, <1>2 DEF HrHistory, Merged
<1>11. HrEngine'
  <2>1. ASSUME NEW t \in Tasks
        PROVE  HrKnown(t, task'[t], inv[t], Merged(t), Len(hist))
    <3>1. HrKnown(t, task[t], inv[t], Merged(t), Len(hist))
      BY <1>f DEF HrEngine
    <3> QED BY <1>3, <3>1 DEF HrKnown, HrPlace, HrFresh, HrAudited, HrBefore, HrAfter
  <2>2. UNCHANGED <<inv, hist>>
    BY <1>1, <1>2
  <2> QED BY <2>1, <2>2 DEF HrEngine, Merged
<1>12. HrCapability'
  <2>1. task'[Cap].pc = "none"
    BY <1>3, HrNames
  <2> QED BY <1>f, <1>2, <1>4, <2>1 DEF HrCapability, Cap
<1>13. HrError'
  <2>1. \A t \in HrErrors : task'[t].pc = "none"
    BY <1>3, HrNames
  <2> QED BY <1>f, <1>1, <1>2, <2>1 DEF HrError
<1>14. HrCode'
  <2>1. HrManualMerged' = HrManualMerged
    BY <1>2 DEF HrManualMerged, Manual
  <2>2. HrBehind(session)' /\ HrBehind(stray)'
    BY <1>f, <1>1, <1>2, <1>8, <2>1 DEF HrCode, HrBehind
  <2>3. \A n \in 1 .. MaxTurns : task'[Manual(n)].pc = "none"
    BY <1>3, HrNames
  <2>4. ~begun' => session'.status = "none" /\ stray'.status = "none" /\ ~HrManualMerged'
    BY <1>f, <1>1, <1>8, <2>1 DEF HrCode
  <2>5. stray'.turns > 0 => stray'.status # "none"
    BY <1>f, <1>1 DEF HrCode
  <2>6. \A n \in 1 .. MaxTurns : intents'[n] = "committed" => Merged(Manual(n))'
    BY <1>f, <1>1, <1>2 DEF HrCode, Manual
  <2> QED BY <2>2, <2>3, <2>4, <2>5, <2>6 DEF HrCode, Manual
<1>15. HrDream'
  <2>1. \A g \in Gens : task'[Dream(g)].pc = "none"
    BY <1>3, HrNames
  <2>2. HrGenerations'
    BY <1>f, <1>1, <1>2, <2>1 DEF HrGenerations, Dream
  <2>3. HrTick'
    BY <1>1, <1>6 DEF HrTick, HrWorking
  <2>4. HrRow'
    BY <1>f, <1>1, <1>2 DEF HrRow, Dream
  <2> QED BY <2>2, <2>3, <2>4 DEF HrDream
<1>16. HrDown'
  BY <1>1, <1>3, <1>6 DEF HrDown
<1> QED BY <1>5, <1>7, <1>9, <1>10, <1>11, <1>12, <1>13, <1>14, <1>15, <1>16 DEF HrInv, HrTyped

\* The next Gateway settles the generation and the grant intents before it serves.
LEMMA HrGatewayRestarts ==
  ASSUME HrInv, GatewayRestarts
  PROVE  HrInv'
<1>f. /\ HrEngineTyped /\ HrCodeTyped /\ HrDreamTyped /\ HrHistory /\ HrEngine
      /\ HrCapability /\ HrError /\ HrCode /\ HrGenerations /\ HrTick /\ HrRow /\ HrDown
      /\ row \in HrRows /\ row.rev \in Nat /\ Gens = 1 .. MaxGenerations
      /\ dreamRun \in [Gens -> {"none", "running", "recovery", "terminal"}]
  BY HrDreamFacts DEF HrInv, HrTyped
<1>1. /\ ~evoUp /\ evoUp' = TRUE
      /\ UNCHANGED <<gitVars, task, inv, cap, proposal, tick, verdict, revert, restart,
                     session, begun, stray>>
      /\ \A n \in 1 .. MaxTurns : intents'[n] \in Reconciled(n, intents[n])
      /\ intents' \in [1 .. MaxTurns -> {"none", "pending", "committed", "recovery_required"}]
  BY DEF GatewayRestarts, DreamRestarts, CodeRestarts
<1>2. UNCHANGED <<hist, userSteps>> /\ \A x : Merged(x)' <=> Merged(x)
  BY <1>1 DEF gitVars, Merged
<1>3. /\ \A t \in Tasks : task[t].pc = "none"
      /\ tick.at = "idle" /\ verdict.gen = 0
  BY <1>f, <1>1 DEF HrDown
<1>4. /\ HrEngineTyped' /\ HrCodeTyped'
  BY <1>f, <1>1, <1>2 DEF HrEngineTyped, HrCodeTyped
<1>5. HrHistory' /\ HrEngine'
  BY <1>f, <1>1, <1>2 DEF HrHistory, HrEngine, Merged
<1>6. HrCapability' /\ HrError'
  BY <1>f, <1>1, <1>2 DEF HrCapability, HrError, Cap
<1>7. HrCode'
  <2>1. HrManualMerged' = HrManualMerged
    BY <1>2 DEF HrManualMerged, Manual
  <2>2. HrBehind(session)' /\ HrBehind(stray)'
    BY <1>f, <1>1, <1>2, <2>1 DEF HrCode, HrBehind
  <2>3. ASSUME NEW n \in 1 .. MaxTurns, intents'[n] = "committed" PROVE Merged(Manual(n))
    <3>1. CASE intents[n] # "pending"
      <4>1. \A x \in Reconciled(n, intents[n]) : x = intents[n]
        BY <3>1 DEF Reconciled
      <4> QED BY <1>f, <1>1, <2>3, <4>1 DEF HrCode
    <3>2. CASE intents[n] = "pending" /\ ~Merged(Manual(n))
      <4>1. \A x \in Reconciled(n, intents[n]) : x = "pending"
        BY <3>2 DEF Reconciled
      <4> QED BY <1>1, <2>3, <4>1
    <3> QED BY <3>1, <3>2
  <2> QED BY <1>f, <1>1, <1>2, <2>1, <2>2, <2>3 DEF HrCode, Manual
<1>8. HrDown'
  BY <1>1 DEF HrDown
<1>9. tick.at \notin HrWorking
  BY <1>3 DEF HrWorking
<1>10. \A g \in Gens : task[Dream(g)].pc = "none"
  BY <1>3, HrNames
<1>11. HrDreamTyped' /\ HrGenerations' /\ HrTick' /\ HrRow'
  <2>1. CASE row.active = 0
    <3>1. UNCHANGED <<row, dreamRun, dreamOp>>
      BY <2>1 DEF GatewayRestarts, DreamRestarts
    <3>2. row.status # "running"
      BY <1>f, <2>1 DEF HrRow
    <3>3. HrDreamTyped'
      BY <1>f, <1>1, <3>1 DEF HrDreamTyped
    <3>4. HrGenerations'
      BY <1>f, <1>1, <1>2, <3>1 DEF HrGenerations, Dream
    <3>5. HrTick'
      BY <1>1, <1>3, <3>1, <3>2 DEF HrTick, HrWorking
    <3>6. HrRow'
      BY <1>f, <1>1, <1>2, <3>1 DEF HrRow, Dream
    <3> QED BY <3>3, <3>4, <3>5, <3>6
  <2>2. CASE row.active # 0 /\ dreamRun[row.active] = "none"
    <3>1. row.active = row.gen /\ row.gen \in Gens /\ row.status \in {"running", "unknown"}
      BY <1>f, <2>2, HrDreamFacts DEF HrRow
    <3>2. row' = [row EXCEPT !.status = "discovered", !.active = 0, !.rev = @ + 1]
          /\ UNCHANGED <<dreamRun, dreamOp>>
      BY <2>2 DEF GatewayRestarts, DreamRestarts, RowReleased
    <3>3. row' = [status |-> "discovered", gen |-> row.gen, active |-> 0, rev |-> row.rev + 1,
                  res |-> row.res]
      BY <1>f, <3>2 DEF HrRows
    <3>4. row' \in HrRows
      BY <1>f, <3>1, <3>3, HrDreamFacts DEF HrRows
    <3>5. ~Merged(Dream(row.gen))
      BY <1>f, <2>2, <3>1 DEF HrGenerations
    <3>6. HrDreamTyped'
      BY <1>f, <1>1, <3>2, <3>4 DEF HrDreamTyped
    <3>7. HrGenerations'
      BY <1>f, <1>1, <1>2, <3>2, <3>3 DEF HrGenerations, Dream
    <3>8. HrTick'
      BY <1>1, <1>3, <3>3 DEF HrTick, HrWorking
    <3>9. ~Merged(Dream(row.gen))'
      BY <1>2, <3>3, <3>5 DEF Merged, Dream
    <3>10. restart' # "waiting"
      BY <1>f, <1>1, <3>1 DEF HrRow
    <3>11. HrRow'
      BY <1>1, <1>3, <3>3, <3>9, <3>10 DEF HrRow, Dream
    <3> QED BY <3>6, <3>7, <3>8, <3>11
  <2>3. CASE row.active # 0 /\ dreamRun[row.active] # "none"
    <3> DEFINE status == Recovered(row.gen)
    <3>1. row.active = row.gen /\ row.gen \in Gens /\ row.status \in {"running", "unknown"}
      BY <1>f, <2>3, HrDreamFacts DEF HrRow
    <3>2. /\ dreamOp' = ReconciledOp(row.gen, status) /\ DreamSettled(status)
          /\ dreamRun' = [dreamRun EXCEPT ![row.gen] =
                            IF status = "UNKNOWN" THEN "recovery" ELSE "terminal"]
      BY <2>3, <3>1 DEF GatewayRestarts, DreamRestarts
    <3>3. /\ status \in {"COMPLETED", "NOT_APPLIED", "UNKNOWN"}
          /\ status = "COMPLETED" => Merged(Dream(row.gen))
          /\ status = "NOT_APPLIED" => ~Merged(Dream(row.gen))
      BY <3>1, HrEvidence
    <3> HIDE DEF status
    <3>4. PICK r \in {"recovery", "terminal"} : dreamRun' = [dreamRun EXCEPT ![row.gen] = r]
      BY <3>2
    <3>5. /\ verdict'.gen = 0
          /\ verdict' \in [gen : 0 .. MaxGenerations,
                           status : {"none", "COMPLETED", "NOT_APPLIED", "UNKNOWN"}]
      BY <1>f, <1>1, <1>3 DEF HrDreamTyped
    <3>6. UNCHANGED <<hist, task, tick, revert>> /\ evoUp' /\ (restart' = "waiting" => restart = "waiting")
      BY <1>1, <1>2
    <3> QED BY <1>9, <3>1, <3>2, <3>3, <3>4, <3>5, <3>6, HrSettled
  <2> QED BY <2>1, <2>2, <2>3
<1> QED BY <1>4, <1>5, <1>6, <1>7, <1>8, <1>11 DEF HrInv, HrTyped, HrDream

LEMMA HrInitially ==
  EvoInit => HrInv
<1> SUFFICES ASSUME EvoInit PROVE HrInv
  OBVIOUS
<1>1. EngineInit /\ DreamInit /\ CodeInit
  BY DEF EvoInit
<1>n. MaxGenerations \in Nat /\ MaxTurns \in Nat
  BY EvoAssumption
<1>2. hist = << <<"user", 0>> >> /\ Len(hist) = 1 /\ DOMAIN hist = {1} /\ hist[1] = <<"user", 0>>
      /\ userSteps = 0 /\ evoUp /\ proposal = "proposed"
  BY <1>1 DEF EngineInit
<1>3. hist \in Seq(HrCommits)
  BY <1>2 DEF HrCommits
<1>4. \A t \in Tasks : task[t] = NotCalled /\ ~Merged(t)
  <2>1. \A t \in Tasks : t # <<"user", 0>>
    BY HrNames
  <2> QED BY <1>1, <1>2, <2>1 DEF EngineInit, Merged
<1>5. NoAudit \in HrAudits
  BY DEF NoAudit, HrAudits
<1>6. HrEngineTyped
  <2>1. /\ cap \in [op : {"none", "running", "unknown", "completed", "not_applied"}, res : HrResults]
    BY <1>1 DEF EngineInit, HrResults
  <2> QED BY <1>1, <1>2, <1>3, <1>5, <2>1, HrIdle DEF EngineInit, HrEngineTyped
<1>7. row = NoRow /\ row \in HrRows /\ row.gen = 0 /\ row.status = "absent" /\ row.active = 0
  BY <1>1, <1>n DEF DreamInit, NoRow, HrRows, HrResults
<1>8. tick \in HrTicks /\ tick.at = "idle"
  BY <1>1 DEF DreamInit, HrTicks
<1>9. HrDreamTyped
  <2>1. "none" \in HrResults
    BY DEF HrResults
  <2>2. verdict \in [gen : 0 .. MaxGenerations,
                     status : {"none", "COMPLETED", "NOT_APPLIED", "UNKNOWN"}]
    BY <1>1, <1>n DEF DreamInit
  <2> QED BY <1>1, <1>7, <1>8, <2>1, <2>2 DEF DreamInit, HrDreamTyped
<1>10. NoSession \in HrSessions /\ NoSession.status = "none" /\ NoSession.turns = 0
  BY <1>n DEF NoSession, HrSessions
<1>11. HrCodeTyped
  BY <1>1, <1>10 DEF CodeInit, HrCodeTyped
<1>12. HrHistory
  <2>1. \A k \in Nat : Merged(<<"user", k>>) => k <= 0
    BY <1>2 DEF Merged
  <2> QED BY <1>2, <2>1 DEF HrHistory
<1>13. HrEngine
  BY <1>4, HrIdle DEF HrEngine, HrKnown, HrPlace, HrFresh, HrAudited, HrBefore, HrAfter, NotCalled
<1>14. HrCapability /\ HrError
  BY <1>1, <1>2, <1>4, HrNames, HrIdle DEF EngineInit, HrCapability, HrError
<1>15. HrCode
  <2>1. \A n \in 1 .. MaxTurns : task[Manual(n)].pc = "none" /\ ~Merged(Manual(n))
                                 /\ intents[n] = "none"
    BY <1>1, <1>4, HrNames, HrIdle DEF CodeInit
  <2> QED BY <1>1, <1>10, <2>1 DEF CodeInit, HrCode, HrManualMerged, HrBehind
<1>16. HrDream
  <2>1. \A g \in Gens : /\ task[Dream(g)].pc = "none" /\ ~Merged(Dream(g))
                        /\ dreamRun[g] = "none" /\ dreamOp[g].status = "none"
    BY <1>1, <1>4, HrNames, HrIdle DEF DreamInit
  <2>2. HrGenerations
    BY <2>1 DEF HrGenerations
  <2>3. HrTick
    BY <1>7, <1>8 DEF HrTick, HrWorking
  <2>4. HrRow
    BY <1>1, <1>7 DEF DreamInit, HrRow
  <2> QED BY <2>2, <2>3, <2>4 DEF HrDream
<1>17. HrDown
  BY <1>2 DEF HrDown
<1> QED BY <1>6, <1>9, <1>11, <1>12, <1>13, <1>14, <1>15, <1>16, <1>17 DEF HrInv, HrTyped

LEMMA HrStutter ==
  ASSUME HrInv, UNCHANGED evoVars PROVE HrInv'
<1>1. UNCHANGED <<hist, task, inv, cap, proposal, evoUp, userSteps, dreamVars, codeVars>>
  BY DEF evoVars, engineVars
<1>2. \A x : Merged(x)' <=> Merged(x)
  BY <1>1 DEF Merged
<1>3. HrTyped' /\ HrHistory'
  BY <1>1 DEF HrInv, HrTyped, HrEngineTyped, HrDreamTyped, HrCodeTyped, HrHistory, Merged,
              dreamVars, codeVars
<1>4. HrEngine' /\ HrCapability' /\ HrError' /\ HrDown'
  BY <1>1, <1>2 DEF HrInv, HrEngine, HrCapability, HrError, HrDown, Merged, Cap, dreamVars
<1>5. HrCode'
  <2>1. HrManualMerged' = HrManualMerged
    BY <1>2 DEF HrManualMerged, Manual
  <2>2. HrBehind(session)' /\ HrBehind(stray)'
    BY <1>1, <2>1 DEF HrInv, HrCode, HrBehind, codeVars
  <2> QED BY <1>1, <1>2, <2>1, <2>2 DEF HrInv, HrCode, Manual, codeVars
<1>6. HrDream'
  <2>1. UNCHANGED <<row, dreamRun, dreamOp, tick, verdict, restart>>
    BY <1>1 DEF dreamVars
  <2>2. HrGenerations'
    BY <1>1, <1>2, <2>1 DEF HrInv, HrDream, HrGenerations, Dream
  <2>3. HrTick'
    BY <1>1, <2>1 DEF HrInv, HrDream, HrTick, Dream
  <2>4. HrRow'
    BY <1>2, <2>1 DEF HrInv, HrDream, HrRow, Dream
  <2> QED BY <2>2, <2>3, <2>4 DEF HrDream
<1> QED BY <1>3, <1>4, <1>5, <1>6 DEF HrInv

LEMMA HrStep ==
  ASSUME HrInv, [EvoNext]_evoVars PROVE HrInv'
<1>1. CASE (EngineNext \/ UserNext) /\ UNCHANGED <<dreamVars, codeVars>>
  BY <1>1, HrOpenWorktree, HrRepair, HrCheckHead, HrFastForward, HrVerifyHead, HrCloseWorktree,
     HrEngineRaises, HrUserStep DEF EngineNext, UserNext, EngineStep
<1>2. CASE CapabilityNext /\ UNCHANGED <<dreamVars, codeVars>>
  BY <1>2, HrCapabilityStep
<1>3. CASE ErrorNext /\ UNCHANGED <<dreamVars, codeVars>>
  BY <1>3, HrErrorStep
<1>4. CASE DreamNext /\ UNCHANGED codeVars
  BY <1>4, HrDreamStep
<1>5. CASE CodeNext /\ UNCHANGED dreamVars
  BY <1>5, HrCodeStep
<1>6. CASE GatewayDies \/ GatewayRestarts
  BY <1>6, HrGatewayDies, HrGatewayRestarts
<1>7. CASE UNCHANGED evoVars
  BY <1>7, HrStutter
<1> QED BY <1>1, <1>2, <1>3, <1>4, <1>5, <1>6, <1>7 DEF EvoNext

\* What the invariant says of the records: HarnessSound.
LEMMA HrImplies ==
  ASSUME HrInv PROVE HarnessSound
<1>f. /\ HrEngineTyped /\ HrCodeTyped /\ HrHistory /\ HrCapability /\ HrError /\ HrCode
      /\ HrGenerations /\ HrTick /\ HrRow /\ row \in HrRows /\ row.gen \in 0 .. MaxGenerations
      /\ Gens = 1 .. MaxGenerations
  BY HrDreamFacts DEF HrInv, HrTyped
<1>1. EvoTypeOK
  <2>1. \A i \in DOMAIN hist : hist[i] \in HrCommits
    BY <1>f DEF HrEngineTyped
  <2>2. row.active \in {0, row.gen}
    BY <1>f DEF HrRow
  <2> QED BY <1>f, <2>1, <2>2 DEF EvoTypeOK, HrCommits, HrRows, HrCodeTyped
<1>2. RecordMatchesHistory
  <2>1. row.status \in {"discovered", "failed", "deferred", "blocked"} /\ row.gen # 0 =>
           task[Dream(row.gen)].pc \in {"none", "done"}
    BY <1>f, HrDreamFacts DEF HrGenerations, HrTick, HrWorking
  <2>2. proposal = "merged" => Merged(<<"error", 1>>) \/ Merged(<<"error", 2>>)
    BY <1>f DEF HrError, HrErrors
  <2> QED BY <1>f, <2>1, <2>2 DEF RecordMatchesHistory, HrRow, HrCapability
<1>3. AppliedOnce
  <2> DEFINE G == {g \in Gens : Merged(Dream(g))}
  <2>1. G \subseteq {row.gen}
    BY <1>f DEF HrGenerations
  <2>2. IsFiniteSet({row.gen}) /\ Cardinality({row.gen}) = 1
    BY FS_Singleton
  <2>3. Cardinality(G) <= 1
    BY <2>1, <2>2, FS_Subset
  <2> QED BY <1>f, <2>3 DEF AppliedOnce, HrHistory
<1>4. GrantIsMerged
  BY <1>f DEF GrantIsMerged, HrCode
<1> QED BY <1>1, <1>2, <1>3, <1>4 DEF HarnessSound

\* HarnessSound: what the Gateway records of a change of its own source (finish_harness_dream_generation,
\* reconcile_dream, reconcile_capability, execute_error) agrees with the history of the repository, no
\* change is applied twice and no grant is committed without its merge, whatever the user commits and
\* wherever the Gateway dies in between.
THEOREM RecordsAgreeWithHistory == EvoSpec => []HarnessSound
<1>1. EvoInit => HrInv
  BY HrInitially
<1>2. HrInv /\ [EvoNext]_evoVars => HrInv'
  BY HrStep
<1>3. HrInv => HarnessSound
  BY HrImplies
<1> HIDE DEF HrInv
<1> QED BY <1>1, <1>2, <1>3, PTL DEF EvoSpec
=============================================================================
