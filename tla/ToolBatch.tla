------------------------------ MODULE ToolBatch ------------------------------
(***************************************************************************)
(* ReactLoop._execute_tools_streaming (Agent/react/loop.py): the Tool      *)
(* calls of one model reply, handled left to right.  Parallel-safe calls   *)
(* are collected and run together in groups of at most max_parallel; every *)
(* other call is a barrier that flushes the group first and runs alone.    *)
(* Bodies are asyncio tasks that interleave at every await; cancellation   *)
(* may arrive wherever the loop is suspended.                              *)
(***************************************************************************)
EXTENDS Integers, Sequences, FiniteSets

CONSTANTS
  N,             \* Tool calls of the reply
  max_parallel   \* max_parallel_tool_calls

ASSUME CallsAssumption == N \in Nat
ASSUME ParallelAssumption == max_parallel \in Nat \ {0}

(* pure: prepared.parallel_safe; read, write: serial Tools by risk; ender: *)
(* registry.ends_turn; bad: a request error; fatal: a refused write Tool.  *)
Kinds == { "pure", "read", "write", "ender", "bad", "fatal" }

VARIABLES
  kind,      \* what each call is
  st,        \* where each call is
  pos,       \* next call of the for loop
  pending,   \* collected parallel-safe calls
  group,     \* calls of the group being flushed
  log,       \* positions in the order their observations were appended
  ctl,       \* where the loop is
  why,       \* how a broken group will leave
  exec,      \* inner execution state of the Run
  signal     \* task.cancel() was called

vars == << kind, st, pos, pending, group, log, ctl, why, exec, signal >>

Calls  == 1..N
Settled == { "ok", "error", "cancelled", "skipped" }
Closed == { "complete", "final", "raised", "cancelled" }
InFlight == { i \in Calls : st[i] \in { "scheduled", "running" } }

Leftmost(S) == CHOOSE i \in S : \A j \in S : i <= j

Parallel(i) == i \in Calls /\ kind[i] = "pure" /\ max_parallel > 1

Init ==
  /\ kind \in [ Calls -> Kinds ]
  /\ st = [ i \in Calls |-> "new" ]
  /\ pos = 1 /\ pending = {} /\ group = {} /\ log = << >>
  /\ ctl = "next" /\ why = "none" /\ exec = "thinking" /\ signal = FALSE

At(c) == ctl = c /\ ~ signal /\ UNCHANGED << kind, signal >>
-----------------------------------------------------------------------------
(* The for loop. *)

Collect ==
  /\ At("next") /\ Parallel(pos)
  /\ pending' = pending \cup { pos }
  /\ pos' = pos + 1
  /\ ctl' = IF Cardinality(pending') >= max_parallel THEN "flush" ELSE "next"
  /\ UNCHANGED << st, group, log, why, exec >>

(* Slip: what is collected when the calls end is not flushed.              *)
SlipBarrier ==
  /\ At("next") /\ pending # {}
  /\ pos \in Calls /\ ~ Parallel(pos)
  /\ ctl' = "flush"
  /\ UNCHANGED << st, pos, pending, group, log, why, exec >>

(* A serial call, a failed request and the end of the loop flush first.    *)
Barrier ==
  /\ At("next") /\ pending # {}
  /\ ~ Parallel(pos)
  /\ ctl' = "flush"
  /\ UNCHANGED << st, pos, pending, group, log, why, exec >>

(* Slip: a serial Tool does not wait for the collected group.              *)
SlipStartSerial ==
  /\ At("next") /\ pos \in Calls
  /\ ~ Parallel(pos) /\ kind[pos] \notin { "bad", "fatal" }
  /\ st' = [ st EXCEPT ![pos] = "running" ]
  /\ exec' = "acting"
  /\ ctl' = "serial"
  /\ UNCHANGED << pos, pending, group, log, why >>

(* execute_one of a serial call: prepare leaves OBSERVING, execute enters  *)
(* ACTING, the body runs.                                                  *)
StartSerial ==
  /\ At("next") /\ pending = {} /\ pos \in Calls
  /\ ~ Parallel(pos) /\ kind[pos] \notin { "bad", "fatal" }
  /\ st' = [ st EXCEPT ![pos] = "running" ]
  /\ exec' = "acting"
  /\ ctl' = "serial"
  /\ UNCHANGED << pos, pending, group, log, why >>

(* A failed write raises in publish; a failed read is an observation.      *)
FinishSerial ==
  /\ At("serial")
  /\ exec' = "observing"
  /\ UNCHANGED << pos, pending, group, log, why >>
  /\ \/ st' = [ st EXCEPT ![pos] = "ok" ] /\ ctl' = "answer"
     \/ /\ st' = [ st EXCEPT ![pos] = "error" ]
        /\ ctl' = IF kind[pos] \in { "pure", "read" } THEN "answer" ELSE "raised"

(* The observation of a serial call.  If its result ends the turn, the     *)
(* calls after it are answered as skipped.                                 *)
Answer ==
  /\ At("answer")
  /\ log' = Append(log, pos)
  /\ pos' = pos + 1
  /\ \/ ctl' = "next"
     \/ kind[pos] = "ender" /\ st[pos] = "ok" /\ ctl' = "skip"
  /\ UNCHANGED << st, pending, group, why, exec >>

RequestError ==
  /\ At("next") /\ pending = {} /\ pos \in Calls
  /\ UNCHANGED << pending, group, why, exec >>
  /\ \/ /\ kind[pos] = "bad"
        /\ st' = [ st EXCEPT ![pos] = "error" ]
        /\ log' = Append(log, pos)
        /\ pos' = pos + 1
        /\ ctl' = "next"
     \/ /\ kind[pos] = "fatal"
        /\ ctl' = "raised"
        /\ UNCHANGED << st, log, pos >>

(* Slip: the calls after the one that ended the turn get no observation.   *)
SlipSkip ==
  /\ At("skip")
  /\ ctl' = "final"
  /\ UNCHANGED << st, pos, pending, group, log, why, exec >>

Skip ==
  /\ At("skip")
  /\ UNCHANGED << pending, group, why, exec >>
  /\ \/ /\ pos \in Calls
        /\ st' = [ st EXCEPT ![pos] = "skipped" ]
        /\ log' = Append(log, pos)
        /\ pos' = pos + 1
        /\ UNCHANGED ctl
     \/ pos \notin Calls /\ ctl' = "final" /\ UNCHANGED << st, log, pos >>

LoopEnds ==
  /\ At("next") /\ pending = {} /\ pos \notin Calls
  /\ ctl' = "complete"
  /\ UNCHANGED << st, pos, pending, group, log, why, exec >>
-----------------------------------------------------------------------------
(* flush_group. *)

Flush ==
  /\ At("flush")
  /\ group' = pending /\ pending' = {}
  /\ ctl' = "prepare"
  /\ UNCHANGED << st, pos, log, why, exec >>

Unprepared == { i \in group : st[i] = "new" }

(* Ledger identity is established left to right before bodies overlap.     *)
Prepare ==
  /\ At("prepare") /\ Unprepared # {}
  /\ st' = [ st EXCEPT ![Leftmost(Unprepared)] = "prepared" ]
  /\ exec' = "thinking"
  /\ UNCHANGED << pos, pending, group, log, ctl, why >>

(* begin_parallel_group, then one task per call.                           *)
Gather ==
  /\ At("prepare") /\ Unprepared = {}
  /\ st' = [ i \in Calls |-> IF i \in group THEN "scheduled" ELSE st[i] ]
  /\ exec' = "acting"
  /\ ctl' = "gather"
  /\ UNCHANGED << pos, pending, group, log, why >>

(* A scheduled task starts its body, or its TOOL_DURING hook raises, which *)
(* escapes gather.                                                         *)
Body(i) ==
  /\ ctl = "gather" /\ i \in group /\ st[i] = "scheduled"
  /\ UNCHANGED << kind, pos, pending, group, log, exec, signal >>
  /\ \/ st' = [ st EXCEPT ![i] = "running" ] /\ UNCHANGED << ctl, why >>
     \/ /\ st' = [ st EXCEPT ![i] = "error" ]
        /\ ctl' = "settle" /\ why' = "raised"

Return(i) ==
  /\ ctl = "gather" /\ i \in group /\ st[i] = "running"
  /\ \E r \in { "ok", "error" } : st' = [ st EXCEPT ![i] = r ]
  /\ UNCHANGED << kind, pos, pending, group, log, ctl, why, exec, signal >>

(* Every sibling of a broken group is cancelled and awaited.               *)
Settle(i) ==
  /\ ctl = "settle" /\ i \in group /\ st[i] \in { "scheduled", "running" }
  /\ st' = [ st EXCEPT ![i] = "cancelled" ]
  /\ UNCHANGED << kind, pos, pending, group, log, ctl, why, exec, signal >>

LeaveGroup ==
  /\ ctl = "settle" /\ InFlight = {}
  /\ exec' = "observing" /\ ctl' = why
  /\ UNCHANGED << kind, st, pos, pending, group, log, why, signal >>

FinishGroup ==
  /\ At("gather") /\ InFlight = {}
  /\ exec' = "observing" /\ ctl' = "publish"
  /\ UNCHANGED << st, pos, pending, group, log, why >>

(* Outcomes are published sorted by position.                              *)
Publish ==
  /\ At("publish") /\ group # {}
  /\ log' = Append(log, Leftmost(group)) /\ group' = group \ { Leftmost(group) }
  /\ ctl' = IF group' = {} THEN "next" ELSE "publish"
  /\ UNCHANGED << st, pos, pending, why, exec >>
-----------------------------------------------------------------------------
(* A hook, the Session write or the durable observation fails.             *)
PublishRaises ==
  /\ ctl \in { "answer", "publish", "skip" } /\ ~ signal
  /\ ctl' = "raised"
  /\ UNCHANGED << kind, st, pos, pending, group, log, why, exec, signal >>

Cancel ==
  /\ ctl \notin Closed \cup { "settle" } /\ ~ signal
  /\ signal' = TRUE
  /\ UNCHANGED << kind, st, pos, pending, group, log, ctl, why, exec >>

Interrupted ==
  /\ signal /\ ctl \notin Closed \cup { "settle" }
  /\ signal' = FALSE
  /\ UNCHANGED << kind, pos, pending, group, log, exec >>
  /\ \/ ctl = "gather" /\ ctl' = "settle" /\ why' = "cancelled" /\ UNCHANGED st
     \/ /\ ctl # "gather" /\ ctl' = "cancelled"
        /\ st' = [ i \in Calls |-> IF st[i] = "running" THEN "cancelled" ELSE st[i] ]
        /\ UNCHANGED why

Step ==
  \/ Collect \/ Barrier \/ StartSerial \/ FinishSerial \/ Answer \/ RequestError \/ Skip \/ LoopEnds
  \/ Flush \/ Prepare \/ Gather \/ LeaveGroup \/ FinishGroup \/ Publish \/ Interrupted
  \/ \E i \in Calls : Body(i) \/ Return(i) \/ Settle(i)

Next == Step \/ PublishRaises \/ Cancel

Spec == Init /\ [][Next]_vars

(* Tool bodies end (their sandboxes and HTTP clients have timeouts) and    *)
(* the event loop resumes every task whose await has ended.                *)
FairSpec == Spec /\ WF_vars(Step)
-----------------------------------------------------------------------------
(* Every piece of state has one of the values the code gives it.           *)
TypeOK ==
  /\ kind \in [ Calls -> Kinds ]
  /\ st \in [ Calls -> Settled \cup { "new", "prepared", "scheduled", "running" } ]
  /\ pos \in 1..(N + 1)
  /\ pending \subseteq Calls /\ group \subseteq Calls
  /\ log \in Seq(Calls)
  /\ ctl \in Closed \cup { "next", "serial", "answer", "skip", "flush", "prepare",
                           "gather", "settle", "publish" }
  /\ why \in { "none", "raised", "cancelled" }
  /\ exec \in { "thinking", "acting", "observing" }
  /\ signal \in BOOLEAN

(* The model sees observations in the order of its calls, none twice and   *)
(* none left out, however the bodies of a group interleave.                *)
AnswersInOrder == \A k \in 1..Len(log) : log[k] = k

(* A reply that closes normally has answered every call it made.           *)
EveryCallAnswered == ctl \in { "complete", "final" } => Len(log) = N

(* A Tool that is not parallel-safe runs alone: no body of another call    *)
(* overlaps it and everything before it has been observed.                 *)
SerialRunsAlone ==
  \A i \in Calls : st[i] = "running" /\ ~ Parallel(i) =>
    InFlight = { i } /\ Len(log) = i - 1

(* At most max_parallel bodies overlap, and only while the Run is ACTING:  *)
(* a group that fails or is cancelled settles every sibling before it      *)
(* leaves (the comment in flush_group).                                    *)
BodiesInsideActing ==
  InFlight # {} => exec = "acting" /\ ctl \notin Closed /\ Cardinality(InFlight) <= max_parallel

(* However the bodies interleave: observations in the order of the calls,  *)
(* a serial Tool alone, no body outside its group.                         *)
BodiesDisciplined == AnswersInOrder /\ SerialRunsAlone /\ BodiesInsideActing

(* The loop is never stuck on a group: it completes, raises or reports the *)
(* cancellation.                                                           *)
Closes == <>(ctl \in Closed)

(* The reply as its reader sees it.                                        *)
View ==
  CASE ctl \in { "complete", "final" } -> "complete"
    [] ctl \in { "raised", "cancelled" } -> "aborted"
    [] OTHER -> "open"

Promise == INSTANCE OrderedAnswers WITH
  answered <- Len(log), state <- View

(* The streaming executor implements the left-to-right promise.            *)
KeepsPromise == Promise!Spec
=============================================================================
