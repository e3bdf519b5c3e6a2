----------------------------- MODULE SessionLog -----------------------------
(***************************************************************************)
(* One conversation Session (memory/session.py, memory/store.py): an index *)
(* entry that lists JSONL segments, the segments, and the message cache of *)
(* the Runtime that works on it.  Turns append records through the Memory  *)
(* callbacks (memory/callbacks.py); compression                            *)
(* (context_process/compression.py) starts a new segment whose summary     *)
(* refers to the records it protects; the Gateway replaces the last turn,  *)
(* branches and deletes.  A method runs without interruption in the event  *)
(* loop, but the process may die between two of its durable writes: an     *)
(* operation is the sequence of the disk states it goes through.           *)
(***************************************************************************)
EXTENDS Integers, Sequences, FiniteSets, SequencesExt

CONSTANTS
    MaxTurns,      \* bound: Runs of the Session
    MaxBatches,    \* bound: batches of tool calls
    MaxSlDeaths,   \* bound: deaths of the process
    MaxRollovers,  \* bound: compressions and Skill refreshes
    MaxEdits,      \* bound: replaced turns and branches
    MaxSlEvents    \* bound: deaths, rollovers and edits together

ASSUME SlAssumption ==
    {MaxTurns, MaxBatches, MaxSlDeaths, MaxRollovers, MaxEdits, MaxSlEvents} \subseteq Nat

VARIABLES
    slDisk,    \* the index entry (<<>> or <<entry>>) and the segment files
    slCache,   \* what the Runtime's message cache tells its readers
    slTurn,    \* the Turn of the current Run, if any
    slMarked,  \* calls whose observation the Gateway marked published
    slRuns, slDeaths, slRolls, slEdits,
    slDone,    \* history: Runs whose Turn was closed by the Memory callbacks
    slHurt     \* history: an operation known to break references happened

slVars == <<slDisk, slCache, slTurn, slMarked, slRuns, slDeaths, slRolls, slEdits, slDone, slHurt>>

MoreEvents(n, max) == n < max /\ slDeaths + slRolls + slEdits < MaxSlEvents

(***************************************************************************)
(* Records.  An id is <<Run, kind, number>>; a call is <<Run, attempt,     *)
(* number>>.  A summary carries the references of its protected tail, an   *)
(* amendment ("context") the user record it belongs to.                    *)
(***************************************************************************)
NoId == <<0, "none", 0>>
SessionRecord(id, role) ==
    [id |-> id, role |-> role, calls |-> <<>>, call |-> <<>>, refs |-> <<>>, cur |-> FALSE, target |-> NoId]
ToolRecord(id, c) == [SessionRecord(id, "tool") EXCEPT !.call = c]
Conversational == {"user", "assistant", "tool"}
RunOf(r) == r.id[1]

Entry(d) == d.entry[1]
Files(d) == Entry(d).files
Latest(d) == Last(Files(d))
HasSession(d) == d.entry # <<>>
Segment(d, f) == IF f \in DOMAIN d.segs THEN d.segs[f] ELSE <<>>

\* read_all_records_strict: every indexed segment in order.
SegmentMissing(d, f) ==
    f \notin DOMAIN d.segs /\ ~(Entry(d).state = "pending" /\ f = Latest(d))
ReadStrict(d) ==
    /\ \A f \in ToSet(Files(d)) : ~SegmentMissing(d, f)
    /\ \A f \in ToSet(Files(d)) : \A r \in ToSet(Segment(d, f)) : r.role # "torn"
RecordIds(d) == UNION {{r.id : r \in ToSet(Segment(d, f))} : f \in ToSet(Files(d))}
AllRecords(d) == FlattenSeq([i \in DOMAIN Files(d) |-> Segment(d, Files(d)[i])])
FindRecords(d, run) == SelectSeq(AllRecords(d), LAMBDA r : RunOf(r) = run)

\* context_records: the latest segment, the summary's protected tail before it.
Summaries(s) == SelectSeq(s, LAMBDA r : r.role = "summary")
TailRefs(s) == IF Summaries(s) = <<>> THEN <<>> ELSE Summaries(s)[1].refs
Resolves(d, ref) ==
    ref.seg \in ToSet(Files(d)) /\ \E r \in ToSet(Segment(d, ref.seg)) : r.id = ref.id
RefersTo(d, ref) == CHOOSE r \in ToSet(Segment(d, ref.seg)) : r.id = ref.id
ContextRecords(d) ==
    LET active == Segment(d, Latest(d))
        refs == TailRefs(active)
    IN IF refs = <<>> THEN active
       ELSE <<Summaries(active)[1]>> \o [i \in DOMAIN refs |-> RefersTo(d, refs[i])]
                \o SelectSeq(active, LAMBDA r : r.role # "summary")

\* effective_contexts: an amendment needs its user record in view.
TargetsVisible(s) ==
    \A r \in ToSet(s) : r.role = "context" => \E u \in ToSet(s) : u.role = "user" /\ u.id = r.target

Readable(d) ==
    /\ ReadStrict(d)
    /\ \A ref \in ToSet(TailRefs(Segment(d, Latest(d)))) : Resolves(d, ref)
    /\ TargetsVisible(ContextRecords(d))

(***************************************************************************)
(* restore: the messages of the context, with unanswered calls closed      *)
(* before the next message that is not a result, and an answer put between *)
(* a user's message and the next one.                                      *)
(***************************************************************************)
Unknown(c) == ToolRecord(NoId, c)
Marker == SessionRecord(NoId, "assistant")
CloseCalls(acc) ==
    [out |-> acc.out \o [i \in DOMAIN acc.open |-> Unknown(acc.open[i])], open |-> <<>>]
CompleteOne(acc, m) ==
    LET base == IF m.role = "tool" THEN acc ELSE CloseCalls(acc)
    IN [out |-> Append(base.out, m),
        open |-> IF m.role = "assistant" /\ m.calls # <<>> THEN m.calls
                 ELSE IF m.role = "tool" THEN SelectSeq(base.open, LAMBDA c : c # m.call)
                 ELSE base.open]
CompleteToolChains(s) ==
    CloseCalls(FoldLeft(CompleteOne, [out |-> <<>>, open |-> <<>>], s)).out

NormalizeOne(acc, m) ==
    IF m.role = "user" /\ acc # <<>> /\ Last(acc).role \in {"user", "tool"}
    THEN acc \o <<Marker, m>> ELSE Append(acc, m)
NormalizeHistory(s, trailingUser) ==
    LET n == FoldLeft(NormalizeOne, <<>>, s)
    IN IF n # <<>> /\ Last(n).role = "user" /\ ~trailingUser THEN Append(n, Marker) ELSE n

RestoreMessages(d) ==
    LET ctx == ContextRecords(d)
        sums == Summaries(ctx)
    IN NormalizeHistory(CompleteToolChains(SelectSeq(ctx, LAMBDA r : r.role \in Conversational)),
                        sums # <<>> /\ sums[1].cur)

(***************************************************************************)
(* The message cache, as its readers see it: whether it is empty, the role *)
(* of the last message, and the unanswered calls of the last assistant     *)
(* message that had any.                                                   *)
(***************************************************************************)
EmptyCache == [last |-> "none", plain |-> FALSE, pend |-> <<>>]
Absorb(c, m) ==
    [last |-> m.role,
     plain |-> m.role = "assistant" /\ m.calls = <<>>,
     pend |-> IF m.role = "assistant" /\ m.calls # <<>> THEN m.calls
              ELSE IF m.role = "tool" THEN SelectSeq(c.pend, LAMBDA x : x # m.call) ELSE c.pend]
CacheFrom(d) == FoldLeft(Absorb, EmptyCache, RestoreMessages(d))
EnsureCache == IF slCache = <<>> THEN CacheFrom(slDisk) ELSE slCache[1]

(***************************************************************************)
(* Durable writes.  AppendOnce: the line, then pending becomes active; a   *)
(* record id that is there already only repeats the activation.            *)
(***************************************************************************)
ActivateIfMaterialized(d) ==
    IF Entry(d).state = "pending" /\ Segment(d, Latest(d)) # <<>>
    THEN [d EXCEPT !.entry = <<[Entry(d) EXCEPT !.state = "active"]>>] ELSE d
WriteLine(d, r) ==
    [d EXCEPT !.segs = [f \in DOMAIN d.segs \cup {Latest(d)} |->
                            IF f = Latest(d) THEN Append(Segment(d, f), r) ELSE d.segs[f]]]
AppendOnce(d, r) ==
    IF r.id \in RecordIds(d) THEN <<ActivateIfMaterialized(d)>>
    ELSE <<WriteLine(d, r), ActivateIfMaterialized(WriteLine(d, r))>>
AppendAll(d, rs) ==
    FoldLeft(LAMBDA steps, r : steps \o AppendOnce(Last(steps), r), <<d>>, rs)

PublishSegment(d, f, s) ==
    [d EXCEPT !.segs = [g \in DOMAIN d.segs \cup {f} |-> IF g = f THEN s ELSE d.segs[g]]]
Unlink(d, fs) == [d EXCEPT !.segs = [g \in DOMAIN d.segs \ fs |-> d.segs[g]]]

\* An operation that completes, and one cut short by a death (the last line may be torn).
Completes(steps) == slDisk' = Last(steps)
Tear(d) ==
    IF HasSession(d) /\ Segment(d, Latest(d)) # <<>>
    THEN [d EXCEPT !.segs[Latest(d)][Len(Segment(d, Latest(d)))].role = "torn"] ELSE d
Cut(steps) ==
    /\ MoreEvents(slDeaths, MaxSlDeaths)
    /\ slDeaths' = slDeaths + 1
    /\ \/ \E k \in 1 .. Len(steps) - 1 : slDisk' = steps[k] /\ slHurt' = slHurt
       \/ /\ Len(steps) > 1 /\ Segment(steps[2], Latest(steps[2])) # Segment(steps[1], Latest(steps[1]))
          /\ slDisk' = Tear(steps[2]) /\ slHurt' = TRUE
    /\ slCache' = <<>>
    /\ slTurn' = IF slTurn = <<>> THEN <<>> ELSE <<[slTurn[1] EXCEPT !.phase = "dead"]>>
    /\ UNCHANGED <<slMarked, slRuns, slDone>>

(***************************************************************************)
(* The Turn of a Run.  Its id is the Run's, also when the Run is resumed   *)
(* after a death, so a resumed Turn adds to the records of the first try.  *)
(***************************************************************************)
NoTurn == slTurn = <<>>
T == slTurn[1]
InPhase(ph) == ~NoTurn /\ T.phase = ph
Usable == HasSession(slDisk) /\ Readable(slDisk)
NewTurn(run) == [run |-> run, phase |-> "start", att |-> 0, rec |-> NoId]
EndTurn == slTurn' = <<>>

\* The Turn's calls without a published observation, in call order.
TurnCalls ==
    LET s == FindRecords(slDisk, T.run) IN FlattenSeq([i \in DOMAIN s |-> s[i].calls])
Unpublished == SelectSeq(TurnCalls, LAMBDA c : c \notin slMarked)

\* One record of the Turn: written, and seen by the cache.
Records(r, phase) ==
    \/ /\ Completes(AppendOnce(slDisk, r))
       /\ slCache' = <<Absorb(EnsureCache, r)>>
       /\ slTurn' = <<[T EXCEPT !.phase = phase, !.rec = IF r.role = "user" THEN r.id ELSE @]>>
       /\ UNCHANGED <<slMarked, slRuns, slDeaths, slDone, slHurt>>
    \/ Cut(<<slDisk>> \o AppendOnce(slDisk, r))

\* create_or_restore_session: an entry without a file yet.
CreateSession ==
    /\ ~HasSession(slDisk) /\ slRuns = 0
    /\ slDisk' = [slDisk EXCEPT !.entry = <<[files |-> <<1>>, state |-> "pending"]>>]
    /\ UNCHANGED <<slCache, slTurn, slMarked, slRuns, slDeaths, slRolls, slEdits, slDone, slHurt>>

TurnBegins ==
    /\ NoTurn /\ Usable /\ slRuns < MaxTurns
    /\ slRuns' = slRuns + 1
    /\ slTurn' = <<NewTurn(slRuns + 1)>>
    /\ UNCHANGED <<slDisk, slCache, slMarked, slDeaths, slRolls, slEdits, slDone, slHurt>>

\* Recovery queues the Run again, or ends it without its Session.  A call closed by the end of the first
\* try and not by its observation will have two results: their ids differ.
ClosedTwice ==
    \E r \in ToSet(FindRecords(slDisk, T.run)) :
        r.role = "tool" /\ r.id[2] # "observation" /\ r.call \in ToSet(Unpublished)
TurnResumes ==
    /\ InPhase("dead") /\ Usable
    /\ slTurn' = <<[T EXCEPT !.phase = "start", !.att = @ + 1, !.rec = NoId]>>
    /\ slHurt' = (slHurt \/ ClosedTwice)
    /\ UNCHANGED <<slDisk, slCache, slMarked, slRuns, slDeaths, slRolls, slEdits, slDone>>
TurnAbandoned ==
    /\ InPhase("dead") /\ EndTurn
    /\ UNCHANGED <<slDisk, slCache, slMarked, slRuns, slDeaths, slRolls, slEdits, slDone, slHurt>>

\* persist_current_user, after the observations of the first try are published.
PersistUser ==
    /\ InPhase("start") /\ Unpublished = <<>>
    /\ Records(SessionRecord(<<T.run, "user", T.att>>, "user"), "asked")
    /\ UNCHANGED <<slRolls, slEdits>>

\* persist_model_tool_calls: at most one batch of two calls for each try.
Batches == Cardinality({r \in ToSet(AllRecords(slDisk)) : r.calls # <<>>})
PersistToolCalls ==
    /\ InPhase("asked") /\ Batches < MaxBatches
    /\ LET calls == [i \in 1 .. 2 |-> <<T.run, T.att, i>>]
       IN /\ ToSet(calls) \cap ToSet(TurnCalls) = {}
          /\ Records([SessionRecord(<<T.run, "calls", T.att>>, "assistant") EXCEPT !.calls = calls], "acting")
    /\ UNCHANGED <<slRolls, slEdits>>

\* persist_tool_result under the observation's id, then the mark of the Gateway; a resumed Turn
\* publishes what the first try left.
Observation(c) == ToolRecord(<<c[1], "observation", 10 * c[2] + c[3]>>, c)
PersistToolResult ==
    /\ InPhase("acting") \/ InPhase("start")
    /\ Unpublished # <<>>
    /\ LET c == Head(Unpublished)
           steps == AppendOnce(slDisk, Observation(c))
       IN \/ /\ Completes(steps)
             /\ slCache' = <<Absorb(EnsureCache, Observation(c))>>
             /\ slMarked' = slMarked \cup {c}
             /\ slTurn' = <<[T EXCEPT !.phase = IF @ = "acting" /\ Len(Unpublished) = 1 THEN "asked" ELSE @]>>
             /\ UNCHANGED <<slRuns, slDeaths, slDone, slHurt>>
          \/ Cut(<<slDisk>> \o steps \o <<Last(steps)>>)
    /\ UNCHANGED <<slRolls, slEdits>>

(***************************************************************************)
(* The end of a Turn (persist_answer): the answer, or what closes the open *)
(* calls and the question.  Ids of the closing records are stable, so a    *)
(* repetition writes nothing: not even when a resumed Turn needs them      *)
(* again, which is why such an end is not counted among the proven ones.   *)
(***************************************************************************)
Terminal(kind) == SessionRecord(<<T.run, kind, 0>>, "assistant")
Closing(c, kind) == ToolRecord(<<c[1], kind, 10 * c[2] + c[3]>>, c)
TerminalMarker(last, kind) == IF last \in {"user", "tool"} THEN <<Terminal(kind)>> ELSE <<>>

\* record_cancellation and record_turn_failure work from the cache.
CancellationRecords(cache) ==
    IF cache.last = "none" \/ cache.plain THEN <<>>
    ELSE [i \in DOMAIN cache.pend |-> Closing(cache.pend[i], "cancelled")]
            \o TerminalMarker(IF cache.pend # <<>> THEN "tool" ELSE cache.last, "cancelled")
FailureRecords(cache) ==
    [i \in DOMAIN cache.pend |-> Closing(cache.pend[i], "skipped")]
        \o TerminalMarker(IF cache.pend # <<>> THEN "tool" ELSE cache.last, "error")

EndsWith(rs, proven) ==
    \/ /\ Completes(AppendAll(slDisk, rs))
       /\ slCache' = <<FoldLeft(Absorb, EnsureCache, rs)>>
       /\ slDone' = IF proven /\ \A r \in ToSet(rs) : r.id \notin RecordIds(slDisk) THEN slDone \cup {T.run} ELSE slDone
       /\ EndTurn
       /\ UNCHANGED <<slMarked, slRuns, slDeaths, slHurt>>
    \/ Cut(AppendAll(slDisk, rs))

TurnAnswered ==
    /\ InPhase("asked")
    /\ EndsWith(<<SessionRecord(<<T.run, "answer", T.att>>, "assistant")>>, TRUE)
    /\ UNCHANGED <<slRolls, slEdits>>
TurnFails ==
    /\ InPhase("asked") \/ InPhase("acting")
    /\ EndsWith(FailureRecords(EnsureCache), TRUE)
    /\ UNCHANGED <<slRolls, slEdits>>
NetworkFails ==
    /\ InPhase("asked")
    /\ EndsWith(TerminalMarker(EnsureCache.last, "network"), TRUE)
    /\ UNCHANGED <<slRolls, slEdits>>

\* A cancelled Turn: the streamed text if any, the closing records, and the question itself when the
\* cancellation came before it was written (_ensure_cancelled_session_records).  The cache of a resumed
\* Turn is the repaired history, in which the question of the first try looks answered.
TurnCancelled ==
    /\ ~NoTurn /\ T.phase # "dead"
    /\ LET first == IF FindRecords(slDisk, T.run) = <<>>
                    THEN <<SessionRecord(<<T.run, "cancelled-user", 0>>, "user")>> ELSE <<>>
           cache == FoldLeft(Absorb, EnsureCache, first)
       IN \/ EndsWith(first \o CancellationRecords(cache), T.att = 0 \/ T.rec # NoId)
          \/ /\ T.phase = "asked" /\ cache.last \in {"user", "tool"}
             /\ EndsWith(<<Terminal("partial")>>, TRUE)
    /\ UNCHANGED <<slRolls, slEdits>>

(***************************************************************************)
(* Compression: what the summary covers and what it protects, cut at whole *)
(* Turns.                                                                  *)
(***************************************************************************)
UserStarts(s) == SelectSeq([i \in 1 .. Len(s) |-> i], LAMBDA i : s[i].role = "user")
ProtectedLastMessages(s, present) == IF Len(s) > 2 THEN Len(s) - 1 ELSE 1
ProtectedTurnStart(s, present) ==
    LET starts == UserStarts(s)
        count == IF present THEN 2 ELSE 1
    IN IF Len(starts) >= count THEN starts[Len(starts) - count + 1] ELSE 1

Conversation(d) == SelectSeq(ContextRecords(d), LAMBDA r : r.role \in Conversational)
MakeRef(d, r) == [id |-> r.id, seg |-> CHOOSE f \in ToSet(Files(d)) : r \in ToSet(Segment(d, f))]
SummaryRecord(d, tail, cur) ==
    [SessionRecord(<<0, "summary", slRolls + 1>>, "summary") EXCEPT
        !.refs = [i \in DOMAIN tail |-> MakeRef(d, tail[i])], !.cur = cur]

\* rollover: the new segment is published, then the index points to it.  A name reserved by a pending
\* entry is dropped from the list, and the next number is the length of the list plus one.
PendingUnmaterialized(d) == Entry(d).state = "pending" /\ Latest(d) \notin DOMAIN d.segs
NextSegment(d) == Len(Files(d)) + 1
Rollover(d, r) ==
    LET n == NextSegment(d)
        files == IF PendingUnmaterialized(d) THEN <<n>> ELSE Append(Files(d), n)
        published == PublishSegment(d, n, <<r>>)
    IN <<published, [published EXCEPT !.entry = <<[files |-> files, state |-> "active"]>>]>>
Clobbers(d) == NextSegment(d) \in ToSet(Files(d))

\* place_compressed_continuity and render_ephemeral_context: amendments for the Turn before this one,
\* which now carries the summary, and for the current question.
Amendment(d, kind, u) ==
    [SessionRecord(<<T.run, kind, Latest(d)>>, "context") EXCEPT !.target = u]
Amendments(d, tail) ==
    LET users == SelectSeq(tail, LAMBDA r : r.role = "user")
    IN IF Len(users) < 2 THEN <<Amendment(d, "render", T.rec)>>
       ELSE <<Amendment(d, "anchor", users[1].id), Amendment(d, "render", T.rec)>>

Compresses(tail, cur, amend) ==
    LET rolled == Rollover(slDisk, SummaryRecord(slDisk, tail, cur))
        steps == rolled \o (IF amend THEN Tail(AppendAll(Last(rolled), Amendments(Last(rolled), tail))) ELSE <<>>)
    IN /\ MoreEvents(slRolls, MaxRollovers) /\ slRolls' = slRolls + 1
       /\ \/ /\ Completes(steps)
             /\ slCache' = IF Readable(Last(steps)) THEN <<CacheFrom(Last(steps))>> ELSE <<>>
             /\ slHurt' = (slHurt \/ Clobbers(slDisk))
             /\ UNCHANGED <<slTurn, slMarked, slRuns, slDeaths, slDone>>
          \/ ~Clobbers(slDisk) /\ Cut(<<slDisk>> \o steps)
       /\ UNCHANGED slEdits

\* Before the first model call the question is not yet a record; later, and when the provider refuses
\* the context, the current Turn is protected with the one before it.
CompressInTurn ==
    /\ InPhase("start") \/ InPhase("asked")
    /\ Usable /\ Unpublished = <<>>
    /\ LET s == Conversation(slDisk)
           start == ProtectedTurnStart(s, T.rec # NoId)
       IN start > 1 /\ Compresses(SubSeq(s, start, Len(s)), T.rec # NoId, T.rec # NoId)
\* /compress, and /skill refresh of a Session with history: everything into the summary.
CompressManually ==
    /\ NoTurn /\ Usable /\ Conversation(slDisk) # <<>>
    /\ Compresses(<<>>, FALSE, FALSE)
\* /skill refresh of a Session without history.
RefreshSkills ==
    /\ NoTurn /\ Usable /\ Conversation(slDisk) = <<>>
    /\ Compresses(<<>>, FALSE, FALSE)

(***************************************************************************)
(* The Gateway's operations on a Session without an active Run.            *)
(***************************************************************************)
HasTail(d) == \E r \in ToSet(AllRecords(d)) : r.refs # <<>>
LastUser(s) == Last(UserStarts(s))
EditName == 100 + slEdits + 1

\* truncate_last_turn: what comes before the last question, all segments in one file; a summary with a
\* protected tail then refers to segments that no longer exist.
ReplaceLastTurn ==
    /\ NoTurn /\ HasSession(slDisk) /\ ReadStrict(slDisk) /\ MoreEvents(slEdits, MaxEdits)
    /\ slEdits' = slEdits + 1
    /\ LET all == AllRecords(slDisk)
       IN /\ UserStarts(all) # <<>>
          /\ LET kept == SubSeq(all, 1, LastUser(all) - 1)
                 edited == [files |-> <<EditName>>, state |-> IF kept = <<>> THEN "pending" ELSE "active"]
                 published == IF kept = <<>> THEN slDisk ELSE PublishSegment(slDisk, EditName, kept)
                 switched == [published EXCEPT !.entry = <<edited>>]
                 hurt == \E r \in ToSet(kept) : r.refs # <<>> \/ r.role = "context"
             IN \/ /\ Completes(<<Unlink(switched, ToSet(Files(slDisk)))>>)
                   /\ slHurt' = (slHurt \/ hurt)
                   /\ slDone' = {r \in slDone : \E x \in ToSet(kept) : RunOf(x) = r} \ {RunOf(all[LastUser(all)])}
                   /\ UNCHANGED <<slCache, slTurn, slMarked, slRuns, slDeaths>>
                \/ /\ ~hurt /\ Cut(<<slDisk, published, published>>)
    /\ UNCHANGED slRolls

\* branch: a new Session with a copy of every record under a new id, where the protected tail of a
\* compressed Session is not found.  From here on the model follows the copy.
CopyOf(r) == [r EXCEPT !.id = <<@[1], @[2], @[3] + 1000 * (slEdits + 1)>>]
Branch ==
    /\ NoTurn /\ HasSession(slDisk) /\ ReadStrict(slDisk) /\ MoreEvents(slEdits, MaxEdits)
    /\ slEdits' = slEdits + 1
    /\ LET all == AllRecords(slDisk)
           created == [entry |-> <<[files |-> <<1>>, state |-> "pending"]>>, segs |-> <<>>]
           copies == [i \in DOMAIN all |-> CopyOf(all[i])]
       IN /\ all # <<>>
          /\ slHurt' = (slHurt \/ HasTail(slDisk) \/ \E r \in ToSet(copies) : r.role = "context")
          /\ \E k \in 1 .. Len(copies) :
                /\ k < Len(copies) => MoreEvents(slDeaths, MaxSlDeaths)
                /\ slDeaths' = slDeaths + (IF k < Len(copies) THEN 1 ELSE 0)
                /\ slDisk' = Last(AppendAll(created, SubSeq(copies, 1, k)))
                /\ slDone' = IF k < Len(copies) THEN {} ELSE slDone
                /\ slCache' = <<>>
    /\ UNCHANGED <<slTurn, slMarked, slRuns, slRolls>>

\* delete: the files, then the entry; a death in between leaves an entry without its files.
DeleteSession ==
    /\ NoTurn /\ HasSession(slDisk)
    /\ LET unlinked == Unlink(slDisk, ToSet(Files(slDisk)))
       IN \/ /\ slDisk' = [unlinked EXCEPT !.entry = <<>>]
             /\ UNCHANGED <<slDeaths, slHurt>>
          \/ /\ MoreEvents(slDeaths, MaxSlDeaths) /\ slDeaths' = slDeaths + 1
             /\ slDisk' = unlinked /\ slHurt' = TRUE
    /\ slCache' = <<>> /\ slDone' = {}
    /\ UNCHANGED <<slTurn, slMarked, slRuns, slRolls, slEdits>>

\* The pool closes an idle Runtime; the process dies between operations.
CloseRuntime ==
    /\ NoTurn /\ slCache # <<>> /\ slCache' = <<>>
    /\ UNCHANGED <<slDisk, slTurn, slMarked, slRuns, slDeaths, slRolls, slEdits, slDone, slHurt>>
ProcessDies ==
    /\ MoreEvents(slDeaths, MaxSlDeaths) /\ slDeaths' = slDeaths + 1
    /\ ~NoTurn /\ T.phase # "dead"
    /\ slTurn' = <<[T EXCEPT !.phase = "dead"]>> /\ slCache' = <<>>
    /\ UNCHANGED <<slDisk, slMarked, slRuns, slRolls, slEdits, slDone, slHurt>>

------------------------------------------------------------------------------
\* No Session yet, or one with an answered Turn.
Answered ==
    <<SessionRecord(<<0, "user", 0>>, "user"), SessionRecord(<<0, "answer", 0>>, "assistant")>>
SlInit ==
    /\ \/ slDisk = [entry |-> <<>>, segs |-> <<>>]
       \/ slDisk = [entry |-> <<[files |-> <<1>>, state |-> "active"]>>, segs |-> <<Answered>>]
    /\ slCache = <<>> /\ slTurn = <<>> /\ slMarked = {}
    /\ slRuns = 0 /\ slDeaths = 0 /\ slRolls = 0 /\ slEdits = 0
    /\ slDone = {} /\ slHurt = FALSE

SlNext ==
    \/ CreateSession \/ TurnBegins \/ TurnResumes \/ TurnAbandoned
    \/ PersistUser \/ PersistToolCalls \/ PersistToolResult
    \/ TurnAnswered \/ TurnFails \/ NetworkFails \/ TurnCancelled
    \/ CompressInTurn \/ CompressManually \/ RefreshSkills
    \/ ReplaceLastTurn \/ Branch \/ DeleteSession \/ CloseRuntime \/ ProcessDies

SlSpec == SlInit /\ [][SlNext]_slVars

------------------------------------------------------------------------------
\* A history the provider accepts: results only for the calls before them, each once, and every call
\* answered before the next message.
OpenCalls(acc, m) ==
    IF m.role = "tool"
    THEN [ok |-> acc.ok /\ m.call \in ToSet(acc.open), open |-> SelectSeq(acc.open, LAMBDA c : c # m.call)]
    ELSE [ok |-> acc.ok /\ acc.open = <<>>, open |-> m.calls]
ChainClosed(s) ==
    LET end == FoldLeft(OpenCalls, [ok |-> TRUE, open |-> <<>>], s) IN end.ok /\ end.open = <<>>

\* Whatever the order of turns, compressions, edits and deaths, the Session can be restored, and the
\* restored messages form a legal history: unless a line was torn, an edit or a branch moved records
\* that a summary refers to, a new segment took the name of an old one, or a deletion stopped halfway.
RestoresLegally ==
    (HasSession(slDisk) /\ ~slHurt) => Readable(slDisk) /\ ChainClosed(RestoreMessages(slDisk))

\* The records of a Turn that the Memory callbacks closed are the evidence finalization asks for: a
\* complete chain of the Run that ends with an assistant record, each record once.
EndedTurnHasEvidence ==
    (HasSession(slDisk) /\ ~slHurt) =>
        \A run \in slDone :
            LET s == FindRecords(slDisk, run)
            IN /\ s # <<>> /\ Last(s).role = "assistant"
               /\ ChainClosed(s)
               /\ Cardinality({r.id : r \in ToSet(s)}) = Len(s)

\* A Session can be read back as a history, and its Turns as evidence.
SessionSound == RestoresLegally /\ EndedTurnHasEvidence
=============================================================================
