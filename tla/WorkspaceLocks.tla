--------------------------- MODULE WorkspaceLocks ---------------------------
(***************************************************************************)
(* sandbox/locks.py: the workspace, mutation and file locks of a project.  *)
(* A lease first takes a writer-preferring lock of its own process (an     *)
(* asyncio.Condition whose waiters sleep until notify_all) and then polls  *)
(* the operating system's file lock, which other processes compete for.    *)
(* A coroutine may be cancelled, and a process may die, at any await.      *)
(***************************************************************************)
EXTENDS Naturals, Sequences, FiniteSets

CONSTANTS
    LkTasks,        \* coroutines
    LkProc(_),      \* the process a coroutine runs in
    MaxLkOps,       \* bound: transactions begun
    MaxLkCancels,   \* bound: cancelled coroutines
    MaxLkDeaths     \* bound: processes that die

ASSUME LkAssumption == IsFiniteSet(LkTasks)

LkProcs == {LkProc(t) : t \in LkTasks}

VARIABLES
    lkOp,           \* the transaction a coroutine is in
    lkAt,           \* the lease of it that is being taken
    lkPc,           \* "idle", "enter", "asleep", "woken", "poll", "inside", "leave"
    lkReaders,      \* _readers of a process' local lock
    lkWriter,       \* _writer
    lkWaiting,      \* _waiting_writers
    lkOs,           \* who holds the system lock of a path
    lkHurt,         \* local locks that lost a waiting writer to a cancellation
    lkOps, lkCancels, lkDeaths

lkVars == << lkOp, lkAt, lkPc, lkReaders, lkWriter, lkWaiting, lkOs, lkHurt, lkOps, lkCancels, lkDeaths >>
lkLocal == << lkReaders, lkWriter, lkWaiting >>
lkBounds == << lkOps, lkCancels, lkDeaths >>

Lease(l, m) == [lock |-> l, mode |-> m]
\* The lock managers' transactions, in their fixed order.
ReadLeases == << Lease("workspace", "shared"), Lease("file", "shared") >>
WriteLeases == << Lease("workspace", "shared"), Lease("mutation", "exclusive"), Lease("file", "exclusive") >>
ExclusiveLeases == << Lease("workspace", "exclusive") >>
LkTransactions == {ReadLeases, WriteLeases, ExclusiveLeases}
LkNames == {"workspace", "mutation", "file"}

Wanted(t) == lkOp[t][lkAt[t]]
\* _local_lock: one lock object per process and path.
LocalOf(t) == << LkProc(t), Wanted(t).lock >>
Sleepers(k) == {t \in LkTasks : lkPc[t] = "asleep" /\ LocalOf(t) = k}

\* What _acquire_shared and _acquire_exclusive wait for.
SharedFree(k) == ~lkWriter[k] /\ lkWaiting[k] = 0
ExclusiveFree(k) == ~lkWriter[k] /\ lkReaders[k] = 0
LocalFree(t) ==
    IF Wanted(t).mode = "shared" THEN SharedFree(LocalOf(t)) ELSE ExclusiveFree(LocalOf(t))

Moved(t, pc) == [lkPc EXCEPT ![t] = pc]
\* Condition.notify_all
NotifyAll(k) == [u \in LkTasks |-> IF u \in Sleepers(k) THEN "woken" ELSE lkPc[u]]

-----------------------------------------------------------------------------
BeginTransaction(t, op) ==
    /\ lkPc[t] = "idle" /\ lkOps < MaxLkOps /\ lkOps' = lkOps + 1
    /\ lkOp' = [lkOp EXCEPT ![t] = op] /\ lkAt' = [lkAt EXCEPT ![t] = 1]
    /\ lkPc' = Moved(t, "enter")
    /\ UNCHANGED << lkLocal, lkOs, lkHurt, lkCancels, lkDeaths >>

AcquireShared(t) ==
    LET k == LocalOf(t) IN
    /\ lkPc[t] \in {"enter", "woken"} /\ Wanted(t).mode = "shared"
    /\ IF SharedFree(k)
       THEN /\ lkReaders' = [lkReaders EXCEPT ![k] = @ + 1]
            /\ lkPc' = Moved(t, "poll")
       ELSE /\ lkPc' = Moved(t, "asleep")
            /\ UNCHANGED lkReaders
    /\ UNCHANGED << lkOp, lkAt, lkWriter, lkWaiting, lkOs, lkHurt, lkBounds >>

\* A writer that waits is counted, so that no new reader overtakes it.
AcquireExclusive(t) ==
    LET k == LocalOf(t)
        waiting == lkWaiting[k] + (IF lkPc[t] = "enter" THEN 1 ELSE 0) IN
    /\ lkPc[t] \in {"enter", "woken"} /\ Wanted(t).mode = "exclusive"
    /\ IF ExclusiveFree(k)
       THEN /\ lkWriter' = [lkWriter EXCEPT ![k] = TRUE]
            /\ lkWaiting' = [lkWaiting EXCEPT ![k] = waiting - 1]
            /\ lkPc' = Moved(t, "poll")
       ELSE /\ lkWaiting' = [lkWaiting EXCEPT ![k] = waiting]
            /\ lkPc' = Moved(t, "asleep")
            /\ UNCHANGED lkWriter
    /\ UNCHANGED << lkOp, lkAt, lkReaders, lkOs, lkHurt, lkBounds >>

\* Slip: an exclusive lock is granted beside a shared one.
SystemGrantsFirst(t) ==
    \A u \in lkOs[Wanted(t).lock] : u.mode = "shared"
\* flock or LockFileEx without blocking: granted unless a conflicting lock is held.
SystemGrants(t) ==
    \A u \in lkOs[Wanted(t).lock] : u.mode = "shared" /\ Wanted(t).mode = "shared"

Hold(t) == [task |-> t, mode |-> Wanted(t).mode]

\* One round of the poll that gets the lock; a round that does not changes nothing.
TryAcquire(t) ==
    /\ lkPc[t] = "poll" /\ SystemGrants(t)
    /\ lkOs' = [lkOs EXCEPT ![Wanted(t).lock] = @ \cup {Hold(t)}]
    /\ IF lkAt[t] < Len(lkOp[t])
       THEN lkAt' = [lkAt EXCEPT ![t] = @ + 1] /\ lkPc' = Moved(t, "enter")
       ELSE UNCHANGED lkAt /\ lkPc' = Moved(t, "inside")
    /\ UNCHANGED << lkOp, lkLocal, lkHurt, lkBounds >>

LeaveTransaction(t) ==
    /\ lkPc[t] = "inside" /\ lkPc' = Moved(t, "leave")
    /\ UNCHANGED << lkOp, lkAt, lkLocal, lkOs, lkHurt, lkBounds >>

\* The finally of _lease: the file lock goes, then the local one with notify_all,
\* and the leases taken before it follow one by one.
SystemRelease(t) == lkOs' = [lkOs EXCEPT ![Wanted(t).lock] = @ \ {Hold(t)}]
ReleaseShared(t) ==
    /\ lkReaders' = [lkReaders EXCEPT ![LocalOf(t)] = @ - 1]
    /\ lkPc' = NotifyAll(LocalOf(t))
    /\ UNCHANGED lkWriter
ReleaseExclusive(t) ==
    /\ lkWriter' = [lkWriter EXCEPT ![LocalOf(t)] = FALSE]
    /\ lkPc' = NotifyAll(LocalOf(t))
    /\ UNCHANGED lkReaders
ReleaseLease(t) ==
    /\ lkPc[t] = "leave" /\ lkAt[t] > 0
    /\ SystemRelease(t)
    /\ IF Wanted(t).mode = "shared" THEN ReleaseShared(t) ELSE ReleaseExclusive(t)
    /\ lkAt' = [lkAt EXCEPT ![t] = @ - 1]
    /\ UNCHANGED << lkOp, lkWaiting, lkHurt, lkBounds >>
TransactionEnds(t) ==
    /\ lkPc[t] = "leave" /\ lkAt[t] = 0
    /\ lkPc' = Moved(t, "idle") /\ lkOp' = [lkOp EXCEPT ![t] = << >>]
    /\ UNCHANGED << lkAt, lkLocal, lkOs, lkHurt, lkBounds >>

\* CancelledError in the wait: a writer is no longer counted, and nobody is woken.
CancelWaiting(t) ==
    /\ lkPc[t] \in {"asleep", "woken"}
    /\ lkCancels < MaxLkCancels /\ lkCancels' = lkCancels + 1
    /\ IF Wanted(t).mode = "exclusive"
       THEN /\ lkWaiting' = [lkWaiting EXCEPT ![LocalOf(t)] = @ - 1]
            /\ lkHurt' = lkHurt \cup {LocalOf(t)}
       ELSE UNCHANGED << lkWaiting, lkHurt >>
    /\ lkAt' = [lkAt EXCEPT ![t] = @ - 1]
    /\ lkPc' = Moved(t, "leave")
    /\ UNCHANGED << lkOp, lkReaders, lkWriter, lkOs, lkOps, lkDeaths >>

\* CancelledError in the poll (close_unlocked) or inside the transaction.
CancelHolding(t) ==
    /\ lkPc[t] \in {"poll", "inside"}
    /\ lkCancels < MaxLkCancels /\ lkCancels' = lkCancels + 1
    /\ lkPc' = Moved(t, "leave")
    /\ UNCHANGED << lkOp, lkAt, lkLocal, lkOs, lkHurt, lkOps, lkDeaths >>

\* The system releases a dead process' locks; a new one starts with none.
LkDies(p) ==
    /\ lkDeaths < MaxLkDeaths /\ lkDeaths' = lkDeaths + 1
    /\ LET gone(t) == LkProc(t) = p IN
       /\ lkOp' = [t \in LkTasks |-> IF gone(t) THEN << >> ELSE lkOp[t]]
       /\ lkAt' = [t \in LkTasks |-> IF gone(t) THEN 0 ELSE lkAt[t]]
       /\ lkPc' = [t \in LkTasks |-> IF gone(t) THEN "idle" ELSE lkPc[t]]
       /\ lkOs' = [l \in LkNames |-> {h \in lkOs[l] : ~gone(h.task)}]
    /\ lkReaders' = [k \in LkProcs \X LkNames |-> IF k[1] = p THEN 0 ELSE lkReaders[k]]
    /\ lkWriter' = [k \in LkProcs \X LkNames |-> k[1] # p /\ lkWriter[k]]
    /\ lkWaiting' = [k \in LkProcs \X LkNames |-> IF k[1] = p THEN 0 ELSE lkWaiting[k]]
    /\ lkHurt' = {k \in lkHurt : k[1] # p}
    /\ UNCHANGED << lkOps, lkCancels >>

LkInit ==
    /\ lkOp = [t \in LkTasks |-> << >>] /\ lkAt = [t \in LkTasks |-> 0]
    /\ lkPc = [t \in LkTasks |-> "idle"]
    /\ lkReaders = [k \in LkProcs \X LkNames |-> 0]
    /\ lkWriter = [k \in LkProcs \X LkNames |-> FALSE]
    /\ lkWaiting = [k \in LkProcs \X LkNames |-> 0]
    /\ lkOs = [l \in LkNames |-> {}] /\ lkHurt = {}
    /\ lkOps = 0 /\ lkCancels = 0 /\ lkDeaths = 0

LkNext ==
    \/ \E t \in LkTasks :
          \/ \E op \in LkTransactions : BeginTransaction(t, op)
          \/ AcquireShared(t) \/ AcquireExclusive(t) \/ TryAcquire(t)
          \/ LeaveTransaction(t) \/ ReleaseLease(t) \/ TransactionEnds(t)
          \/ CancelWaiting(t) \/ CancelHolding(t)
    \/ \E p \in LkProcs : LkDies(p)

LkSpec == LkInit /\ [][LkNext]_lkVars

-----------------------------------------------------------------------------
Inside(t, ops) == lkPc[t] = "inside" /\ lkOp[t] \in ops
\* No coroutine of any process reads or writes under a workspace_exclusive
\* transaction, and a write is alone with its file, whatever was cancelled or
\* died (locks.py, _lease).
TransactionsExclude ==
    \A t, u \in LkTasks :
        /\ Inside(t, {ExclusiveLeases}) /\ Inside(u, LkTransactions) => t = u
        /\ Inside(t, {WriteLeases}) /\ Inside(u, {ReadLeases, WriteLeases}) => t = u

\* No wake-up is lost: a coroutine sleeps only while what it waits for does not
\* hold (locks.py, notify_all of both releases), except on a lock that lost a
\* waiting writer to a cancellation, which notifies nobody.
SleepsForAReason ==
    \A t \in LkTasks : lkPc[t] = "asleep" /\ LocalOf(t) \notin lkHurt => ~LocalFree(t)

\* The locks exclude what they must and keep nobody out who could go in.
LocksSound == TransactionsExclude /\ SleepsForAReason
=============================================================================
