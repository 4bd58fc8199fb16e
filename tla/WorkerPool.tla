----------------------------- MODULE WorkerPool -----------------------------
(***************************************************************************)
(* The two worker pools (src/workers): Piscina's threads, and the inline    *)
(* pool that chains tasks on the caller's thread.  A caller's wait and the  *)
(* work it waits for are separate things: neither a timeout nor an abort    *)
(* stops a task that runs.                                                  *)
(***************************************************************************)
EXTENDS Integers, Sequences, FiniteSets

CONSTANTS
    Task,           \* the calls of run()
    Unknown,        \* those that name no registered handler
    Timeouts,       \* the values of taskTimeoutMs considered: a number, 0 is none
    maxThreads, maxQueue,
    MaxNow          \* bound: the clock

VARIABLES
    adapter,        \* WORKER_POOL
    taskTimeoutMs,
    now,
    work,           \* work[t]: the handler's side of a task
    wait,           \* wait[t]: the caller's promise
    dueAt,          \* dueAt[t]: when its timer fires; 0 is no timer
    aborted,        \* the tasks whose AbortSignal has fired
    queue,          \* Piscina's queue, or the inline chain
    outstanding,
    completed,
    closed,         \* run() refuses
    drained         \* the promise of shutdown() has resolved

vars == <<adapter, taskTimeoutMs, now, work, wait, dueAt, aborted, queue, outstanding, completed,
          closed, drained>>

Init ==
    /\ adapter \in {"piscina", "inline"} /\ taskTimeoutMs \in Timeouts
    /\ now = 0
    /\ work = [t \in Task |-> "none"] /\ wait = [t \in Task |-> "none"]
    /\ dueAt = [t \in Task |-> 0]
    /\ aborted = {} /\ queue = <<>> /\ outstanding = 0 /\ completed = 0
    /\ closed = FALSE /\ drained = FALSE

Running  == {t \in Task : work[t] = "running"}
Awaited  == {t \in Task : wait[t] = "waiting"}
threads  == IF adapter = "piscina" THEN maxThreads ELSE 1
Settle(t, how) == wait' = [wait EXCEPT ![t] = how]

\* The inline slot is the caller's wait, not the work behind it.
Slots == IF adapter = "piscina" THEN Running ELSE Running \cap Awaited

Timer == IF taskTimeoutMs > 0 THEN now + taskTimeoutMs ELSE 0

-----------------------------------------------------------------------------
\* run(): Piscina's timer starts with the call, the inline one with the work.
run(t) ==
    /\ work[t] = "none" /\ wait[t] = "none"
    /\ IF closed \/ t \in aborted \/ outstanding >= maxQueue
       THEN /\ Settle(t, IF closed THEN "closed" ELSE IF t \in aborted THEN "aborted" ELSE "saturated")
            /\ UNCHANGED <<work, dueAt, queue, outstanding>>
       ELSE /\ outstanding' = outstanding + 1
            /\ work' = [work EXCEPT ![t] = "queued"]
            /\ queue' = Append(queue, t)
            /\ dueAt' = [dueAt EXCEPT ![t] = IF adapter = "piscina" THEN Timer ELSE 0]
            /\ Settle(t, "waiting")
    /\ UNCHANGED <<adapter, taskTimeoutMs, now, aborted, completed, closed, drained>>

\* A thread, or the chain, takes the next task up.  An inline task whose
\* signal has fired while it was queued still starts; its wait does not.
begin ==
    /\ queue # <<>> /\ Cardinality(Slots) < threads
    /\ LET t == Head(queue)
           refused == adapter = "inline" /\ t \in aborted IN
       /\ queue' = Tail(queue)
       /\ work' = [work EXCEPT ![t] = "running"]
       /\ dueAt' = IF adapter = "inline" /\ ~refused THEN [dueAt EXCEPT ![t] = Timer] ELSE dueAt
       /\ IF refused
          THEN Settle(t, "aborted") /\ outstanding' = outstanding - 1 /\ completed' = completed + 1
          ELSE UNCHANGED <<wait, outstanding, completed>>
    /\ UNCHANGED <<adapter, taskTimeoutMs, now, aborted, closed, drained>>

\* The inline bookkeeping is in the finally around the race.
Counted(t) == adapter = "piscina" \/ t \in Awaited

\* handle(): the handler returns or throws; nobody may be waiting any more.
handle(t) ==
    /\ t \in Running
    /\ work' = [work EXCEPT ![t] = "done"]
    /\ outstanding' = outstanding - (IF Counted(t) THEN 1 ELSE 0)
    /\ \E how \in IF t \in Unknown THEN {"failed"} ELSE {"resolved", "failed"} :
          /\ IF t \in Awaited THEN Settle(t, how) ELSE UNCHANGED wait
          /\ completed' = completed + (IF Counted(t) /\ (adapter = "inline" \/ how = "resolved") THEN 1 ELSE 0)
    /\ UNCHANGED <<adapter, taskTimeoutMs, now, dueAt, aborted, queue, closed, drained>>

\* Mutant: Piscina's task is counted out when its caller gives up.
GivesUpCounted(t, how) ==
    /\ Settle(t, how)
    /\ outstanding' = outstanding - 1
    /\ completed' = completed + (IF adapter = "inline" THEN 1 ELSE 0)

\* raceWithSignals rejects: only the inline pool counts the task out.
GivesUp(t, how) ==
    /\ Settle(t, how)
    /\ IF adapter = "inline"
       THEN outstanding' = outstanding - 1 /\ completed' = completed + 1
       ELSE UNCHANGED <<outstanding, completed>>

timeout(t) ==
    /\ t \in Awaited /\ dueAt[t] > 0 /\ now >= dueAt[t]
    /\ GivesUp(t, "timedOut")
    /\ UNCHANGED <<adapter, taskTimeoutMs, now, work, dueAt, aborted, queue, closed, drained>>

\* The signal goes to Piscina itself, which drops a queued task and discards
\* the thread of a running one; the inline race hears it once it has begun.
abort(t) ==
    /\ t \notin aborted /\ aborted' = aborted \cup {t}
    /\ \/ /\ adapter = "piscina" /\ work[t] \in {"queued", "running"}
          /\ work' = [work EXCEPT ![t] = "done"]
          /\ queue' = SelectSeq(queue, LAMBDA u : u # t)
          /\ outstanding' = outstanding - 1
          /\ IF t \in Awaited THEN Settle(t, "aborted") ELSE UNCHANGED wait
          /\ UNCHANGED completed
       \/ /\ adapter = "inline" /\ t \in Running \cap Awaited
          /\ GivesUp(t, "aborted")
          /\ UNCHANGED <<work, queue>>
       \/ /\ \/ work[t] \in {"none", "done"}
             \/ adapter = "inline" /\ t \notin Running \cap Awaited
          /\ UNCHANGED <<work, wait, queue, outstanding, completed>>
    /\ UNCHANGED <<adapter, taskTimeoutMs, now, dueAt, closed, drained>>

shutdown ==
    /\ ~closed /\ closed' = TRUE
    /\ UNCHANGED <<adapter, taskTimeoutMs, now, work, wait, dueAt, aborted, queue, outstanding,
                   completed, drained>>

\* Piscina's close() awaits its tasks, the inline pool its chain.
drains ==
    /\ closed /\ ~drained /\ queue = <<>> /\ Slots = {}
    /\ drained' = TRUE
    /\ UNCHANGED <<adapter, taskTimeoutMs, now, work, wait, dueAt, aborted, queue, outstanding,
                   completed, closed>>

tick ==
    /\ now < MaxNow /\ now' = now + 1
    /\ UNCHANGED <<adapter, taskTimeoutMs, work, wait, dueAt, aborted, queue, outstanding, completed,
                   closed, drained>>

Next ==
    \/ \E t \in Task : run(t) \/ handle(t) \/ timeout(t) \/ abort(t)
    \/ begin \/ shutdown \/ drains \/ tick

Spec == Init /\ [][Next]_vars

-----------------------------------------------------------------------------
\* The count the bound is enforced on is neither lost nor made up over
\* timeouts, aborts and failures: it is the tasks queued or occupying a slot,
\* never more than maxQueue, and a pool that has drained owes nobody an
\* answer (run, raceWithSignals, shutdown).
SlotsAccounted ==
    /\ outstanding = Len(queue) + Cardinality(Slots)
    /\ outstanding <= maxQueue /\ Cardinality(Slots) <= threads
    /\ drained => outstanding = 0 /\ Awaited = {}
=============================================================================
