---------------------------- MODULE ShellRuntime ----------------------------
(***************************************************************************)
(* The lifecycle of ShellRuntime (runtime.py): coroutines on the event     *)
(* loop hand jobs to a single-worker ThreadPoolExecutor, which owns the    *)
(* shell.  start and close are jobs in the same queue as the requests.     *)
(* What a request does to the namespace is OwnerOperations' subject; here  *)
(* it only runs and succeeds or fails.                                     *)
(*                                                                         *)
(* Two threads matter: the event loop, which runs one coroutine at a time  *)
(* between awaits, and the worker.  Completion callbacks run on whichever  *)
(* thread completes or cancels a future, or on the thread that adds a      *)
(* callback to a future that is already done.  `at` is where each thread   *)
(* stands, `doing` the task or job it works for.                           *)
(*                                                                         *)
(* The executor is CPython's: a FIFO queue, a non-reentrant lock that      *)
(* submit and shutdown take, and shutdown(cancel_futures=True) cancelling  *)
(* the queued futures, callbacks included, while it holds that lock.       *)
(***************************************************************************)
EXTENDS Naturals, Sequences, FiniteSets

CONSTANTS
    Requests,      \* request tasks, each of which submits one operation
    Closers,       \* tasks that call close()
    EarlyCallers,  \* TRUE if tasks may call before start() has returned
    NoOne          \* a thread with nothing to do, a lock nobody holds

ASSUME TasksAssumption ==
    /\ EarlyCallers \in BOOLEAN
    /\ Requests \cap Closers = {}
    /\ {"start", "close"} \cap (Requests \cup Closers) = {}
    /\ NoOne \notin Requests \cup Closers \cup {"start", "close", "loop", "worker"}

Jobs == Requests \cup {"start", "close"}
Tasks == Requests \cup Closers \cup {"start"}
Threads == {"loop", "worker"}

VARIABLES
    shell,          \* _shell is not None
    closed,         \* _closed
    closing,        \* _closing
    closeQueued,    \* _close_future is not None
    queue,          \* the executor's work queue
    future,         \* the state of each job's future
    startCallback,  \* _finish_cancelled_start is registered on start's future
    closeCallback,  \* _finish_close is registered on close's future
    down,           \* the executor has been shut down
    executorLock,   \* the executor's _shutdown_lock: its holder
    lifecycleLock,  \* _lifecycle_lock: its holder
    at,             \* where each thread stands
    doing,          \* the task or job each thread is working for
    task            \* the state of each coroutine

vars == <<shell, closed, closing, closeQueued, queue, future, startCallback,
          closeCallback, down, executorLock, lifecycleLock, at, doing, task>>

flags == <<closed, closing, closeQueued>>
executor == <<queue, future, startCallback, closeCallback, down>>
locks == <<executorLock, lifecycleLock>>

Done(j) == future[j] \in {"ok", "error", "cancelled"}

Init ==
    /\ shell = FALSE
    /\ closed = FALSE /\ closing = FALSE /\ closeQueued = FALSE
    /\ queue = <<>>
    /\ future = [j \in Jobs |-> "none"]
    /\ startCallback = FALSE /\ closeCallback = FALSE
    /\ down = FALSE
    /\ executorLock = NoOne /\ lifecycleLock = NoOne
    /\ at = [th \in Threads |-> "free"]
    /\ doing = [th \in Threads |-> NoOne]
    /\ task = [t \in Tasks |-> "new"]

Goto(th, place) == at' = [at EXCEPT ![th] = place]

Enter(th, place, what) ==
    /\ Goto(th, place)
    /\ doing' = [doing EXCEPT ![th] = what]

Resume(t, state) == task' = [task EXCEPT ![t] = state]

LoopFree == at["loop"] = "free"

\* The loop ends the call it was making for task t.
LoopReturns(t, state) ==
    /\ Enter("loop", "free", NoOne)
    /\ Resume(t, state)

(***************************************************************************)
(* start(), close() and _submit() as their callers see them.  The flags    *)
(* are read in one step and the executor is entered in the next: the       *)
(* worker may close the runtime in between.                                *)
(***************************************************************************)
Open(t) == t = "start" \/ EarlyCallers \/ task["start"] = "returned"

Submits == Requests \cup {"start"}

CallSubmit(t) ==
    /\ LoopFree /\ task[t] = "new" /\ Open(t)
    /\ IF closed \/ closing
       THEN Resume(t, "refused") /\ UNCHANGED <<at, doing>>
       ELSE Enter("loop", "submit", t) /\ UNCHANGED task
    /\ UNCHANGED <<shell, flags, executor, locks>>

\* executor.submit: raises once the executor is shut down.
Submit ==
    LET t == doing["loop"]
    IN /\ at["loop"] = "submit"
       /\ executorLock = NoOne
       /\ IF down
          THEN LoopReturns(t, "refused") /\ UNCHANGED <<queue, future>>
          ELSE /\ queue' = Append(queue, t)
               /\ future' = [future EXCEPT ![t] = "pending"]
               /\ LoopReturns(t, "await")
       /\ UNCHANGED <<shell, flags, startCallback, closeCallback, down, locks>>

\* A mutation: the future's state is taken for the task's.
RequestReturnsRaw(r) ==
    /\ LoopFree /\ task[r] = "await" /\ Done(r)
    /\ Resume(r, future[r])
    /\ UNCHANGED <<shell, flags, executor, locks, at, doing>>

\* The await of a request ends with its future; a shut-down executor has
\* cancelled the future.
RequestReturns(r) ==
    /\ LoopFree /\ task[r] = "await" /\ Done(r)
    /\ Resume(r, CASE future[r] = "ok"    -> "returned"
                   [] future[r] = "error" -> "raised"
                   [] OTHER               -> "cancelled")
    /\ UNCHANGED <<shell, flags, executor, locks, at, doing>>

\* Cancelling the awaiting task reaches the future one loop iteration later:
\* a future the worker has not taken yet is cancelled, a running one goes on.
CancelRequest(r) ==
    /\ LoopFree /\ task[r] = "await"
    /\ Resume(r, "cancelling")
    /\ UNCHANGED <<shell, flags, executor, locks, at, doing>>

CancelPropagates(r) ==
    /\ LoopFree /\ task[r] = "cancelling"
    /\ Resume(r, "cancelled")
    /\ future' = [future EXCEPT ![r] = IF @ = "pending" THEN "cancelled" ELSE @]
    /\ UNCHANGED <<shell, flags, queue, startCallback, closeCallback, down, locks,
                   at, doing>>

StartReturns ==
    /\ LoopFree /\ task["start"] = "await" /\ future["start"] = "ok"
    /\ Resume("start", "returned")
    /\ UNCHANGED <<shell, flags, executor, locks, at, doing>>

\* `except BaseException`: the loop itself shuts the executor down.
StartFails ==
    /\ LoopFree /\ task["start"] = "await" /\ future["start"] = "error"
    /\ closed' = TRUE
    /\ Enter("loop", "acquire", "start")
    /\ Resume("start", "failing")
    /\ UNCHANGED <<shell, closing, closeQueued, executor, locks>>

\* A mutation: nothing is left to be done once start has finished.
CancelStartForgets ==
    /\ LoopFree /\ task["start"] = "await"
    /\ closing' = TRUE
    /\ Resume("start", "cancelled")
    /\ UNCHANGED <<shell, closed, closeQueued, executor, locks, at, doing>>

\* A mutation: close is queued at once, behind the start that is running.
CancelStartQueuesClose ==
    /\ LoopFree /\ task["start"] = "await"
    /\ closing' = TRUE
    /\ startCallback' = TRUE
    /\ Enter("loop", "queueClose", "start")
    /\ Resume("start", "cancelling")
    /\ UNCHANGED <<shell, closed, closeQueued, queue, future, closeCallback, down, locks>>

\* `except CancelledError`: the shielded job goes on; the callback is added,
\* and runs at once on the loop if start's future is done already.
CancelStart ==
    /\ LoopFree /\ task["start"] = "await"
    /\ closing' = TRUE
    /\ IF Done("start")
       THEN /\ Enter("loop", "finishCancelledStart", "start")
            /\ Resume("start", "cancelling")
            /\ UNCHANGED startCallback
       ELSE /\ startCallback' = TRUE
            /\ Resume("start", "cancelled")
            /\ UNCHANGED <<at, doing>>
    /\ UNCHANGED <<shell, closed, closeQueued, queue, future, closeCallback, down, locks>>

\* close's future calls _finish_close first and wakes the awaiting tasks then;
\* a task that finds the future done already does not wait for that.
AwaitClose == IF Done("close") THEN "settled" ELSE "await"

CloseAnnounced == closeCallback => down /\ executorLock = NoOne

CallClose(c) ==
    /\ LoopFree /\ task[c] = "new" /\ Open(c)
    /\ IF closed THEN Resume(c, "returned") /\ UNCHANGED <<at, doing>>
       ELSE IF closeQueued THEN Resume(c, AwaitClose) /\ UNCHANGED <<at, doing>>
       ELSE Enter("loop", "queueClose", c) /\ UNCHANGED task
    /\ UNCHANGED <<shell, flags, executor, locks>>

CloseReturns(c) ==
    /\ LoopFree
    /\ \/ task[c] = "settled"
       \/ task[c] = "await" /\ Done("close") /\ CloseAnnounced
    /\ Resume(c, IF future["close"] = "ok" THEN "returned" ELSE "raised")
    /\ UNCHANGED <<shell, flags, executor, locks, at, doing>>

\* The future is shielded: a cancelled close() leaves the job alone.
CancelClose(c) ==
    /\ LoopFree /\ task[c] \in {"await", "settled"}
    /\ Resume(c, "cancelled")
    /\ UNCHANGED <<shell, flags, executor, locks, at, doing>>

(***************************************************************************)
(* What both threads run.  A thread that has finished returns to where it  *)
(* was called from: the worker to its loop, the event loop to the task,    *)
(* and _finish_close inside _queue_close to the end of the locked block.   *)
(***************************************************************************)
Outcome(t) == CASE task[t] = "failing"    -> "failed"
                [] task[t] = "cancelling" -> "cancelled"
                [] OTHER                  -> AwaitClose

Return(th) ==
    IF th = "worker"
    THEN Enter("worker", "free", NoOne) /\ UNCHANGED task
    ELSE LoopReturns(doing["loop"], Outcome(doing["loop"]))

\* A mutation: a start that succeeded after all is not distinguished.
FinishCancelledStartAlike(th) ==
    /\ at[th] = "finishCancelledStart"
    /\ Goto(th, "acquire") /\ closed' = TRUE
    /\ UNCHANGED <<shell, closing, closeQueued, executor, locks, doing, task>>

FinishCancelledStart(th) ==
    /\ at[th] = "finishCancelledStart"
    /\ IF future["start"] = "ok" /\ shell
       THEN Goto(th, "queueClose") /\ UNCHANGED closed
       ELSE Goto(th, "acquire") /\ closed' = TRUE
    /\ UNCHANGED <<shell, closing, closeQueued, executor, locks, doing, task>>

\* A mutation: _queue_close does not take _lifecycle_lock.
QueueCloseUnlocked(th) ==
    /\ at[th] = "queueClose"
    /\ IF closeQueued
       THEN Return(th) /\ UNCHANGED closing
       ELSE /\ closing' = TRUE
            /\ Goto(th, "submitClose")
            /\ UNCHANGED <<doing, task>>
    /\ UNCHANGED <<shell, closed, closeQueued, executor, locks>>

\* _queue_close, under _lifecycle_lock.
QueueClose(th) ==
    /\ at[th] = "queueClose"
    /\ lifecycleLock = NoOne
    /\ IF closeQueued
       THEN Return(th) /\ UNCHANGED <<closing, lifecycleLock>>
       ELSE /\ lifecycleLock' = th
            /\ closing' = TRUE
            /\ Goto(th, "submitClose")
            /\ UNCHANGED <<doing, task>>
    /\ UNCHANGED <<shell, closed, closeQueued, executor, executorLock>>

\* A mutation: close overtakes the operations that wait.
SubmitCloseFirst(th) ==
    /\ at[th] = "submitClose"
    /\ executorLock = NoOne
    /\ ~down
    /\ queue' = <<"close">> \o queue
    /\ future' = [future EXCEPT !["close"] = "pending"]
    /\ Goto(th, "registerClose")
    /\ UNCHANGED <<shell, flags, startCallback, closeCallback, down, locks, doing, task>>

SubmitClose(th) ==
    /\ at[th] = "submitClose"
    /\ executorLock = NoOne
    /\ IF down
       THEN \* RuntimeError: raised by close(), swallowed in a callback
            /\ lifecycleLock' = NoOne
            /\ IF th = "loop" /\ doing["loop"] \in Closers
               THEN LoopReturns(doing["loop"], "raised")
               ELSE Return(th)
            /\ UNCHANGED <<queue, future>>
       ELSE /\ queue' = Append(queue, "close")
            /\ future' = [future EXCEPT !["close"] = "pending"]
            /\ Goto(th, "registerClose")
            /\ UNCHANGED <<lifecycleLock, doing, task>>
    /\ UNCHANGED <<shell, flags, startCallback, closeCallback, down, executorLock>>

\* A mutation: nobody is told when close has run.
RegisterCloseSilently(th) ==
    /\ at[th] = "registerClose"
    /\ closeQueued' = TRUE
    /\ Goto(th, "releaseLifecycle")
    /\ UNCHANGED <<shell, closed, closing, executor, locks, doing, task>>

RegisterClose(th) ==
    /\ at[th] = "registerClose"
    /\ closeQueued' = TRUE
    /\ IF Done("close")
       THEN Goto(th, "finishClose") /\ UNCHANGED closeCallback
       ELSE Goto(th, "releaseLifecycle") /\ closeCallback' = TRUE
    /\ UNCHANGED <<shell, closed, closing, queue, future, startCallback, down, locks,
                   doing, task>>

ReleaseLifecycle(th) ==
    /\ at[th] = "releaseLifecycle"
    /\ lifecycleLock' = NoOne
    /\ Return(th)
    /\ UNCHANGED <<shell, flags, executor, executorLock>>

FinishClose(th) ==
    /\ at[th] = "finishClose"
    /\ closed' = TRUE
    /\ Goto(th, "acquire")
    /\ UNCHANGED <<shell, closing, closeQueued, executor, locks, doing, task>>

(***************************************************************************)
(* executor.shutdown(wait=False, cancel_futures=True).                     *)
(***************************************************************************)
AcquireShutdown(th) ==
    /\ at[th] = "acquire"
    /\ executorLock = NoOne
    /\ executorLock' = th
    /\ down' = TRUE
    /\ Goto(th, "drain")
    /\ UNCHANGED <<shell, flags, queue, future, startCallback, closeCallback,
                   lifecycleLock, doing, task>>

\* One queued future is cancelled.  Cancelling close's future runs
\* _finish_close on the spot, inside the lock that shutdown holds.
DrainOne(th) ==
    /\ at[th] = "drain" /\ queue # <<>>
    /\ LET j == Head(queue)
       IN /\ queue' = Tail(queue)
          /\ future' = [future EXCEPT ![j] = IF @ = "pending" THEN "cancelled" ELSE @]
          /\ IF future[j] = "pending" /\ j = "close" /\ closeCallback
             THEN Goto(th, "finishClose")
             ELSE UNCHANGED at
    /\ UNCHANGED <<shell, flags, startCallback, closeCallback, down, locks, doing, task>>

ReleaseShutdown(th) ==
    /\ at[th] = "drain" /\ queue = <<>>
    /\ executorLock' = NoOne
    /\ IF lifecycleLock = th
       THEN Goto(th, "releaseLifecycle") /\ UNCHANGED <<doing, task>>
       ELSE Return(th)
    /\ UNCHANGED <<shell, flags, executor, lifecycleLock>>

(***************************************************************************)
(* The worker.                                                             *)
(***************************************************************************)
WorkerTakes ==
    /\ at["worker"] = "free" /\ queue # <<>>
    /\ LET j == Head(queue)
       IN /\ queue' = Tail(queue)
          /\ IF future[j] = "pending"
             THEN /\ future' = [future EXCEPT ![j] = "running"]
                  /\ Enter("worker", "run", j)
             ELSE UNCHANGED <<future, at, doing>>
    /\ UNCHANGED <<shell, flags, startCallback, closeCallback, down, locks, task>>

\* The future is settled and its callbacks, if any are registered, follow.
Settle(j, outcome) ==
    /\ future' = [future EXCEPT ![j] = outcome]
    /\ IF j = "start" /\ startCallback THEN Goto("worker", "finishCancelledStart") /\ UNCHANGED doing
       ELSE IF j = "close" /\ closeCallback THEN Goto("worker", "finishClose") /\ UNCHANGED doing
       ELSE Enter("worker", "free", NoOne)

Running(j) == at["worker"] = "run" /\ doing["worker"] = j

\* _start_in_process: a failed startup leaves no shell.
RunStart(ok) ==
    /\ Running("start")
    /\ shell' = ok
    /\ Settle("start", IF ok THEN "ok" ELSE "error")
    /\ UNCHANGED <<flags, queue, startCallback, closeCallback, down, locks, task>>

\* A mutation: the exception of an operation is not passed on.
RunRequestSwallows(r, ok) ==
    /\ Running(r)
    /\ ok => shell
    /\ IF ok THEN Settle(r, "ok") ELSE Enter("worker", "free", NoOne) /\ UNCHANGED future
    /\ UNCHANGED <<shell, flags, queue, startCallback, closeCallback, down, locks, task>>

\* A request fails on its own account, or because there is no shell.
RunRequest(r, ok) ==
    /\ Running(r)
    /\ ok => shell
    /\ Settle(r, IF ok THEN "ok" ELSE "error")
    /\ UNCHANGED <<shell, flags, queue, startCallback, closeCallback, down, locks, task>>

RunClose ==
    /\ Running("close")
    /\ shell' = FALSE
    /\ Settle("close", "ok")
    /\ UNCHANGED <<flags, queue, startCallback, closeCallback, down, locks, task>>

\* The sentinel that shutdown leaves in the queue ends the thread.
WorkerExits ==
    /\ at["worker"] = "free" /\ down /\ queue = <<>> /\ executorLock = NoOne
    /\ Goto("worker", "exited")
    /\ UNCHANGED <<shell, flags, executor, locks, doing, task>>

Callers ==
    \/ \E t \in Submits : CallSubmit(t)
    \/ \E c \in Closers : CallClose(c)

Cancellations ==
    \/ CancelStart
    \/ \E r \in Requests : CancelRequest(r)
    \/ \E c \in Closers : CancelClose(c)

Deliveries ==
    \/ StartReturns \/ StartFails
    \/ \E r \in Requests : RequestReturns(r) \/ CancelPropagates(r)
    \/ \E c \in Closers : CloseReturns(c)

\* The synchronous code a thread is in the middle of.
Continue(th) ==
    \/ FinishCancelledStart(th)
    \/ QueueClose(th) \/ SubmitClose(th) \/ RegisterClose(th) \/ ReleaseLifecycle(th)
    \/ FinishClose(th)
    \/ AcquireShutdown(th) \/ DrainOne(th) \/ ReleaseShutdown(th)

Worker ==
    \/ WorkerTakes \/ WorkerExits \/ RunClose
    \/ \E ok \in BOOLEAN : RunStart(ok)
    \/ \E ok \in BOOLEAN, r \in Requests : RunRequest(r, ok)

Next ==
    \/ Callers \/ Cancellations \/ Deliveries \/ Submit
    \/ \E th \in Threads : Continue(th)
    \/ Worker

Spec == Init /\ [][Next]_vars
\* User code, imports and uv are assumed to end, so the worker goes on; the
\* event loop delivers what is done and finishes what it is in the middle of.
\* Nobody has to call or to cancel.
Fairness ==
    /\ WF_vars(Worker) /\ WF_vars(Deliveries) /\ WF_vars(Submit)
    /\ \A th \in Threads : WF_vars(Continue(th))

FairSpec == Spec /\ Fairness

(***************************************************************************)
(* Properties.                                                             *)
(***************************************************************************)

\* Every variable holds a value of its kind: type invariant of the runtime.
RuntimeTypeOK ==
    /\ {shell, closed, closing, closeQueued, startCallback, closeCallback, down}
           \subseteq BOOLEAN
    /\ queue \in Seq(Jobs)
    /\ future \in [Jobs -> {"none", "pending", "running", "ok", "error", "cancelled"}]
    /\ executorLock \in Threads \cup {NoOne} /\ lifecycleLock \in Threads \cup {NoOne}
    /\ at \in [Threads -> {"free", "submit", "run", "finishCancelledStart", "queueClose",
                           "submitClose", "registerClose", "releaseLifecycle",
                           "finishClose", "acquire", "drain", "exited"}]
    /\ doing \in [Threads -> Jobs \cup Tasks \cup {NoOne}]
    /\ task \in [Tasks -> {"new", "refused", "await", "settled", "cancelling", "cancelled",
                           "failing", "failed", "returned", "raised"}]

\* `closed` promises a completed teardown: once it reads TRUE the shell is
\* gone, even when start was cancelled after it had built one.
ClosedMeansTornDown == closed => ~shell

\* close() called twice, or by a task while the callback of a cancelled start
\* queues it too, puts one close job in the queue, and none while the worker runs
\* one or somebody acts on its end: _lifecycle_lock covers the test, the submission
\* and the assignment.
CloseQueuedOnce ==
    \A i \in DOMAIN queue : queue[i] = "close" =>
        /\ \A k \in DOMAIN queue : queue[k] = "close" => k = i
        /\ future["close"] = "pending"
        /\ ~Running("close") /\ \A th \in Threads : at[th] # "finishClose"

\* No thread waits for the executor's lock while it holds it.
NoSelfDeadlock == \A th \in Threads : at[th] = "acquire" => executorLock # th

\* A close() in progress tears the runtime down, even if it is cancelled
\* (test_canceled_close_does_not_block_event_loop_and_finishes_after_owner_work).
CloseTearsDown ==
    \A c \in Closers : task[c] \in {"await", "settled"} ~> closed /\ at["worker"] = "exited"

\* "Queue teardown as a completion callback so repeated cancellation cannot
\* strand the executor" (the comment in start): after a cancelled start the
\* worker thread ends.
CancelledStartReleasesExecutor ==
    task["start"] = "cancelled" ~> closed /\ at["worker"] = "exited"

\* Every request that was accepted is answered: it returns, raises or is
\* cancelled, also when the runtime is closed under it.
RequestsResolve ==
    \A r \in Requests :
        task[r] \in {"await", "cancelling"} ~> task[r] \in {"returned", "raised", "cancelled"}

=============================================================================
