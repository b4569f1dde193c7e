------------------------- MODULE ShellRuntimeProofs -------------------------
(***************************************************************************)
(* What holds for any number of requests and callers of close.             *)
(*                                                                         *)
(* First ClosedMeansTornDown and the invariants beside it, with the        *)
(* server's discipline or without.  `closed` is set in three places, on    *)
(* either thread, and start may be running, waiting or cancelled at the    *)
(* time.  The argument: whoever sets it knows that start is over           *)
(* (StartOver), which is stable, and nothing but start makes a shell.  For *)
(* the close job this is the order of the queue: it never stands before a  *)
(* start that has yet to run.                                              *)
(*                                                                         *)
(* Then, with the server's discipline, the step part of the refinement of  *)
(* SerialOwner.                                                            *)
(***************************************************************************)
EXTENDS SerialOwnerRefinement, TLAPS

\* start has ended, or will be refused.
StartOver == Done("start") \/ (future["start"] = "none" /\ closing)

\* The calls in progress: a task inside submit is new, and is start only as
\* long as the runtime is not closing; what the worker runs is what is running.
CallInv ==
    /\ at["loop"] \notin {"run", "exited"} /\ at["worker"] # "submit"
    /\ at["loop"] = "submit" => doing["loop"] \in Submits /\ task[doing["loop"]] = "new"
    /\ at["loop"] = "submit" /\ doing["loop"] = "start" => ~closing /\ ~closed
    /\ \A t \in Submits : task[t] = "new" => future[t] = "none"
    /\ at["worker"] = "run" => doing["worker"] \in Jobs /\ future[doing["worker"]] = "running"
    /\ \A j \in Jobs : future[j] = "running" => at["worker"] = "run" /\ doing["worker"] = j

\* _lifecycle_lock: one thread at a time is between the test of _close_future
\* and its assignment, and it is the first to submit close.
LockInv ==
    /\ \A th \in Threads :
         /\ at[th] \in {"submitClose", "registerClose", "releaseLifecycle"} => lifecycleLock = th
         /\ at[th] = "submitClose" => future["close"] = "none"
         /\ at[th] \in {"submitClose", "registerClose"} => closing
    /\ future["close"] # "none" =>
         /\ closing
         /\ closeQueued \/ \E th \in Threads : at[th] = "registerClose"
    /\ at["worker"] \in {"queueClose", "submitClose", "registerClose"} => Done("start")

\* The order of the queue.
QueueInv ==
    /\ future["start"] = "pending" => \E k \in 1 .. Len(queue) : queue[k] = "start"
    /\ \A k \in 1 .. Len(queue) : queue[k] = "start" => future["start"] # "none"
    /\ \A i \in 1 .. Len(queue) : queue[i] = "close" =>
           StartOver \/ future["start"] = "running" \/ \E k \in 1 .. i - 1 : queue[k] = "start"

\* What each place on the way to `closed` knows.
ClosedInv ==
    /\ closed => ~shell /\ StartOver
    /\ future["start"] # "ok" => ~shell
    /\ down => closed
    /\ future["close"] # "error"
    /\ future["close"] = "cancelled" => closed
    /\ future["close"] \in {"running", "ok"} => StartOver
    /\ future["close"] = "ok" => ~shell
    /\ \A th \in Threads :
         /\ at[th] = "finishCancelledStart" => Done("start")
         /\ at[th] = "finishClose" => future["close"] \in {"ok", "cancelled"}
         /\ at[th] \in {"acquire", "drain"} => closed

FutureStates == {"none", "pending", "running", "ok", "error", "cancelled"}
Places == {"free", "submit", "run", "finishCancelledStart", "queueClose", "submitClose",
           "registerClose", "releaseLifecycle", "finishClose", "acquire", "drain", "exited"}
TaskStates == {"new", "refused", "await", "settled", "cancelling", "cancelled", "failing",
               "failed", "returned", "raised"}

\* RuntimeTypeOK, with a conjunct for each flag.
TypeInv ==
    /\ shell \in BOOLEAN /\ closed \in BOOLEAN /\ closing \in BOOLEAN
    /\ closeQueued \in BOOLEAN /\ startCallback \in BOOLEAN
    /\ closeCallback \in BOOLEAN /\ down \in BOOLEAN
    /\ queue \in Seq(Jobs)
    /\ future \in [Jobs -> FutureStates]
    /\ executorLock \in Threads \cup {NoOne} /\ lifecycleLock \in Threads \cup {NoOne}
    /\ at \in [Threads -> Places]
    /\ doing \in [Threads -> Jobs \cup Tasks \cup {NoOne}]
    /\ task \in [Tasks -> TaskStates]

LEMMA TypeInvSuffices == TypeInv => RuntimeTypeOK
  BY DEF TypeInv, RuntimeTypeOK, FutureStates, Places, TaskStates

RuntimeInv == TypeInv /\ CallInv /\ LockInv /\ QueueInv /\ ClosedInv

LEMMA RuntimeInit == Init => RuntimeInv
<1> SUFFICES ASSUME Init PROVE RuntimeInv
  OBVIOUS
<1> USE TasksAssumption
<1>1. TypeInv
  <2>1. queue \in Seq(Jobs) /\ executorLock = NoOne /\ lifecycleLock = NoOne
    BY DEF Init
  <2>2. future \in [Jobs -> FutureStates] /\ at \in [Threads -> Places]
    BY DEF Init, FutureStates, Places
  <2>3. task \in [Tasks -> TaskStates]
    BY DEF Init, TaskStates
  <2>4. doing \in [Threads -> Jobs \cup Tasks \cup {NoOne}]
    BY DEF Init
  <2>5. /\ shell \in BOOLEAN /\ closed \in BOOLEAN /\ closing \in BOOLEAN
        /\ closeQueued \in BOOLEAN /\ startCallback \in BOOLEAN
        /\ closeCallback \in BOOLEAN /\ down \in BOOLEAN
    BY DEF Init
  <2> QED
    BY <2>1, <2>2, <2>3, <2>4, <2>5 DEF TypeInv
<1>2. CallInv
  BY DEF Init, CallInv, Jobs, Submits, Tasks, Threads
<1>3. LockInv
  BY DEF Init, LockInv, Jobs, Threads
<1>4. QueueInv
  BY DEF Init, QueueInv, Jobs
<1>5. ClosedInv
  BY DEF Init, ClosedInv, Jobs, Threads
<1> QED
  BY <1>1, <1>2, <1>3, <1>4, <1>5 DEF RuntimeInv

\* Steps that only move a coroutine that has long begun.
Quiet ==
    /\ UNCHANGED <<shell, flags, executor, locks, at, doing>>
    /\ task' \in [Tasks -> TaskStates]
    /\ \A t \in Tasks : task'[t] = "new" => task[t] = "new"
    /\ at["loop"] = "submit" => task' = task
    /\ \/ task'["start"] = task["start"]
       \/ LoopFree /\ task["start"] = "await" /\ future["start"] = "ok"

LEMMA QuietSteps ==
  ASSUME RuntimeInv,
         \/ StartReturns \/ UNCHANGED vars
         \/ \E r \in Requests : RequestReturns(r) \/ CancelRequest(r)
         \/ \E c \in Closers : CloseReturns(c) \/ CancelClose(c)
  PROVE  Quiet
<1> USE TasksAssumption DEF RuntimeInv, TypeInv, Quiet, Resume, LoopFree, Tasks, TaskStates
<1>1. CASE StartReturns
  BY <1>1 DEF StartReturns
<1>2. ASSUME NEW r \in Requests, RequestReturns(r) PROVE Quiet
  BY <1>2 DEF RequestReturns, Done
<1>3. ASSUME NEW r \in Requests, CancelRequest(r) PROVE Quiet
  BY <1>3 DEF CancelRequest
<1>4. ASSUME NEW c \in Closers, CloseReturns(c) PROVE Quiet
  BY <1>4 DEF CloseReturns
<1>5. ASSUME NEW c \in Closers, CancelClose(c) PROVE Quiet
  BY <1>5 DEF CancelClose
<1>6. CASE UNCHANGED vars
  BY <1>6 DEF vars, flags, executor, locks
<1> QED
  BY <1>1, <1>2, <1>3, <1>4, <1>5, <1>6

\* Where a step leaves the two threads and the coroutines.
Moved ==
    /\ at' \in [Threads -> Places]
    /\ doing' \in [Threads -> Jobs \cup Tasks \cup {NoOne}]
    /\ task' \in [Tasks -> TaskStates]

LEMMA GotoMoves ==
  ASSUME TypeInv, NEW th \in Threads, NEW place \in Places, Goto(th, place),
         UNCHANGED <<doing, task>>
  PROVE  Moved
  BY DEF TypeInv, Moved, Goto

LEMMA EnterMoves ==
  ASSUME TypeInv, NEW th \in Threads, NEW place \in Places,
         NEW what \in Jobs \cup Tasks \cup {NoOne}, Enter(th, place, what),
         task' \in [Tasks -> TaskStates]
  PROVE  Moved
  BY DEF TypeInv, Moved, Enter, Goto

LEMMA LoopReturnMoves ==
  ASSUME TypeInv, NEW t, NEW state \in TaskStates, LoopReturns(t, state)
  PROVE  Moved
<1>1. task' \in [Tasks -> TaskStates]
  BY DEF TypeInv, LoopReturns, Resume
<1>2. "loop" \in Threads /\ "free" \in Places
  BY DEF Threads, Places
<1> QED
  BY <1>1, <1>2, EnterMoves DEF LoopReturns

LEMMA ReturnMoves ==
  ASSUME TypeInv, NEW th \in Threads, Return(th)
  PROVE  Moved
<1>1. Outcome(doing["loop"]) \in TaskStates
  BY DEF Outcome, AwaitClose, TaskStates
<1>2. "worker" \in Threads /\ "free" \in Places
  BY DEF Threads, Places
<1>3. CASE th = "worker"
  BY <1>2, <1>3, EnterMoves DEF Return, TypeInv
<1>4. CASE th # "worker"
  BY <1>1, <1>4, LoopReturnMoves DEF Return
<1> QED
  BY <1>3, <1>4

\* Sequences: a job appended at the end, and one taken from the front.
LEMMA Appended ==
  ASSUME NEW S, NEW s \in Seq(S), NEW e \in S
  PROVE  /\ Append(s, e) \in Seq(S)
         /\ Len(s) \in Nat /\ Len(Append(s, e)) = Len(s) + 1
         /\ \A i \in 1 .. Len(s) : Append(s, e)[i] = s[i]
         /\ Append(s, e)[Len(s) + 1] = e
  OBVIOUS

LEMMA Taken ==
  ASSUME NEW S, NEW s \in Seq(S), s # <<>>
  PROVE  /\ Head(s) \in S /\ Head(s) = s[1]
         /\ Tail(s) \in Seq(S)
         /\ Len(s) \in Nat \ {0} /\ Len(Tail(s)) = Len(s) - 1
         /\ \A i \in 1 .. Len(Tail(s)) : Tail(s)[i] = s[i + 1]
  OBVIOUS

LEMMA TypeStep == RuntimeInv /\ [Next]_vars => TypeInv'
<1> SUFFICES ASSUME RuntimeInv, [Next]_vars PROVE TypeInv'
  OBVIOUS
<1> USE TasksAssumption DEF RuntimeInv, TypeInv
<1>1. ASSUME Quiet PROVE TypeInv'
  BY <1>1 DEF Quiet, Jobs, Tasks, Submits, Threads, FutureStates, Places,
     TaskStates, flags, executor, locks
<1>2. ASSUME NEW t \in Submits, CallSubmit(t) PROVE TypeInv'
  BY <1>2 DEF CallSubmit, LoopFree, Enter, Goto, Resume, Jobs, Tasks, Submits,
     Threads, FutureStates, Places, TaskStates, flags, executor, locks
<1>3. ASSUME NEW c \in Closers, CallClose(c) PROVE TypeInv'
  BY <1>3 DEF CallClose, LoopFree, Enter, Goto, Resume, AwaitClose, Jobs, Tasks,
     Submits, Threads, FutureStates, Places, TaskStates, flags, executor, locks
<1>4. CASE CancelStart
  <2>1. task' \in [Tasks -> TaskStates]
    BY <1>4 DEF CancelStart, Enter, Resume, TaskStates
  <2>2. "loop" \in Threads /\ "finishCancelledStart" \in Places /\ "start" \in Tasks
    BY DEF Threads, Places, Tasks
  <2>3. Moved
    BY <1>4, <2>1, <2>2, EnterMoves DEF CancelStart, Moved
  <2> QED
    BY <1>4, <2>3 DEF CancelStart, Moved, locks
<1>5. CASE StartFails
  BY <1>5 DEF StartFails, LoopFree, Enter, Goto, Resume, Jobs, Tasks, Submits,
     Threads, FutureStates, Places, TaskStates, flags, executor, locks
<1>6. ASSUME NEW r \in Requests, CancelPropagates(r) PROVE TypeInv'
  BY <1>6 DEF CancelPropagates, LoopFree, Resume, Jobs, Tasks, Submits, Threads,
     FutureStates, Places, TaskStates, flags, executor, locks
<1>7. CASE Submit
  <2>1. Moved
    BY <1>7, LoopReturnMoves DEF Submit, TaskStates
  <2>2. doing["loop"] \in Jobs
    BY <1>7 DEF Submit, CallInv, Submits, Jobs
  <2>3. queue' \in Seq(Jobs)
    BY <1>7, <2>2, Appended DEF Submit
  <2>4. future' \in [Jobs -> FutureStates]
    BY <1>7 DEF Submit, FutureStates
  <2> QED
    BY <1>7, <2>1, <2>3, <2>4 DEF Submit, Moved, flags, locks
<1>8. ASSUME NEW th \in Threads, FinishCancelledStart(th) PROVE TypeInv'
  <2>1. Moved
    BY <1>8, GotoMoves DEF FinishCancelledStart, Places
  <2> QED
    BY <1>8, <2>1 DEF FinishCancelledStart, Moved, executor, locks
<1>9. ASSUME NEW th \in Threads, QueueClose(th) PROVE TypeInv'
  <2>1. CASE closeQueued
    <3>1. Moved
      BY <1>9, <2>1, ReturnMoves DEF QueueClose
    <3> QED
      BY <1>9, <2>1, <3>1 DEF QueueClose, Moved, executor
  <2>2. CASE ~closeQueued
    <3>1. Moved
      BY <1>9, <2>2, GotoMoves DEF QueueClose, Places
    <3> QED
      BY <1>9, <2>2, <3>1 DEF QueueClose, Moved, executor
  <2> QED
    BY <2>1, <2>2
<1>10. ASSUME NEW th \in Threads, SubmitClose(th) PROVE TypeInv'
  <2>1. CASE down
    <3>1. Moved
      BY <1>10, <2>1, ReturnMoves, LoopReturnMoves DEF SubmitClose, TaskStates
    <3> QED
      BY <1>10, <2>1, <3>1 DEF SubmitClose, Moved, flags
  <2>2. CASE ~down
    <3>1. Moved
      BY <1>10, <2>2, GotoMoves DEF SubmitClose, Places
    <3>2. "close" \in Jobs
      BY DEF Jobs
    <3>3. queue' = Append(queue, "close") /\ queue \in Seq(Jobs)
      BY <1>10, <2>2 DEF SubmitClose
    <3>5. queue' \in Seq(Jobs)
      BY <3>2, <3>3, Appended
    <3>4. future' \in [Jobs -> FutureStates]
      BY <1>10, <2>2 DEF SubmitClose, FutureStates
    <3> QED
      BY <1>10, <2>2, <3>1, <3>4, <3>5 DEF SubmitClose, Moved, flags
  <2> QED
    BY <2>1, <2>2
<1>11. ASSUME NEW th \in Threads, RegisterClose(th) PROVE TypeInv'
  <2>1. Moved
    BY <1>11, GotoMoves DEF RegisterClose, Places
  <2> QED
    BY <1>11, <2>1 DEF RegisterClose, Moved, locks
<1>12. ASSUME NEW th \in Threads, ReleaseLifecycle(th) PROVE TypeInv'
  BY <1>12 DEF ReleaseLifecycle, Return, LoopReturns, Enter, Goto, Resume,
     Outcome, AwaitClose, Jobs, Tasks, Submits, Threads, FutureStates, Places,
     TaskStates, flags, executor, locks
<1>13. ASSUME NEW th \in Threads, FinishClose(th) PROVE TypeInv'
  BY <1>13 DEF FinishClose, Goto, Jobs, Tasks, Submits, Threads, FutureStates,
     Places, TaskStates, flags, executor, locks
<1>14. ASSUME NEW th \in Threads, AcquireShutdown(th) PROVE TypeInv'
  BY <1>14 DEF AcquireShutdown, Goto, Jobs, Tasks, Submits, Threads,
     FutureStates, Places, TaskStates, flags, executor, locks
<1>15. ASSUME NEW th \in Threads, DrainOne(th) PROVE TypeInv'
  BY <1>15 DEF DrainOne, Goto, Jobs, Tasks, Submits, Threads, FutureStates,
     Places, TaskStates, flags, executor, locks
<1>16. ASSUME NEW th \in Threads, ReleaseShutdown(th) PROVE TypeInv'
  BY <1>16 DEF ReleaseShutdown, Return, LoopReturns, Enter, Goto, Resume,
     Outcome, AwaitClose, Jobs, Tasks, Submits, Threads, FutureStates, Places,
     TaskStates, flags, executor, locks
<1>17. CASE WorkerTakes
  BY <1>17 DEF WorkerTakes, Enter, Goto, Jobs, Tasks, Submits, Threads,
     FutureStates, Places, TaskStates, flags, executor, locks
<1>18. CASE WorkerExits
  BY <1>18 DEF WorkerExits, Goto, Jobs, Tasks, Submits, Threads, FutureStates,
     Places, TaskStates, flags, executor, locks
<1>19. CASE RunClose
  <2>1. "worker" \in Threads /\ {"finishClose", "finishCancelledStart", "free"} \subseteq Places
    BY DEF Threads, Places
  <2>2. Moved
    BY <1>19, <2>1, EnterMoves, GotoMoves DEF RunClose, Settle, TypeInv
  <2>3. future' \in [Jobs -> FutureStates]
    BY <1>19 DEF RunClose, Settle, FutureStates
  <2> QED
    BY <1>19, <2>2, <2>3 DEF RunClose, Moved, flags, locks
<1>20. ASSUME NEW ok \in BOOLEAN, RunStart(ok) PROVE TypeInv'
  BY <1>20 DEF RunStart, Running, Settle, Enter, Goto, Jobs, Tasks, Submits,
     Threads, FutureStates, Places, TaskStates, flags, executor, locks
<1>21. ASSUME NEW ok \in BOOLEAN, NEW r \in Requests, RunRequest(r, ok) PROVE TypeInv'
  BY <1>21 DEF RunRequest, Running, Settle, Enter, Goto, Jobs, Tasks, Submits,
     Threads, FutureStates, Places, TaskStates, flags, executor, locks
<1> QED
  BY QuietSteps, <1>1, <1>2, <1>3, <1>4, <1>5, <1>6, <1>7, <1>8, <1>9, <1>10,
     <1>11, <1>12, <1>13, <1>14, <1>15, <1>16, <1>17, <1>18, <1>19, <1>20, <1>21
     DEF Next, Callers, Cancellations, Deliveries, Continue, Worker

LEMMA CallStep == RuntimeInv /\ [Next]_vars => CallInv'
<1> SUFFICES ASSUME RuntimeInv, [Next]_vars PROVE CallInv'
  OBVIOUS
<1> USE TasksAssumption DEF RuntimeInv, TypeInv, CallInv, LockInv, ClosedInv,
   StartOver, Done, Jobs, Tasks, Submits, Threads, flags, executor, locks
<1>1. ASSUME Quiet PROVE CallInv'
  BY <1>1 DEF Quiet
<1>2. ASSUME NEW t \in Submits, CallSubmit(t) PROVE CallInv'
  BY <1>2 DEF CallSubmit, LoopFree, Enter, Goto, Resume
<1>3. ASSUME NEW c \in Closers, CallClose(c) PROVE CallInv'
  BY <1>3 DEF CallClose, LoopFree, Enter, Goto, Resume, AwaitClose
<1>4. CASE CancelStart
  BY <1>4 DEF CancelStart, LoopFree, Enter, Goto, Resume
<1>5. CASE StartFails
  BY <1>5 DEF StartFails, LoopFree, Enter, Goto, Resume
<1>6. ASSUME NEW r \in Requests, CancelPropagates(r) PROVE CallInv'
  BY <1>6 DEF CancelPropagates, LoopFree, Resume
<1>7. CASE Submit
  BY <1>7 DEF Submit, LoopReturns, Enter, Goto, Resume
<1>8. ASSUME NEW th \in Threads, FinishCancelledStart(th) PROVE CallInv'
  BY <1>8 DEF FinishCancelledStart, Goto
<1>9. ASSUME NEW th \in Threads, QueueClose(th) PROVE CallInv'
  BY <1>9 DEF QueueClose, Return, LoopReturns, Enter, Goto, Resume, Outcome,
     AwaitClose
<1>10. ASSUME NEW th \in Threads, SubmitClose(th) PROVE CallInv'
  BY <1>10 DEF SubmitClose, Return, LoopReturns, Enter, Goto, Resume, Outcome,
     AwaitClose
<1>11. ASSUME NEW th \in Threads, RegisterClose(th) PROVE CallInv'
  BY <1>11 DEF RegisterClose, Goto
<1>12. ASSUME NEW th \in Threads, ReleaseLifecycle(th) PROVE CallInv'
  BY <1>12 DEF ReleaseLifecycle, Return, LoopReturns, Enter, Goto, Resume,
     Outcome, AwaitClose
<1>13. ASSUME NEW th \in Threads, FinishClose(th) PROVE CallInv'
  BY <1>13 DEF FinishClose, Goto
<1>14. ASSUME NEW th \in Threads, AcquireShutdown(th) PROVE CallInv'
  BY <1>14 DEF AcquireShutdown, Goto
<1>15. ASSUME NEW th \in Threads, DrainOne(th) PROVE CallInv'
  BY <1>15 DEF DrainOne, Goto
<1>16. ASSUME NEW th \in Threads, ReleaseShutdown(th) PROVE CallInv'
  BY <1>16 DEF ReleaseShutdown, Return, LoopReturns, Enter, Goto, Resume,
     Outcome, AwaitClose
<1>17. CASE WorkerTakes
  BY <1>17 DEF WorkerTakes, Enter, Goto
<1>18. CASE WorkerExits
  BY <1>18 DEF WorkerExits, Goto
<1>19. CASE RunClose
  BY <1>19 DEF RunClose, Running, Settle, Enter, Goto
<1>20. ASSUME NEW ok \in BOOLEAN, RunStart(ok) PROVE CallInv'
  BY <1>20 DEF RunStart, Running, Settle, Enter, Goto
<1>21. ASSUME NEW ok \in BOOLEAN, NEW r \in Requests, RunRequest(r, ok) PROVE CallInv'
  BY <1>21 DEF RunRequest, Running, Settle, Enter, Goto
<1> QED
  BY QuietSteps, <1>1, <1>2, <1>3, <1>4, <1>5, <1>6, <1>7, <1>8, <1>9, <1>10,
     <1>11, <1>12, <1>13, <1>14, <1>15, <1>16, <1>17, <1>18, <1>19, <1>20, <1>21
     DEF Next, Callers, Cancellations, Deliveries, Continue, Worker

LEMMA LockStep == RuntimeInv /\ [Next]_vars => LockInv'
<1> SUFFICES ASSUME RuntimeInv, [Next]_vars PROVE LockInv'
  OBVIOUS
<1> USE TasksAssumption DEF RuntimeInv, TypeInv, CallInv, LockInv, Done, Jobs,
   Submits, Threads, flags, executor, locks
<1>1. ASSUME Quiet PROVE LockInv'
  BY <1>1 DEF Quiet
<1>2. ASSUME NEW t \in Submits, CallSubmit(t) PROVE LockInv'
  BY <1>2 DEF CallSubmit, LoopFree, Enter, Goto, Resume
<1>3. ASSUME NEW c \in Closers, CallClose(c) PROVE LockInv'
  BY <1>3 DEF CallClose, LoopFree, Enter, Goto, Resume, AwaitClose
<1>4. CASE CancelStart
  BY <1>4 DEF CancelStart, LoopFree, Enter, Goto, Resume
<1>5. CASE StartFails
  BY <1>5 DEF StartFails, LoopFree, Enter, Goto, Resume
<1>6. ASSUME NEW r \in Requests, CancelPropagates(r) PROVE LockInv'
  BY <1>6 DEF CancelPropagates, LoopFree, Resume
<1>7. CASE Submit
  BY <1>7 DEF Submit, LoopReturns, Enter, Goto, Resume
<1>8. ASSUME NEW th \in Threads, FinishCancelledStart(th) PROVE LockInv'
  BY <1>8 DEF FinishCancelledStart, Goto
<1>9. ASSUME NEW th \in Threads, QueueClose(th) PROVE LockInv'
  BY <1>9 DEF QueueClose, Return, LoopReturns, Enter, Goto, Resume, Outcome,
     AwaitClose
<1>10. ASSUME NEW th \in Threads, SubmitClose(th) PROVE LockInv'
  BY <1>10 DEF SubmitClose, Return, LoopReturns, Enter, Goto, Resume, Outcome,
     AwaitClose
<1>11. ASSUME NEW th \in Threads, RegisterClose(th) PROVE LockInv'
  BY <1>11 DEF RegisterClose, Goto
<1>12. ASSUME NEW th \in Threads, ReleaseLifecycle(th) PROVE LockInv'
  BY <1>12 DEF ReleaseLifecycle, Return, LoopReturns, Enter, Goto, Resume,
     Outcome, AwaitClose
<1>13. ASSUME NEW th \in Threads, FinishClose(th) PROVE LockInv'
  BY <1>13 DEF FinishClose, Goto
<1>14. ASSUME NEW th \in Threads, AcquireShutdown(th) PROVE LockInv'
  BY <1>14 DEF AcquireShutdown, Goto
<1>15. ASSUME NEW th \in Threads, DrainOne(th) PROVE LockInv'
  BY <1>15 DEF DrainOne, Goto
<1>16. ASSUME NEW th \in Threads, ReleaseShutdown(th) PROVE LockInv'
  BY <1>16 DEF ReleaseShutdown, Return, LoopReturns, Enter, Goto, Resume,
     Outcome, AwaitClose
<1>17. CASE WorkerTakes
  BY <1>17 DEF WorkerTakes, Enter, Goto
<1>18. CASE WorkerExits
  BY <1>18 DEF WorkerExits, Goto
<1>19. CASE RunClose
  BY <1>19 DEF RunClose, Running, Settle, Enter, Goto
<1>20. ASSUME NEW ok \in BOOLEAN, RunStart(ok) PROVE LockInv'
  BY <1>20 DEF RunStart, Running, Settle, Enter, Goto
<1>21. ASSUME NEW ok \in BOOLEAN, NEW r \in Requests, RunRequest(r, ok) PROVE LockInv'
  BY <1>21 DEF RunRequest, Running, Settle, Enter, Goto
<1> QED
  BY QuietSteps, <1>1, <1>2, <1>3, <1>4, <1>5, <1>6, <1>7, <1>8, <1>9, <1>10,
     <1>11, <1>12, <1>13, <1>14, <1>15, <1>16, <1>17, <1>18, <1>19, <1>20, <1>21
     DEF Next, Callers, Cancellations, Deliveries, Continue, Worker

LEMMA ClosedStep == RuntimeInv /\ [Next]_vars => ClosedInv'
<1> SUFFICES ASSUME RuntimeInv, [Next]_vars PROVE ClosedInv'
  OBVIOUS
<1> USE TasksAssumption DEF RuntimeInv, TypeInv, CallInv, LockInv, ClosedInv,
   StartOver, Done, Jobs, Threads, flags, executor, locks
<1>1. ASSUME Quiet PROVE ClosedInv'
  BY <1>1 DEF Quiet
<1>2. ASSUME NEW t \in Submits, CallSubmit(t) PROVE ClosedInv'
  BY <1>2 DEF CallSubmit, LoopFree, Enter, Goto, Resume
<1>3. ASSUME NEW c \in Closers, CallClose(c) PROVE ClosedInv'
  BY <1>3 DEF CallClose, LoopFree, Enter, Goto, Resume, AwaitClose
<1>4. CASE CancelStart
  BY <1>4 DEF CancelStart, LoopFree, Enter, Goto, Resume
<1>5. CASE StartFails
  BY <1>5 DEF StartFails, LoopFree, Enter, Goto, Resume
<1>6. ASSUME NEW r \in Requests, CancelPropagates(r) PROVE ClosedInv'
  BY <1>6 DEF CancelPropagates, LoopFree, Resume
<1>7. CASE Submit
  BY <1>7 DEF Submit, LoopReturns, Enter, Goto, Resume
<1>8. ASSUME NEW th \in Threads, FinishCancelledStart(th) PROVE ClosedInv'
  BY <1>8 DEF FinishCancelledStart, Goto
<1>9. ASSUME NEW th \in Threads, QueueClose(th) PROVE ClosedInv'
  BY <1>9 DEF QueueClose, Return, LoopReturns, Enter, Goto, Resume, Outcome,
     AwaitClose
<1>10. ASSUME NEW th \in Threads, SubmitClose(th) PROVE ClosedInv'
  BY <1>10 DEF SubmitClose, Return, LoopReturns, Enter, Goto, Resume, Outcome,
     AwaitClose
<1>11. ASSUME NEW th \in Threads, RegisterClose(th) PROVE ClosedInv'
  BY <1>11 DEF RegisterClose, Goto
<1>12. ASSUME NEW th \in Threads, ReleaseLifecycle(th) PROVE ClosedInv'
  BY <1>12 DEF ReleaseLifecycle, Return, LoopReturns, Enter, Goto, Resume,
     Outcome, AwaitClose
<1>13. ASSUME NEW th \in Threads, FinishClose(th) PROVE ClosedInv'
  BY <1>13 DEF FinishClose, Goto
<1>14. ASSUME NEW th \in Threads, AcquireShutdown(th) PROVE ClosedInv'
  BY <1>14 DEF AcquireShutdown, Goto
<1>15. ASSUME NEW th \in Threads, DrainOne(th) PROVE ClosedInv'
  BY <1>15 DEF DrainOne, Goto
<1>16. ASSUME NEW th \in Threads, ReleaseShutdown(th) PROVE ClosedInv'
  BY <1>16 DEF ReleaseShutdown, Return, LoopReturns, Enter, Goto, Resume,
     Outcome, AwaitClose
<1>17. CASE WorkerTakes
  <2>1. Len(queue) \in Nat \ {0} /\ Head(queue) = queue[1] /\ Head(queue) \in Jobs
    BY <1>17, Taken DEF WorkerTakes, TypeInv
  <2>2. Head(queue) = "close" => StartOver
    <3>1. future["start"] # "running"
      BY <1>17 DEF WorkerTakes, CallInv, Jobs
    <3>2. 1 \in 1 .. Len(queue) /\ ~ \E k \in 1 .. 1 - 1 : queue[k] = "start"
      BY <2>1
    <3> QED
      BY <2>1, <3>1, <3>2 DEF QueueInv
  <2>3. /\ UNCHANGED <<shell, closed, closing, closeQueued, down>>
        /\ \/ UNCHANGED <<future, at>>
           \/ /\ future[Head(queue)] = "pending"
              /\ future' = [future EXCEPT ![Head(queue)] = "running"]
              /\ at' = [at EXCEPT !["worker"] = "run"]
    BY <1>17 DEF WorkerTakes, Enter, Goto
  <2> QED
    BY <2>1, <2>2, <2>3
<1>18. CASE WorkerExits
  BY <1>18 DEF WorkerExits, Goto
<1>19. CASE RunClose
  BY <1>19 DEF RunClose, Running, Settle, Enter, Goto
<1>20. ASSUME NEW ok \in BOOLEAN, RunStart(ok) PROVE ClosedInv'
  BY <1>20 DEF RunStart, Running, Settle, Enter, Goto
<1>21. ASSUME NEW ok \in BOOLEAN, NEW r \in Requests, RunRequest(r, ok) PROVE ClosedInv'
  BY <1>21 DEF RunRequest, Running, Settle, Enter, Goto
<1> QED
  BY QuietSteps, <1>1, <1>2, <1>3, <1>4, <1>5, <1>6, <1>7, <1>8, <1>9, <1>10,
     <1>11, <1>12, <1>13, <1>14, <1>15, <1>16, <1>17, <1>18, <1>19, <1>20, <1>21
     DEF Next, Callers, Cancellations, Deliveries, Continue, Worker

\* What every step does to the future of start: it is submitted once, before
\* the runtime is closing, and what has ended stays ended.
Onward ==
    /\ StartOver => StartOver'
    /\ future["start"] # "none" => future'["start"] # "none"
    /\ future["start"] = "running" => future'["start"] = "running" \/ StartOver'

LEMMA StartStep ==
  ASSUME RuntimeInv, [Next]_vars
  PROVE  Onward /\ (queue' = queue =>
                        (future'["start"] = "pending" => future["start"] = "pending"))
<1> DEFINE Goal == Onward /\ (queue' = queue =>
                        (future'["start"] = "pending" => future["start"] = "pending"))
<1> USE TasksAssumption DEF RuntimeInv, Onward
<1>1. ASSUME Quiet PROVE Goal
  BY <1>1 DEF Quiet, StartOver, Done, flags, executor
<1>2. ASSUME NEW t \in Submits, CallSubmit(t) PROVE Goal
  BY <1>2 DEF CallSubmit, StartOver, Done, flags, executor
<1>3. ASSUME NEW c \in Closers, CallClose(c) PROVE Goal
  BY <1>3 DEF CallClose, StartOver, Done, flags, executor
<1>4. CASE CancelStart
  BY <1>4 DEF CancelStart, StartOver, Done, flags, executor
<1>5. CASE StartFails
  BY <1>5 DEF StartFails, StartOver, Done, flags, executor
<1>6. ASSUME NEW r \in Requests, CancelPropagates(r) PROVE Goal
  BY <1>6 DEF CancelPropagates, TypeInv, Jobs, StartOver, Done, flags, executor
<1>7. CASE Submit
  <2>1. queue' = queue \/ queue' = Append(queue, doing["loop"])
    BY <1>7 DEF Submit
  <2>2. queue' # queue \/ future' = future
    <3>1. doing["loop"] \in Jobs /\ queue \in Seq(Jobs)
      BY <1>7 DEF Submit, CallInv, Submits, Jobs, TypeInv
    <3>2. Append(queue, doing["loop"]) # queue
      BY <3>1, Appended
    <3> QED
      BY <1>7, <3>2 DEF Submit
  <2> QED
    BY <1>7, <2>2 DEF Submit, TypeInv, CallInv, StartOver, Done, Jobs, Tasks,
       Submits, flags
<1>8. ASSUME NEW th \in Threads, FinishCancelledStart(th) PROVE Goal
  BY <1>8 DEF FinishCancelledStart, StartOver, Done, flags, executor
<1>9. ASSUME NEW th \in Threads, QueueClose(th) PROVE Goal
  BY <1>9 DEF QueueClose, StartOver, Done, flags, executor
<1>10. ASSUME NEW th \in Threads, SubmitClose(th) PROVE Goal
  BY <1>10 DEF SubmitClose, TypeInv, StartOver, Done, Jobs, flags
<1>11. ASSUME NEW th \in Threads, RegisterClose(th) PROVE Goal
  BY <1>11 DEF RegisterClose, StartOver, Done, flags, executor
<1>12. ASSUME NEW th \in Threads, ReleaseLifecycle(th) PROVE Goal
  BY <1>12 DEF ReleaseLifecycle, StartOver, Done, flags, executor
<1>13. ASSUME NEW th \in Threads, FinishClose(th) PROVE Goal
  BY <1>13 DEF FinishClose, StartOver, Done, flags, executor
<1>14. ASSUME NEW th \in Threads, AcquireShutdown(th) PROVE Goal
  BY <1>14 DEF AcquireShutdown, StartOver, Done, flags, executor
<1>15. ASSUME NEW th \in Threads, DrainOne(th) PROVE Goal
  <2>1. Head(queue) \in Jobs
    BY <1>15, Taken DEF DrainOne, TypeInv
  <2> QED
    BY <1>15, <2>1 DEF DrainOne, TypeInv, StartOver, Done, Jobs, flags
<1>16. ASSUME NEW th \in Threads, ReleaseShutdown(th) PROVE Goal
  BY <1>16 DEF ReleaseShutdown, StartOver, Done, flags, executor
<1>17. CASE WorkerTakes
  <2>1. Head(queue) \in Jobs
    BY <1>17, Taken DEF WorkerTakes, TypeInv
  <2> QED
    BY <1>17, <2>1 DEF WorkerTakes, TypeInv, StartOver, Done, Jobs, flags
<1>18. CASE WorkerExits
  BY <1>18 DEF WorkerExits, StartOver, Done, flags, executor
<1>19. CASE RunClose
  BY <1>19 DEF RunClose, Running, Settle, TypeInv, CallInv, Jobs, StartOver,
     Done, flags, executor
<1>20. ASSUME NEW ok \in BOOLEAN, RunStart(ok) PROVE Goal
  BY <1>20 DEF RunStart, Running, Settle, TypeInv, CallInv, Jobs, StartOver,
     Done, flags, executor
<1>21. ASSUME NEW ok \in BOOLEAN, NEW r \in Requests, RunRequest(r, ok) PROVE Goal
  BY <1>21 DEF RunRequest, Running, Settle, TypeInv, CallInv, Jobs, StartOver,
     Done, flags, executor
<1> QED
  BY QuietSteps, <1>1, <1>2, <1>3, <1>4, <1>5, <1>6, <1>7, <1>8, <1>9, <1>10,
     <1>11, <1>12, <1>13, <1>14, <1>15, <1>16, <1>17, <1>18, <1>19, <1>20,
     <1>21
     DEF Next, Callers, Cancellations, Deliveries, Continue, Worker

\* The steps that touch the queue.
LEMMA QueueSteps ==
  ASSUME [Next]_vars
  PROVE  \/ queue' = queue \/ Submit \/ WorkerTakes
         \/ \E th \in Threads : SubmitClose(th) \/ DrainOne(th)
  BY DEF Next, vars, executor, Callers, Cancellations, Deliveries, Continue, Worker,
         CallSubmit, CallClose, CancelStart, CancelRequest, CancelClose, StartReturns,
         StartFails, RequestReturns, CancelPropagates, CloseReturns,
         FinishCancelledStart, QueueClose, RegisterClose, ReleaseLifecycle, FinishClose,
         AcquireShutdown, ReleaseShutdown, WorkerExits, RunClose, RunStart, RunRequest

LEMMA QueueStep == RuntimeInv /\ [Next]_vars => QueueInv'
<1> SUFFICES ASSUME RuntimeInv, [Next]_vars PROVE QueueInv'
  OBVIOUS
<1>1. Onward
  BY StartStep
<1>2. TypeInv /\ QueueInv /\ CallInv /\ LockInv
  BY DEF RuntimeInv
<1>3. CASE queue' = queue
  <2>1. future'["start"] = "pending" => future["start"] = "pending"
    BY <1>3, StartStep
  <2> QED
    BY <1>1, <1>2, <1>3, <2>1 DEF QueueInv, Onward
<1>4. ASSUME Submit, queue' # queue PROVE QueueInv'
  <2> DEFINE t == doing["loop"]
  <2>1. t \in Jobs /\ t # "close"
    BY <1>2, <1>4, TasksAssumption DEF Submit, CallInv, Submits, Jobs
  <2>2. queue' = Append(queue, t) /\ queue \in Seq(Jobs)
    BY <1>2, <1>4 DEF Submit, TypeInv
  <2>3. /\ Len(queue) \in Nat /\ Len(queue') = Len(queue) + 1
        /\ \A i \in 1 .. Len(queue) : queue'[i] = queue[i]
        /\ queue'[Len(queue) + 1] = t
    BY <2>1, <2>2, Appended
  <2>4. future' = [future EXCEPT ![t] = "pending"]
    BY <1>4 DEF Submit
  <2>5. t # "start" => future'["start"] = future["start"]
    BY <2>4, <1>2 DEF TypeInv
  <2>6. t = "start" => future'["start"] = "pending"
    BY <2>1, <2>4, <1>2 DEF TypeInv
  <2> HIDE DEF t
  <2>7. future'["start"] = "pending" => \E k \in 1 .. Len(queue') : queue'[k] = "start"
    BY <1>2, <2>3, <2>5 DEF QueueInv
  <2>8. ASSUME NEW k \in 1 .. Len(queue'), queue'[k] = "start"
        PROVE  future'["start"] # "none"
    BY <1>1, <1>2, <2>3, <2>6, <2>8 DEF QueueInv, Onward
  <2>9. ASSUME NEW i \in 1 .. Len(queue'), queue'[i] = "close"
        PROVE  \/ StartOver' \/ future'["start"] = "running"
               \/ \E k \in 1 .. i - 1 : queue'[k] = "start"
    <3>1. i \in 1 .. Len(queue) /\ queue[i] = "close"
      BY <2>1, <2>3, <2>9
    <3> QED
      BY <1>1, <1>2, <2>3, <3>1 DEF QueueInv, Onward
  <2> QED
    BY <2>7, <2>8, <2>9 DEF QueueInv
<1>5. ASSUME NEW th \in Threads, SubmitClose(th), queue' # queue PROVE QueueInv'
  <2>1. "close" \in Jobs
    BY DEF Jobs
  <2>2. queue' = Append(queue, "close") /\ queue \in Seq(Jobs)
    BY <1>2, <1>5 DEF SubmitClose, TypeInv
  <2>3. /\ Len(queue) \in Nat /\ Len(queue') = Len(queue) + 1
        /\ \A i \in 1 .. Len(queue) : queue'[i] = queue[i]
        /\ queue'[Len(queue) + 1] = "close"
    BY <2>1, <2>2, Appended
  <2>4. future'["start"] = future["start"] /\ future["start"] \in FutureStates
    BY <1>2, <1>5 DEF SubmitClose, TypeInv, Jobs
  <2>5. closing
    BY <1>2, <1>5 DEF SubmitClose, LockInv
  <2>6. future'["start"] = "pending" => \E k \in 1 .. Len(queue') : queue'[k] = "start"
    BY <1>2, <2>3, <2>4 DEF QueueInv
  <2>7. ASSUME NEW k \in 1 .. Len(queue'), queue'[k] = "start"
        PROVE  future'["start"] # "none"
    BY <1>2, <2>3, <2>4, <2>7 DEF QueueInv
  <2>8. ASSUME NEW i \in 1 .. Len(queue'), queue'[i] = "close"
        PROVE  \/ StartOver' \/ future'["start"] = "running"
               \/ \E k \in 1 .. i - 1 : queue'[k] = "start"
    <3>1. CASE i \in 1 .. Len(queue)
      BY <1>1, <1>2, <2>3, <2>8, <3>1 DEF QueueInv, Onward
    <3>2. CASE i = Len(queue) + 1
      <4>1. future["start"] = "pending" => \E k \in 1 .. i - 1 : queue'[k] = "start"
        BY <1>2, <2>3, <3>2 DEF QueueInv
      <4>2. StartOver \/ future["start"] \in {"pending", "running"}
        BY <2>4, <2>5 DEF FutureStates, StartOver, Done
      <4> QED
        BY <1>1, <2>4, <4>1, <4>2 DEF Onward
    <3> QED
      BY <2>3, <3>1, <3>2
  <2> QED
    BY <2>6, <2>7, <2>8 DEF QueueInv
<1>6. ASSUME WorkerTakes \/ \E th \in Threads : DrainOne(th) PROVE QueueInv'
  <2>1. queue # <<>> /\ queue' = Tail(queue) /\ queue \in Seq(Jobs)
    BY <1>2, <1>6 DEF WorkerTakes, DrainOne, TypeInv
  <2>2. /\ Head(queue) \in Jobs /\ Head(queue) = queue[1]
        /\ Len(queue) \in Nat \ {0} /\ Len(queue') = Len(queue) - 1
        /\ \A i \in 1 .. Len(queue') : queue'[i] = queue[i + 1]
    BY <2>1, Taken
  <2>3. /\ Head(queue) # "start" => future'["start"] = future["start"]
        /\ Head(queue) = "start" /\ future["start"] = "pending"
               => future'["start"] \in {"running", "cancelled"}
        /\ future["start"] # "pending" => future'["start"] = future["start"]
    BY <1>2, <1>6, <2>2 DEF WorkerTakes, DrainOne, TypeInv, Enter, Jobs
  <2>4. future'["start"] = "pending" => \E k \in 1 .. Len(queue') : queue'[k] = "start"
    <3> SUFFICES ASSUME future'["start"] = "pending"
                 PROVE  \E k \in 1 .. Len(queue') : queue'[k] = "start"
      OBVIOUS
    <3>1. future["start"] = "pending" /\ Head(queue) # "start"
      BY <2>3
    <3>2. PICK k \in 1 .. Len(queue) : queue[k] = "start"
      BY <1>2, <3>1 DEF QueueInv
    <3>3. k - 1 \in 1 .. Len(queue') /\ queue'[k - 1] = "start"
      BY <2>2, <3>1, <3>2
    <3> QED
      BY <3>3
  <2>5. ASSUME NEW k \in 1 .. Len(queue'), queue'[k] = "start"
        PROVE  future'["start"] # "none"
    <3>1. k + 1 \in 1 .. Len(queue) /\ queue[k + 1] = "start"
      BY <2>2, <2>5
    <3> QED
      BY <1>1, <1>2, <3>1 DEF QueueInv, Onward
  <2>6. ASSUME NEW i \in 1 .. Len(queue'), queue'[i] = "close"
        PROVE  \/ StartOver' \/ future'["start"] = "running"
               \/ \E k \in 1 .. i - 1 : queue'[k] = "start"
    <3>1. i + 1 \in 1 .. Len(queue) /\ queue[i + 1] = "close"
      BY <2>2, <2>6
    <3>2. CASE StartOver \/ future["start"] = "running"
      BY <1>1, <3>2 DEF Onward
    <3>3. ASSUME NEW k \in 1 .. i, queue[k] = "start"
          PROVE  \/ StartOver' \/ future'["start"] = "running"
                 \/ \E n \in 1 .. i - 1 : queue'[n] = "start"
      <4>1. CASE k = 1
        <5>1. future["start"] # "none" /\ future["start"] \in FutureStates
          BY <1>2, <2>2, <3>3, <4>1 DEF QueueInv, TypeInv, Jobs
        <5>2. CASE future["start"] = "pending"
          BY <2>2, <2>3, <3>3, <4>1, <5>2 DEF StartOver, Done
        <5>3. CASE future["start"] # "pending"
          BY <2>3, <5>1, <5>3 DEF FutureStates, StartOver, Done
        <5> QED
          BY <5>2, <5>3
      <4>2. CASE k # 1
        <5>1. k - 1 \in 1 .. i - 1 /\ queue'[k - 1] = "start"
          BY <2>2, <3>3, <4>2
        <5> QED
          BY <5>1
      <4> QED
        BY <4>1, <4>2
    <3>4. \/ StartOver \/ future["start"] = "running"
          \/ \E k \in 1 .. (i + 1) - 1 : queue[k] = "start"
      BY <1>2, <3>1 DEF QueueInv
    <3> QED
      BY <3>2, <3>3, <3>4
  <2> QED
    BY <2>4, <2>5, <2>6 DEF QueueInv
<1>7. \/ queue' = queue \/ Submit \/ WorkerTakes
      \/ \E th \in Threads : SubmitClose(th) \/ DrainOne(th)
  BY QueueSteps
<1> QED
  BY <1>3, <1>4, <1>5, <1>6, <1>7

\* The invariant of the proofs below: places, locks, the order of the queue, and
\* what each place on the way to `closed` knows.
THEOREM RuntimeInvariant == Spec => []RuntimeInv
<1>1. RuntimeInv /\ [Next]_vars => RuntimeInv'
  BY TypeStep, CallStep, LockStep, QueueStep, ClosedStep DEF RuntimeInv
<1> QED
  BY RuntimeInit, <1>1, PTL DEF Spec

\* The runtime's variables always hold values of their kind.
THEOREM RuntimeTypeCorrect == Spec => []RuntimeTypeOK
<1>1. RuntimeInv => RuntimeTypeOK
  BY TypeInvSuffices DEF RuntimeInv
<1> QED
  BY RuntimeInvariant, <1>1, PTL

\* Whichever thread sets `closed`, and whatever was cancelled before: once it
\* is set there is no shell.
THEOREM AlwaysTornDownWhenClosed == Spec => []ClosedMeansTornDown
<1>1. RuntimeInv => ClosedMeansTornDown
  BY DEF RuntimeInv, ClosedInv, ClosedMeansTornDown
<1> QED
  BY RuntimeInvariant, <1>1, PTL

\* A close that runs finds start over: the order of the queue and the lock
\* keep it from tearing down a shell that start has yet to build.
THEOREM CloseRunsAfterStart == Spec => [](future["close"] \in {"running", "ok"} => StartOver)
<1>1. RuntimeInv => (future["close"] \in {"running", "ok"} => StartOver)
  BY DEF RuntimeInv, ClosedInv
<1> QED
  BY RuntimeInvariant, <1>1, PTL

(***************************************************************************)
(* A job stands in the queue once, from its submission until the worker    *)
(* takes it or shutdown drains it.                                         *)
(***************************************************************************)

\* A future that is in the queue; only a request is cancelled while it waits.
Queued(j) == future[j] = "pending" \/ (j \in Requests /\ future[j] = "cancelled")

LineInv ==
    /\ \A i, k \in DOMAIN queue : queue[i] = queue[k] => i = k
    /\ \A i \in DOMAIN queue : Queued(queue[i])
    /\ \A j \in Jobs : future[j] = "pending" => \E i \in DOMAIN queue : queue[i] = j

\* A step that submits nothing and takes nothing may only cancel a request.
LEMMA FuturesStay ==
  ASSUME RuntimeInv, [Next]_vars, queue' = queue, NEW j \in Jobs
  PROVE  /\ Queued(j) => Queued(j)'
         /\ future'[j] = "pending" => future[j] = "pending"
         /\ future[j] = "none" => future'[j] = "none"
<1> DEFINE Goal == /\ Queued(j) => Queued(j)'
                   /\ future'[j] = "pending" => future[j] = "pending"
                   /\ future[j] = "none" => future'[j] = "none"
<1> USE TasksAssumption DEF RuntimeInv, TypeInv, CallInv, Jobs, flags, executor, Queued
<1>1. ASSUME NEW r \in Requests, CancelPropagates(r) PROVE Goal
  BY <1>1 DEF CancelPropagates
<1>2. ASSUME Submit PROVE Goal
  <2>1. doing["loop"] \in Jobs /\ queue \in Seq(Jobs)
    BY <1>2 DEF Submit, Submits
  <2>2. Append(queue, doing["loop"]) # queue
    BY <2>1, Appended
  <2> QED
    BY <1>2, <2>2 DEF Submit
<1>3. ASSUME NEW th \in Threads, SubmitClose(th) PROVE Goal
  <2>1. Append(queue, "close") # queue
    BY Appended
  <2> QED
    BY <1>3, <2>1 DEF SubmitClose
<1>4. ASSUME WorkerTakes \/ \E th \in Threads : DrainOne(th) PROVE FALSE
  <2>1. queue # <<>> /\ queue' = Tail(queue)
    BY <1>4 DEF WorkerTakes, DrainOne
  <2> QED
    BY <2>1, Taken
<1>5. CASE RunClose
  BY <1>5 DEF RunClose, Running, Settle
<1>6. ASSUME NEW ok \in BOOLEAN, RunStart(ok) PROVE Goal
  BY <1>6 DEF RunStart, Running, Settle
<1>7. ASSUME NEW ok \in BOOLEAN, NEW r \in Requests, RunRequest(r, ok) PROVE Goal
  BY <1>7 DEF RunRequest, Running, Settle
<1>8. CASE UNCHANGED future
  BY <1>8
<1> QED
  BY <1>1, <1>2, <1>3, <1>4, <1>5, <1>6, <1>7, <1>8
  DEF Next, vars, Callers, Cancellations, Deliveries, Continue, Worker, CallSubmit,
      CallClose, CancelStart, CancelRequest, CancelClose, StartReturns, StartFails,
      RequestReturns, CloseReturns, FinishCancelledStart, QueueClose, RegisterClose,
      ReleaseLifecycle, FinishClose, AcquireShutdown, ReleaseShutdown, WorkerExits

\* What a submission appends was not in the queue: its future did not exist.
LEMMA SubmissionAppends ==
  ASSUME RuntimeInv, Submit \/ \E th \in Threads : SubmitClose(th), queue' # queue
  PROVE  \E j \in Jobs : /\ future[j] = "none"
                         /\ queue' = Append(queue, j)
                         /\ future' = [future EXCEPT ![j] = "pending"]
<1> USE TasksAssumption DEF RuntimeInv, TypeInv, Jobs
<1>1. CASE Submit
  BY <1>1 DEF Submit, CallInv, Submits
<1>2. ASSUME NEW th \in Threads, SubmitClose(th) PROVE future["close"] = "none"
  BY <1>2 DEF SubmitClose, LockInv
<1> QED
  BY <1>1, <1>2 DEF SubmitClose

\* What leaves the queue is its head, and no other future changes.
LEMMA HeadLeaves ==
  ASSUME RuntimeInv, WorkerTakes \/ \E th \in Threads : DrainOne(th)
  PROVE  /\ queue # <<>> /\ queue' = Tail(queue)
         /\ Head(queue) \in Jobs /\ Head(queue) = queue[1]
         /\ Len(queue) \in Nat \ {0} /\ DOMAIN queue = 1 .. Len(queue)
         /\ Len(queue') = Len(queue) - 1 /\ DOMAIN queue' = 1 .. Len(queue) - 1
         /\ \A i \in DOMAIN queue' : queue'[i] = queue[i + 1]
         /\ \A j \in Jobs \ {Head(queue)} : future'[j] = future[j]
         /\ future'[Head(queue)] # "pending"
<1> USE DEF RuntimeInv, TypeInv
<1>1. queue # <<>> /\ queue' = Tail(queue) /\ queue \in Seq(Jobs)
  BY DEF WorkerTakes, DrainOne
<1>2. /\ Head(queue) \in Jobs /\ Head(queue) = queue[1]
      /\ Len(queue) \in Nat \ {0} /\ DOMAIN queue = 1 .. Len(queue)
      /\ Len(queue') = Len(queue) - 1 /\ DOMAIN queue' = 1 .. Len(queue) - 1
      /\ \A i \in DOMAIN queue' : queue'[i] = queue[i + 1]
  BY <1>1, Taken
<1>3. \A j \in Jobs \ {Head(queue)} : future'[j] = future[j]
  BY DEF WorkerTakes, DrainOne
<1>4. future'[Head(queue)] # "pending"
  BY <1>2 DEF WorkerTakes, DrainOne
<1> QED
  BY <1>1, <1>2, <1>3, <1>4

\* Every step keeps the line: an appended job is new, and the head that leaves
\* stood nowhere else.
LEMMA LineStep == RuntimeInv /\ LineInv /\ [Next]_vars => LineInv'
<1> SUFFICES ASSUME RuntimeInv, LineInv, [Next]_vars PROVE LineInv'
  OBVIOUS
<1>0. /\ queue \in Seq(Jobs) /\ future \in [Jobs -> FutureStates]
      /\ Len(queue) \in Nat /\ DOMAIN queue = 1 .. Len(queue)
      /\ \A i \in DOMAIN queue : queue[i] \in Jobs
  BY DEF RuntimeInv, TypeInv
<1>1. CASE queue' = queue
  <2>1. \A j \in Jobs : /\ Queued(j) => Queued(j)'
                        /\ future'[j] = "pending" => future[j] = "pending"
    BY <1>1, FuturesStay
  <2> QED
    BY <1>0, <1>1, <2>1 DEF LineInv
<1>2. ASSUME Submit \/ \E th \in Threads : SubmitClose(th), queue' # queue PROVE LineInv'
  <2>1. PICK j \in Jobs : /\ future[j] = "none"
                          /\ queue' = Append(queue, j)
                          /\ future' = [future EXCEPT ![j] = "pending"]
    BY <1>2, SubmissionAppends
  <2>2. /\ DOMAIN queue' = 1 .. Len(queue) + 1
        /\ \A i \in DOMAIN queue : queue'[i] = queue[i]
        /\ queue'[Len(queue) + 1] = j
    BY <1>0, <2>1, Appended
  <2>3. \A i \in DOMAIN queue : queue[i] # j
    BY <2>1 DEF LineInv, Queued
  <2>4. \A k \in Jobs \ {j} : future'[k] = future[k]
    BY <1>0, <2>1
  <2>5. future'[j] = "pending"
    BY <1>0, <2>1
  <2>6. \A i, k \in DOMAIN queue' : queue'[i] = queue'[k] => i = k
    BY <1>0, <2>2, <2>3 DEF LineInv
  <2>7. \A i \in DOMAIN queue' : Queued(queue[i])'
    BY <1>0, <2>2, <2>3, <2>4, <2>5 DEF LineInv, Queued
  <2>8. ASSUME NEW k \in Jobs, future'[k] = "pending"
        PROVE  \E i \in DOMAIN queue' : queue'[i] = k
    <3>1. CASE k = j
      <4>1. Len(queue) + 1 \in DOMAIN queue'
        BY <1>0, <2>2
      <4> QED
        BY <2>2, <3>1, <4>1
    <3>2. CASE k # j
      BY <1>0, <2>2, <2>4, <2>8, <3>2 DEF LineInv
    <3> QED
      BY <3>1, <3>2
  <2> QED
    BY <2>6, <2>7, <2>8 DEF LineInv
<1>3. ASSUME WorkerTakes \/ \E th \in Threads : DrainOne(th) PROVE LineInv'
  <2>1. /\ Head(queue) \in Jobs /\ Head(queue) = queue[1]
        /\ Len(queue) \in Nat \ {0}
        /\ Len(queue') = Len(queue) - 1 /\ DOMAIN queue' = 1 .. Len(queue) - 1
        /\ \A i \in DOMAIN queue' : queue'[i] = queue[i + 1]
        /\ \A j \in Jobs \ {Head(queue)} : future'[j] = future[j]
        /\ future'[Head(queue)] # "pending"
    BY <1>3, HeadLeaves
  <2>2. \A i \in DOMAIN queue' : i + 1 \in DOMAIN queue /\ i + 1 # 1 /\ 1 \in DOMAIN queue
    BY <1>0, <2>1
  <2>3. \A i \in DOMAIN queue' : queue'[i] # Head(queue) /\ queue'[i] \in Jobs
    BY <1>0, <2>1, <2>2 DEF LineInv
  <2>4. \A i, k \in DOMAIN queue' : queue'[i] = queue'[k] => i = k
    <3> SUFFICES ASSUME NEW i \in DOMAIN queue', NEW k \in DOMAIN queue',
                        queue'[i] = queue'[k]
                 PROVE  i = k
      OBVIOUS
    <3>1. i + 1 = k + 1
      BY <2>1, <2>2 DEF LineInv
    <3> QED
      BY <2>1, <3>1
  <2>5. \A i \in DOMAIN queue' : Queued(queue[i])'
    BY <2>1, <2>2, <2>3 DEF LineInv, Queued
  <2>6. ASSUME NEW j \in Jobs, future'[j] = "pending"
        PROVE  \E i \in DOMAIN queue' : queue'[i] = j
    <3>1. j # Head(queue) /\ future[j] = "pending"
      BY <2>1, <2>6
    <3>2. PICK i \in DOMAIN queue : queue[i] = j
      BY <3>1 DEF LineInv
    <3>3. i - 1 \in DOMAIN queue' /\ queue'[i - 1] = j
      BY <1>0, <2>1, <3>1, <3>2
    <3> QED
      BY <3>3
  <2> QED
    BY <2>4, <2>5, <2>6 DEF LineInv
<1> QED
  BY <1>1, <1>2, <1>3, QueueSteps

\* The line of jobs, whatever the callers' discipline.
THEOREM LineInvariant == Spec => []LineInv
<1>1. Init => LineInv
  BY DEF Init, LineInv, Jobs
<1> QED
  BY <1>1, LineStep, RuntimeInvariant, PTL DEF Spec

\* However close() and the callback of a cancelled start interleave, the queue
\* holds at most one close, whose future nobody has run or cancelled yet, and
\* none while the worker runs close or somebody finishes it.
THEOREM CloseAlwaysQueuedOnce == Spec => []CloseQueuedOnce
<1>1. RuntimeInv /\ LineInv => CloseQueuedOnce
  <2> SUFFICES ASSUME RuntimeInv, LineInv, NEW i \in DOMAIN queue, queue[i] = "close"
               PROVE  /\ \A k \in DOMAIN queue : queue[k] = "close" => k = i
                      /\ future["close"] = "pending"
                      /\ ~Running("close") /\ \A th \in Threads : at[th] # "finishClose"
    BY DEF CloseQueuedOnce
  <2>1. future["close"] = "pending"
    BY TasksAssumption DEF LineInv, Queued
  <2>2. ~Running("close")
    BY <2>1 DEF RuntimeInv, CallInv, Running
  <2>3. \A th \in Threads : at[th] # "finishClose"
    BY <2>1 DEF RuntimeInv, ClosedInv
  <2>4. QED BY <2>1, <2>2, <2>3 DEF LineInv
<1> QED
  BY <1>1, RuntimeInvariant, LineInvariant, PTL

(***************************************************************************)
(* The executor's lock is not reentrant.                                   *)
(***************************************************************************)

\* Callers that wait for start to return cannot queue close before start has
\* succeeded, so nothing is shut down while a close is queued: no callback
\* runs _finish_close inside shutdown.
Discipline ==
    /\ task["start"] = "returned" => future["start"] = "ok"
    /\ future["close"] # "none" => future["start"] = "ok"
    /\ future["close"] # "cancelled"
    /\ future["start"] = "ok" /\ ~shell => future["close"] = "ok"
    /\ executorLock # NoOne => at[executorLock] = "drain"
    /\ \A th \in Threads :
         /\ at[th] \in {"queueClose", "submitClose", "registerClose"} => future["start"] = "ok"
         /\ at[th] \in {"finishClose", "acquire", "drain"} =>
                future["start"] # "ok" \/ future["close"] = "ok"

\* Every step keeps the discipline.
LEMMA DisciplineStep ==
  ASSUME EarlyCallers = FALSE, RuntimeInv, Discipline, [Next]_vars
  PROVE  Discipline'
<1> USE TasksAssumption DEF RuntimeInv, TypeInv, CallInv, LockInv, ClosedInv,
   Discipline, StartOver, Done, Tasks, Submits, Open, Jobs, Threads, flags, executor, locks
<1>1. ASSUME Quiet PROVE Discipline'
  BY <1>1 DEF Quiet, LoopFree
<1>2. ASSUME NEW t \in Submits, CallSubmit(t) PROVE Discipline'
  BY <1>2 DEF CallSubmit, LoopFree, Enter, Goto, Resume
<1>3. ASSUME NEW c \in Closers, CallClose(c) PROVE Discipline'
  BY <1>3 DEF CallClose, LoopFree, Enter, Goto, Resume, AwaitClose
<1>4. CASE CancelStart
  BY <1>4 DEF CancelStart, LoopFree, Enter, Goto, Resume
<1>5. CASE StartFails
  BY <1>5 DEF StartFails, LoopFree, Enter, Goto, Resume
<1>6. ASSUME NEW r \in Requests, CancelPropagates(r) PROVE Discipline'
  BY <1>6 DEF CancelPropagates, LoopFree, Resume
<1>7. CASE Submit
  BY <1>7 DEF Submit, LoopReturns, Enter, Goto, Resume
<1>8. ASSUME NEW th \in Threads, FinishCancelledStart(th) PROVE Discipline'
  BY <1>8 DEF FinishCancelledStart, Goto
<1>9. ASSUME NEW th \in Threads, QueueClose(th) PROVE Discipline'
  BY <1>9 DEF QueueClose, Return, LoopReturns, Enter, Goto, Resume, Outcome,
     AwaitClose
<1>10. ASSUME NEW th \in Threads, SubmitClose(th) PROVE Discipline'
  BY <1>10 DEF SubmitClose, Return, LoopReturns, Enter, Goto, Resume, Outcome,
     AwaitClose
<1>11. ASSUME NEW th \in Threads, RegisterClose(th) PROVE Discipline'
  BY <1>11 DEF RegisterClose, Goto
<1>12. ASSUME NEW th \in Threads, ReleaseLifecycle(th) PROVE Discipline'
  BY <1>12 DEF ReleaseLifecycle, Return, LoopReturns, Enter, Goto, Resume,
     Outcome, AwaitClose
<1>13. ASSUME NEW th \in Threads, FinishClose(th) PROVE Discipline'
  BY <1>13 DEF FinishClose, Goto
<1>14. ASSUME NEW th \in Threads, AcquireShutdown(th) PROVE Discipline'
  BY <1>14 DEF AcquireShutdown, Goto
<1>15. ASSUME NEW th \in Threads, DrainOne(th) PROVE Discipline'
  BY <1>15 DEF DrainOne, Goto
<1>16. ASSUME NEW th \in Threads, ReleaseShutdown(th) PROVE Discipline'
  BY <1>16 DEF ReleaseShutdown, Return, LoopReturns, Enter, Goto, Resume,
     Outcome, AwaitClose
<1>17. CASE WorkerTakes
  <2>1. Head(queue) \in Jobs
    BY <1>17, Taken DEF WorkerTakes
  <2> QED
    BY <1>17, <2>1 DEF WorkerTakes, Enter, Goto
<1>18. CASE WorkerExits
  BY <1>18 DEF WorkerExits, Goto
<1>19. CASE RunClose
  BY <1>19 DEF RunClose, Running, Settle, Enter, Goto
<1>20. ASSUME NEW ok \in BOOLEAN, RunStart(ok) PROVE Discipline'
  BY <1>20 DEF RunStart, Running, Settle, Enter, Goto
<1>21. ASSUME NEW ok \in BOOLEAN, NEW r \in Requests, RunRequest(r, ok) PROVE Discipline'
  BY <1>21 DEF RunRequest, Running, Settle, Enter, Goto
<1> QED
  BY QuietSteps, <1>1, <1>2, <1>3, <1>4, <1>5, <1>6, <1>7, <1>8, <1>9, <1>10,
     <1>11, <1>12, <1>13, <1>14, <1>15, <1>16, <1>17, <1>18, <1>19, <1>20, <1>21
     DEF Next, Callers, Cancellations, Deliveries, Continue, Worker

\* With the server's discipline no thread waits for the executor's lock while
\* it holds it: whoever holds it is draining the queue and gives it back.
THEOREM NeverSelfDeadlocks ==
  ASSUME EarlyCallers = FALSE
  PROVE  Spec => []NoSelfDeadlock
<1>1. Init => Discipline
  BY TasksAssumption DEF Init, Discipline, Jobs, Tasks, Threads
<1>2. RuntimeInv /\ Discipline /\ [Next]_vars => Discipline'
  BY DisciplineStep
<1>3. RuntimeInv /\ Discipline => NoSelfDeadlock
  BY TasksAssumption DEF RuntimeInv, TypeInv, Discipline, NoSelfDeadlock, Threads
<1> QED
  BY <1>1, <1>2, <1>3, RuntimeInvariant, PTL DEF Spec

-----------------------------------------------------------------------------
(***************************************************************************)
(* The refinement.  What SerialOwner promises rests on three facts about   *)
(* the line of jobs: a job stands in it once and only while it waits       *)
(* (LineInv), close stands at its end and empties it (CloseLast), and no   *)
(* request gets into it once the runtime is closing (CallersInv).          *)
(***************************************************************************)
\* Nothing is submitted behind close.
CloseLast ==
    /\ \A i \in DOMAIN queue : queue[i] = "close" => i = Len(queue)
    /\ future["close"] \notin {"none", "pending"} => queue = <<>>

\* A request is submitted between a start that has returned and a close that
\* has yet to be queued; only a cancelled start leaves anything to the worker.
CallersInv ==
    /\ \A r \in Requests : future[r] # "none" => future["start"] = "ok"
    /\ at["loop"] # "free" /\ doing["loop"] = "start" =>
           task["start"] \in {"new", "failing", "cancelling"}
    /\ at["loop"] = "submit" /\ doing["loop"] \in Requests =>
           ~closing /\ ~closed /\ task["start"] = "returned"
    /\ \/ startCallback
       \/ at["worker"] \in {"finishCancelledStart", "queueClose", "submitClose", "registerClose"}
       => task["start"] = "cancelled"

ServerInv == RuntimeInv /\ LineInv /\ Discipline /\ CallersInv

\* Every step keeps it.
LEMMA CallersStep ==
  ASSUME EarlyCallers = FALSE, ServerInv, [Next]_vars
  PROVE  CallersInv'
<1> USE TasksAssumption DEF ServerInv, RuntimeInv, TypeInv, CallInv, LockInv, ClosedInv,
   CallersInv, Discipline, StartOver, Done, Tasks, Submits, Open, Jobs, Threads, flags, executor, locks
<1>1. ASSUME Quiet PROVE CallersInv'
  BY <1>1 DEF Quiet, LoopFree
<1>2. ASSUME NEW t \in Submits, CallSubmit(t) PROVE CallersInv'
  BY <1>2 DEF CallSubmit, LoopFree, Enter, Goto, Resume
<1>3. ASSUME NEW c \in Closers, CallClose(c) PROVE CallersInv'
  BY <1>3 DEF CallClose, LoopFree, Enter, Goto, Resume, AwaitClose
<1>4. CASE CancelStart
  BY <1>4 DEF CancelStart, LoopFree, Enter, Goto, Resume
<1>5. CASE StartFails
  BY <1>5 DEF StartFails, LoopFree, Enter, Goto, Resume
<1>6. ASSUME NEW r \in Requests, CancelPropagates(r) PROVE CallersInv'
  BY <1>6 DEF CancelPropagates, LoopFree, Resume
<1>7. CASE Submit
  BY <1>7 DEF Submit, LoopReturns, Enter, Goto, Resume
<1>8. ASSUME NEW th \in Threads, FinishCancelledStart(th) PROVE CallersInv'
  BY <1>8 DEF FinishCancelledStart, Goto
<1>9. ASSUME NEW th \in Threads, QueueClose(th) PROVE CallersInv'
  BY <1>9 DEF QueueClose, Return, LoopReturns, Enter, Goto, Resume, Outcome,
     AwaitClose
<1>10. ASSUME NEW th \in Threads, SubmitClose(th) PROVE CallersInv'
  BY <1>10 DEF SubmitClose, Return, LoopReturns, Enter, Goto, Resume, Outcome,
     AwaitClose
<1>11. ASSUME NEW th \in Threads, RegisterClose(th) PROVE CallersInv'
  BY <1>11 DEF RegisterClose, Goto
<1>12. ASSUME NEW th \in Threads, ReleaseLifecycle(th) PROVE CallersInv'
  BY <1>12 DEF ReleaseLifecycle, Return, LoopReturns, Enter, Goto, Resume,
     Outcome, AwaitClose
<1>13. ASSUME NEW th \in Threads, FinishClose(th) PROVE CallersInv'
  BY <1>13 DEF FinishClose, Goto
<1>14. ASSUME NEW th \in Threads, AcquireShutdown(th) PROVE CallersInv'
  BY <1>14 DEF AcquireShutdown, Goto
<1>15. ASSUME NEW th \in Threads, DrainOne(th) PROVE CallersInv'
  BY <1>15 DEF DrainOne, Goto
<1>16. ASSUME NEW th \in Threads, ReleaseShutdown(th) PROVE CallersInv'
  BY <1>16 DEF ReleaseShutdown, Return, LoopReturns, Enter, Goto, Resume,
     Outcome, AwaitClose
<1>17. CASE WorkerTakes
  <2>1. Head(queue) \in Jobs
    BY <1>17, Taken DEF WorkerTakes
  <2> QED
    BY <1>17, <2>1 DEF WorkerTakes, Enter, Goto
<1>18. CASE WorkerExits
  BY <1>18 DEF WorkerExits, Goto
<1>19. CASE RunClose
  BY <1>19 DEF RunClose, Running, Settle, Enter, Goto
<1>20. ASSUME NEW ok \in BOOLEAN, RunStart(ok) PROVE CallersInv'
  BY <1>20 DEF RunStart, Running, Settle, Enter, Goto
<1>21. ASSUME NEW ok \in BOOLEAN, NEW r \in Requests, RunRequest(r, ok) PROVE CallersInv'
  BY <1>21 DEF RunRequest, Running, Settle, Enter, Goto
<1> QED
  BY QuietSteps, <1>1, <1>2, <1>3, <1>4, <1>5, <1>6, <1>7, <1>8, <1>9, <1>10,
     <1>11, <1>12, <1>13, <1>14, <1>15, <1>16, <1>17, <1>18, <1>19, <1>20, <1>21
     DEF Next, Callers, Cancellations, Deliveries, Continue, Worker

\* Every step keeps close at the end: its future does not exist when another
\* job is submitted.
LEMMA CloseLastStep ==
  ASSUME ServerInv, CloseLast, [Next]_vars
  PROVE  CloseLast'
<1>0. /\ queue \in Seq(Jobs) /\ future \in [Jobs -> FutureStates] /\ "close" \in Jobs
      /\ Len(queue) \in Nat /\ DOMAIN queue = 1 .. Len(queue)
  BY DEF ServerInv, RuntimeInv, TypeInv, Jobs
<1>1. CASE queue' = queue
  <2>1. /\ Queued("close") => Queued("close")'
        /\ future["close"] = "none" => future'["close"] = "none"
    BY <1>0, <1>1, FuturesStay DEF ServerInv
  <2>2. "close" \notin Requests
    BY TasksAssumption
  <2> QED
    BY <1>1, <2>1, <2>2 DEF CloseLast, Queued
<1>2. ASSUME Submit \/ \E th \in Threads : SubmitClose(th), queue' # queue PROVE CloseLast'
  <2>1. PICK j \in Jobs : /\ queue' = Append(queue, j)
                          /\ future' = [future EXCEPT ![j] = "pending"]
    BY <1>2, SubmissionAppends DEF ServerInv
  <2>2. future["close"] = "none"
    BY <1>2 DEF ServerInv, RuntimeInv, LockInv, CallInv, CallersInv, Submit, SubmitClose,
                Submits
  <2>3. \A i \in DOMAIN queue : queue[i] # "close"
    BY <2>2, TasksAssumption DEF ServerInv, LineInv, Queued
  <2>4. /\ DOMAIN queue' = 1 .. Len(queue) + 1 /\ Len(queue') = Len(queue) + 1
        /\ \A i \in DOMAIN queue : queue'[i] = queue[i]
    BY <1>0, <2>1, Appended
  <2>5. future'["close"] \in {"none", "pending"}
    BY <1>0, <2>1, <2>2
  <2> QED
    BY <1>0, <2>3, <2>4, <2>5 DEF CloseLast
<1>3. ASSUME WorkerTakes \/ \E th \in Threads : DrainOne(th) PROVE CloseLast'
  <2>1. /\ queue # <<>> /\ Head(queue) = queue[1] /\ Len(queue) \in Nat \ {0}
        /\ Len(queue') = Len(queue) - 1 /\ DOMAIN queue' = 1 .. Len(queue) - 1
        /\ \A i \in DOMAIN queue' : queue'[i] = queue[i + 1]
        /\ \A j \in Jobs \ {Head(queue)} : future'[j] = future[j]
        /\ queue' = Tail(queue)
    BY <1>3, HeadLeaves DEF ServerInv
  <2>2. \A i \in DOMAIN queue' : queue'[i] = "close" => i = Len(queue')
    BY <1>0, <2>1 DEF CloseLast
  <2>3. CASE Head(queue) = "close"
    <3>1. Len(queue) = 1
      BY <1>0, <2>1, <2>3 DEF CloseLast
    <3>2. queue' = <<>>
      BY <1>0, <2>1, <3>1
    <3> QED
      BY <2>2, <3>2 DEF CloseLast
  <2>4. CASE Head(queue) # "close"
    BY <1>0, <2>1, <2>2, <2>4 DEF CloseLast
  <2> QED
    BY <2>3, <2>4
<1> QED
  BY <1>1, <1>2, <1>3, QueueSteps

LEMMA ServerInvariant ==
  ASSUME EarlyCallers = FALSE
  PROVE  Spec => [](ServerInv /\ CloseLast)
<1>1. Init => Discipline /\ CallersInv /\ CloseLast /\ LineInv
  BY TasksAssumption DEF Init, Discipline, CallersInv, CloseLast, LineInv, Jobs, Tasks, Threads
<1>2. RuntimeInv /\ Discipline /\ [Next]_vars => Discipline'
  BY DisciplineStep
<1>3. ServerInv /\ [Next]_vars => CallersInv'
  BY CallersStep
<1>4. RuntimeInv /\ LineInv /\ [Next]_vars => LineInv'
  BY LineStep
<1>5. ServerInv /\ CloseLast /\ [Next]_vars => CloseLast'
  BY CloseLastStep
<1>6. ServerInv <=> RuntimeInv /\ LineInv /\ Discipline /\ CallersInv
  BY DEF ServerInv
<1> QED
  BY <1>1, <1>2, <1>3, <1>4, <1>5, <1>6, RuntimeInvariant, PTL DEF Spec

(***************************************************************************)
(* Who stands ahead of whom.                                               *)
(***************************************************************************)

\* A newcomer stands behind everybody.
LEMMA PrecedesAppend ==
  ASSUME NEW S, NEW s \in Seq(S), NEW e \in S, NEW v, NEW w,
         \A i \in DOMAIN s : s[i] # e
  PROVE  Precedes(Append(s, e), v, w) <=>
             Precedes(s, v, w) \/ (w = e /\ \E i \in DOMAIN s : s[i] = v)
<1>1. /\ Len(s) \in Nat /\ DOMAIN s = 1 .. Len(s)
      /\ DOMAIN Append(s, e) = 1 .. Len(s) + 1
      /\ \A i \in DOMAIN s : Append(s, e)[i] = s[i]
      /\ Append(s, e)[Len(s) + 1] = e
  BY Appended
<1>2. ASSUME Precedes(s, v, w) PROVE Precedes(Append(s, e), v, w)
  BY <1>1, <1>2 DEF Precedes
<1>3. ASSUME w = e, NEW i \in DOMAIN s, s[i] = v PROVE Precedes(Append(s, e), v, w)
  <2>1. i < Len(s) + 1 /\ i \in DOMAIN Append(s, e) /\ Len(s) + 1 \in DOMAIN Append(s, e)
    BY <1>1
  <2> QED
    BY <1>1, <1>3, <2>1 DEF Precedes
<1>4. ASSUME Precedes(Append(s, e), v, w)
      PROVE  Precedes(s, v, w) \/ (w = e /\ \E i \in DOMAIN s : s[i] = v)
  <2>1. PICK i \in DOMAIN Append(s, e), k \in DOMAIN Append(s, e) :
            i < k /\ Append(s, e)[i] = v /\ Append(s, e)[k] = w
    BY <1>4 DEF Precedes
  <2>2. i \in DOMAIN s /\ s[i] = v
    BY <1>1, <2>1
  <2>3. k \in DOMAIN s \/ k = Len(s) + 1
    BY <1>1
  <2> QED
    BY <1>1, <2>1, <2>2, <2>3 DEF Precedes
<1> QED
  BY <1>2, <1>3, <1>4

\* The one in front leaves; the others keep their order.
LEMMA PrecedesTail ==
  ASSUME NEW S, NEW s \in Seq(S), s # <<>>, NEW v, NEW w,
         \A i, k \in DOMAIN s : s[i] = s[k] => i = k
  PROVE  /\ ~Precedes(s, v, Head(s))
         /\ v # Head(s) => (Precedes(Tail(s), v, w) <=> Precedes(s, v, w))
<1>1. /\ Head(s) = s[1] /\ Len(s) \in Nat \ {0} /\ DOMAIN s = 1 .. Len(s)
      /\ DOMAIN Tail(s) = 1 .. Len(s) - 1
      /\ \A i \in DOMAIN Tail(s) : Tail(s)[i] = s[i + 1]
  BY Taken
<1>2. ~Precedes(s, v, Head(s))
  <2> SUFFICES ASSUME NEW i \in DOMAIN s, NEW k \in DOMAIN s, i < k, s[k] = Head(s)
               PROVE  FALSE
    BY DEF Precedes
  <2>1. k = 1
    BY <1>1
  <2> QED
    BY <1>1, <2>1
<1>3. ASSUME Precedes(Tail(s), v, w) PROVE Precedes(s, v, w)
  <2>1. PICK i \in DOMAIN Tail(s), k \in DOMAIN Tail(s) :
            i < k /\ Tail(s)[i] = v /\ Tail(s)[k] = w
    BY <1>3 DEF Precedes
  <2>2. i + 1 \in DOMAIN s /\ k + 1 \in DOMAIN s /\ i + 1 < k + 1
    BY <1>1, <2>1
  <2> QED
    BY <1>1, <2>1, <2>2 DEF Precedes
<1>4. ASSUME v # Head(s), Precedes(s, v, w) PROVE Precedes(Tail(s), v, w)
  <2>1. PICK i \in DOMAIN s, k \in DOMAIN s : i < k /\ s[i] = v /\ s[k] = w
    BY <1>4 DEF Precedes
  <2>2. i # 1
    BY <1>1, <1>4, <2>1
  <2>3. i - 1 \in DOMAIN Tail(s) /\ k - 1 \in DOMAIN Tail(s) /\ i - 1 < k - 1
    BY <1>1, <2>1, <2>2
  <2>4. Tail(s)[i - 1] = v /\ Tail(s)[k - 1] = w
    BY <1>1, <2>1, <2>3
  <2> QED
    BY <2>3, <2>4 DEF Precedes
<1> QED
  BY <1>2, <1>3, <1>4

(***************************************************************************)
(* The step of the refinement.                                             *)
(***************************************************************************)

barVars == <<phaseBar, waitingBar, aheadBar, currentBar, finishedBar, withdrawnBar>>

\* What a step leaves alone when it changes no future, takes nothing from the
\* queue and puts nothing in, and neither begins nor ends a job.
LEMMA Stutters ==
  ASSUME UNCHANGED <<future, queue, shell, currentBar>>
  PROVE  UNCHANGED barVars
  BY DEF barVars, phaseBar, waitingBar, aheadBar, finishedBar, withdrawnBar

\* The worker's current job changes only where it takes or settles one.
LEMMA CurrentStays ==
  ASSUME ServerInv, NEW th \in Threads, Continue(th)
  PROVE  UNCHANGED currentBar
<1> USE DEF ServerInv, RuntimeInv, TypeInv, CallInv, Threads, currentBar, Goto, Enter, Places
<1>1. at[th] # "run"
  BY DEF Continue, FinishCancelledStart, QueueClose, SubmitClose, RegisterClose,
         ReleaseLifecycle, FinishClose, AcquireShutdown, DrainOne, ReleaseShutdown
<1>2. ASSUME Return(th) PROVE UNCHANGED currentBar
  BY <1>1, <1>2 DEF Return, LoopReturns
<1>3. ASSUME NEW t, NEW state, LoopReturns(t, state) PROVE UNCHANGED currentBar
  BY <1>3 DEF LoopReturns
<1>4. ASSUME NEW place \in Places \ {"run"}, Goto(th, place), UNCHANGED doing
      PROVE  UNCHANGED currentBar
  BY <1>1, <1>4
<1>5. CASE FinishCancelledStart(th)
  BY <1>4, <1>5 DEF FinishCancelledStart
<1>6. CASE QueueClose(th)
  BY <1>2, <1>4, <1>6 DEF QueueClose
<1>7. CASE SubmitClose(th)
  BY <1>2, <1>3, <1>4, <1>7 DEF SubmitClose
<1>8. CASE RegisterClose(th)
  BY <1>4, <1>8 DEF RegisterClose
<1>9. CASE ReleaseLifecycle(th)
  BY <1>2, <1>9 DEF ReleaseLifecycle
<1>10. CASE FinishClose(th)
  BY <1>4, <1>10 DEF FinishClose
<1>11. CASE AcquireShutdown(th)
  BY <1>4, <1>11 DEF AcquireShutdown
<1>12. CASE DrainOne(th)
  BY <1>4, <1>12 DEF DrainOne
<1>13. CASE ReleaseShutdown(th)
  BY <1>2, <1>4, <1>13 DEF ReleaseShutdown
<1> QED
  BY <1>5, <1>6, <1>7, <1>8, <1>9, <1>10, <1>11, <1>12, <1>13 DEF Continue

\* A submission is an admission; that of start and of close is not seen.
LEMMA SubmissionAdmits ==
  ASSUME ServerInv, CloseLast, [Next]_vars, queue' # queue,
         Submit \/ \E th \in Threads : SubmitClose(th)
  PROVE  [Owner!Next]_barVars
<1>0. /\ queue \in Seq(Jobs) /\ future \in [Jobs -> FutureStates]
      /\ DOMAIN queue = 1 .. Len(queue)
  BY DEF ServerInv, RuntimeInv, TypeInv
<1>1. PICK j \in Jobs : /\ future[j] = "none"
                        /\ queue' = Append(queue, j)
                        /\ future' = [future EXCEPT ![j] = "pending"]
  BY SubmissionAppends DEF ServerInv
<1>2. \A i \in DOMAIN queue : queue[i] # j
  BY <1>1 DEF ServerInv, LineInv, Queued
<1>3. shell' = shell
  BY DEF Submit, SubmitClose
<1>4. UNCHANGED currentBar
  <2>1. CASE Submit
    BY <2>1 DEF Submit, currentBar, LoopReturns, Enter, Goto, ServerInv, RuntimeInv, TypeInv,
                Threads
  <2> QED
    BY <2>1, CurrentStays DEF Continue
<1>5. UNCHANGED phaseBar
  BY <1>0, <1>1, <1>3 DEF phaseBar, Jobs
<1>6. UNCHANGED <<finishedBar, withdrawnBar>>
  BY <1>0, <1>1 DEF finishedBar, withdrawnBar, Jobs
<1>7. waitingBar' = IF j \in Requests THEN waitingBar \cup {j} ELSE waitingBar
  BY <1>0, <1>1 DEF waitingBar, Jobs
<1>8. ASSUME NEW v, NEW w
      PROVE  Precedes(queue', v, w) <=>
                 Precedes(queue, v, w) \/ (w = j /\ \E i \in DOMAIN queue : queue[i] = v)
  <2>1. Precedes(Append(queue, j), v, w) <=>
            Precedes(queue, v, w) \/ (w = j /\ \E i \in DOMAIN queue : queue[i] = v)
    BY <1>0, <1>2, PrecedesAppend
  <2> QED
    BY <1>1, <2>1
<1>9. CASE j \notin Requests
  <2>1. waitingBar' = waitingBar /\ j \notin waitingBar
    BY <1>7, <1>9 DEF waitingBar
  <2>2. aheadBar' = aheadBar
    BY <1>8, <2>1 DEF aheadBar
  <2> QED
    BY <1>4, <1>5, <1>6, <2>1, <2>2 DEF barVars
<1>10. CASE j \in Requests
  <2>1. phaseBar = "open"
    <3>1. Submit /\ doing["loop"] = j
      <4>1. j # "close"
        BY <1>10, TasksAssumption
      <4>2. ASSUME NEW th \in Threads, SubmitClose(th) PROVE FALSE
        BY <1>0, <1>1, <4>1, <4>2 DEF SubmitClose, Jobs
      <4>3. Submit
        BY <4>2
      <4> QED
        BY <1>0, <1>1, <4>3 DEF Submit, ServerInv, RuntimeInv, CallInv, Submits, Jobs
    <3>2. ~closing /\ task["start"] = "returned"
      BY <1>10, <3>1 DEF Submit, ServerInv, CallersInv
    <3>3. future["start"] = "ok" /\ future["close"] = "none"
      BY <3>2 DEF ServerInv, RuntimeInv, Discipline, LockInv
    <3> QED
      BY <3>3 DEF ServerInv, RuntimeInv, TypeInv, Discipline, phaseBar
  <2>2. j \notin waitingBar \cup finishedBar \cup withdrawnBar /\ j # currentBar
    BY <1>1, <1>10, TasksAssumption
    DEF waitingBar, finishedBar, withdrawnBar, currentBar, ServerInv, RuntimeInv, CallInv
  <2>3. \A v \in waitingBar : \E i \in DOMAIN queue : queue[i] = v
    BY DEF waitingBar, ServerInv, LineInv, Jobs
  <2>4. \A v \in waitingBar' : ~Precedes(queue, v, j) /\ ~Precedes(queue, j, v)
    BY <1>2 DEF Precedes
  <2>5. aheadBar' = aheadBar \cup (waitingBar \X {j})
    <3>1. waitingBar' = waitingBar \cup {j}
      BY <1>7, <1>10
    <3>2. ASSUME NEW v, NEW w
          PROVE  <<v, w>> \in aheadBar' <=> <<v, w>> \in aheadBar \/ (v \in waitingBar /\ w = j)
      BY <1>2, <1>8, <2>3, <2>4, <3>1 DEF aheadBar
    <3>3. /\ \A p \in aheadBar' : p = <<p[1], p[2]>>
          /\ \A p \in aheadBar \cup (waitingBar \X {j}) : p = <<p[1], p[2]>>
      BY DEF aheadBar
    <3> QED
      BY <3>2, <3>3
  <2>6. Owner!Admit(j)
    BY <1>4, <1>5, <1>6, <1>7, <1>10, <2>1, <2>2, <2>5 DEF Owner!Admit, Owner!Known
  <2> QED
    BY <1>10, <2>6 DEF Owner!Next
<1> QED
  BY <1>9, <1>10

\* What the worker takes is what waits longest, and a cancelled request is
\* passed over; shutdown finds no request in the queue.
LEMMA TakingBegins ==
  ASSUME ServerInv, CloseLast, WorkerTakes
  PROVE  [Owner!Next]_barVars
<1> DEFINE j == Head(queue)
<1>0. /\ queue \in Seq(Jobs) /\ future \in [Jobs -> FutureStates]
      /\ at["worker"] = "free" /\ shell' = shell
      /\ at \in [Threads -> Places] /\ doing \in [Threads -> Jobs \cup Tasks \cup {NoOne}]
  BY DEF ServerInv, RuntimeInv, TypeInv, WorkerTakes
<1>1. /\ queue # <<>> /\ queue' = Tail(queue) /\ j \in Jobs
      /\ \A k \in Jobs \ {j} : future'[k] = future[k]
      /\ future'[j] # "pending"
  BY HeadLeaves DEF ServerInv
<1>2. \A i, k \in DOMAIN queue : queue[i] = queue[k] => i = k
  BY DEF ServerInv, LineInv
<1>3. \A v : ~Precedes(queue, v, j)
  BY <1>0, <1>1, <1>2, PrecedesTail
<1>4. ASSUME NEW v, NEW w, v # j
      PROVE  Precedes(queue', v, w) <=> Precedes(queue, v, w)
  BY <1>0, <1>1, <1>2, <1>4, PrecedesTail
<1>5. /\ future[j] = "pending" => /\ future'[j] = "running"
                                 /\ at'["worker"] = "run" /\ doing'["worker"] = j
      /\ future[j] # "pending" => UNCHANGED <<future, at, doing>>
  BY <1>0, <1>1 DEF WorkerTakes, Enter, Goto, Threads
<1>6. waitingBar' = waitingBar \ {j}
  BY <1>0, <1>1 DEF waitingBar, Jobs
<1>7. aheadBar' = {p \in aheadBar : j \notin {p[1], p[2]}}
  <2>1. ASSUME NEW v, NEW w
        PROVE  <<v, w>> \in aheadBar' <=> <<v, w>> \in aheadBar /\ j \notin {v, w}
    BY <1>4, <1>6 DEF aheadBar
  <2>2. /\ \A p \in aheadBar' : p = <<p[1], p[2]>>
        /\ \A p \in aheadBar : p = <<p[1], p[2]>>
    BY DEF aheadBar
  <2> QED
    BY <2>1, <2>2
<1>8. UNCHANGED <<finishedBar, withdrawnBar>>
  BY <1>0, <1>1, <1>5 DEF finishedBar, withdrawnBar, Jobs
<1>9. UNCHANGED phaseBar
  BY <1>0, <1>1, <1>5 DEF phaseBar, Jobs
<1>10. currentBar = NoOne
  BY <1>0 DEF currentBar
<1>11. CASE j \in waitingBar
  <2>1. j \in Requests /\ future[j] = "pending"
    BY <1>11 DEF waitingBar
  <2>2. currentBar' = j
    BY <1>5, <2>1 DEF currentBar
  <2>3. phaseBar = "open"
    <3>1. future["start"] = "ok" /\ future["close"] \in {"none", "pending"}
      BY <1>1, <2>1 DEF ServerInv, CallersInv, CloseLast
    <3> QED
      BY <3>1 DEF ServerInv, RuntimeInv, TypeInv, Discipline, phaseBar
  <2>4. \A v \in waitingBar : <<v, j>> \notin aheadBar
    BY <1>3 DEF aheadBar
  <2>5. Owner!Begin(j)
    BY <1>6, <1>7, <1>8, <1>9, <1>10, <1>11, <2>2, <2>3, <2>4
    DEF Owner!Begin, Owner!Leave
  <2> QED
    BY <2>1, <2>5 DEF Owner!Next, Owner!Owns
<1>12. CASE j \notin waitingBar
  <2>1. currentBar' = NoOne
    BY <1>0, <1>5, <1>12 DEF currentBar, waitingBar
  <2>2. waitingBar' = waitingBar
    BY <1>6, <1>12
  <2>3. \A p \in aheadBar : j \notin {p[1], p[2]}
    BY <1>12 DEF aheadBar
  <2>4. aheadBar' = aheadBar
    BY <1>7, <2>3
  <2> QED
    BY <1>8, <1>9, <1>10, <2>1, <2>2, <2>4 DEF barVars
<1> QED
  BY <1>11, <1>12

\* Nothing that shutdown drains waits: a close that ran left the queue empty,
\* and without a start that succeeded no request was submitted.
LEMMA DrainingStutters ==
  ASSUME ServerInv, CloseLast, NEW th \in Threads, DrainOne(th)
  PROVE  UNCHANGED barVars
<1> DEFINE j == Head(queue)
<1>0. /\ queue \in Seq(Jobs) /\ future \in [Jobs -> FutureStates] /\ at[th] = "drain"
      /\ shell' = shell
  BY DEF ServerInv, RuntimeInv, TypeInv, DrainOne
<1>1. /\ queue # <<>> /\ j \in Jobs /\ j = queue[1] /\ 1 \in DOMAIN queue
  BY HeadLeaves DEF ServerInv
<1>2. future["start"] # "ok"
  BY <1>0, <1>1 DEF ServerInv, Discipline, CloseLast
<1>3. waitingBar = {} /\ future["close"] = "none"
  BY <1>2 DEF waitingBar, ServerInv, CallersInv, Discipline
<1>4. future[j] # "pending"
  <2>1. j \notin Requests \cup {"close"} \/ future[j] # "pending"
    BY <1>2, <1>3 DEF ServerInv, CallersInv
  <2>2. StartOver
    BY <1>0 DEF ServerInv, RuntimeInv, ClosedInv
  <2>3. future["start"] # "pending"
    BY <2>2 DEF StartOver, Done
  <2> QED
    BY <1>1, <2>1, <2>3 DEF Jobs
<1>5. future' = future
  BY <1>0, <1>1, <1>4 DEF DrainOne
<1>6. waitingBar' = {} /\ aheadBar' = {} /\ aheadBar = {}
  BY <1>3, <1>5 DEF waitingBar, aheadBar
<1>7. UNCHANGED currentBar
  BY CurrentStays DEF Continue
<1> QED
  BY <1>0, <1>3, <1>5, <1>6, <1>7 DEF barVars, phaseBar, finishedBar, withdrawnBar

\* A cancelled task withdraws its request if the worker has not taken it.
LEMMA CancellationWithdraws ==
  ASSUME ServerInv, NEW r \in Requests, CancelPropagates(r)
  PROVE  [Owner!Next]_barVars
<1>0. /\ future \in [Jobs -> FutureStates] /\ r \in Jobs /\ r \notin {"start", "close"}
      /\ UNCHANGED <<queue, shell, at, doing>>
  BY TasksAssumption DEF ServerInv, RuntimeInv, TypeInv, CancelPropagates, Jobs
<1>1. UNCHANGED currentBar
  BY <1>0 DEF currentBar
<1>2. CASE future[r] # "pending"
  <2>1. future' = future
    BY <1>0, <1>2 DEF CancelPropagates
  <2> QED
    BY <1>0, <1>1, <2>1, Stutters
<1>3. CASE future[r] = "pending"
  <2>1. future' = [future EXCEPT ![r] = "cancelled"]
    BY <1>3 DEF CancelPropagates
  <2>2. UNCHANGED phaseBar
    BY <1>0, <2>1 DEF phaseBar, Jobs
  <2>3. r \in waitingBar /\ waitingBar' = waitingBar \ {r}
    BY <1>0, <1>3, <2>1 DEF waitingBar, Jobs
  <2>4. finishedBar' = finishedBar /\ withdrawnBar' = withdrawnBar \cup {r}
    BY <1>0, <1>3, <2>1 DEF finishedBar, withdrawnBar, Jobs
  <2>5. aheadBar' = {p \in aheadBar : r \notin {p[1], p[2]}}
    <3>1. ASSUME NEW v, NEW w
          PROVE  <<v, w>> \in aheadBar' <=> <<v, w>> \in aheadBar /\ r \notin {v, w}
      BY <1>0, <2>3 DEF aheadBar, Precedes
    <3>2. /\ \A p \in aheadBar' : p = <<p[1], p[2]>>
          /\ \A p \in aheadBar : p = <<p[1], p[2]>>
      BY DEF aheadBar
    <3> QED
      BY <3>1, <3>2
  <2>6. Owner!Withdraw(r)
    BY <1>1, <2>2, <2>3, <2>4, <2>5 DEF Owner!Withdraw, Owner!Leave
  <2> QED
    BY <2>6 DEF Owner!Next
<1> QED
  BY <1>2, <1>3

\* What the worker settles: the start, a request, or the close.
LEMMA StartOpens ==
  ASSUME ServerInv, NEW ok \in BOOLEAN, RunStart(ok)
  PROVE  [Owner!Next]_barVars
<1>0. /\ future \in [Jobs -> FutureStates] /\ at["worker"] = "run" /\ doing["worker"] = "start"
      /\ "start" \in Jobs /\ "start" \notin Requests
      /\ at \in [Threads -> Places] /\ "worker" \in Threads
  BY TasksAssumption
  DEF ServerInv, RuntimeInv, TypeInv, RunStart, Running, Jobs, Threads
<1>1. /\ future' = [future EXCEPT !["start"] = IF ok THEN "ok" ELSE "error"]
      /\ shell' = ok /\ queue' = queue /\ at'["worker"] # "run"
  BY <1>0 DEF RunStart, Settle, Enter, Goto
<1>2. future["start"] = "running" /\ ~shell /\ future["close"] = "none"
  BY <1>0 DEF ServerInv, RuntimeInv, CallInv, ClosedInv, Discipline
<1>3. phaseBar = "starting" /\ phaseBar' = IF ok THEN "open" ELSE "closed"
  BY <1>0, <1>1, <1>2 DEF phaseBar, Jobs
<1>4. \A r \in Requests : future'[r] = future[r]
  BY <1>0, <1>1 DEF Jobs
<1>5. UNCHANGED <<waitingBar, aheadBar, finishedBar, withdrawnBar>>
  BY <1>1, <1>4 DEF waitingBar, aheadBar, finishedBar, withdrawnBar
<1>6. UNCHANGED currentBar
  BY <1>0, <1>1 DEF currentBar
<1>7. \E outcome \in {"open", "closed"} : Owner!StartUp(outcome)
  BY <1>3, <1>5, <1>6 DEF Owner!StartUp
<1> QED
  BY <1>7 DEF Owner!Next

LEMMA RequestFinishes ==
  ASSUME ServerInv, NEW ok \in BOOLEAN, NEW r \in Requests, RunRequest(r, ok)
  PROVE  [Owner!Next]_barVars
<1>0. /\ future \in [Jobs -> FutureStates] /\ at["worker"] = "run" /\ doing["worker"] = r
      /\ r \in Jobs /\ r \notin {"start", "close"} /\ r # NoOne
      /\ at \in [Threads -> Places] /\ "worker" \in Threads
  BY TasksAssumption
  DEF ServerInv, RuntimeInv, TypeInv, RunRequest, Running, Jobs, Threads
<1>1. /\ future' = [future EXCEPT ![r] = IF ok THEN "ok" ELSE "error"]
      /\ shell' = shell /\ queue' = queue /\ at'["worker"] # "run"
  BY <1>0 DEF RunRequest, Settle, Enter, Goto
<1>2. future[r] = "running"
  BY <1>0 DEF ServerInv, RuntimeInv, CallInv
<1>3. currentBar = r /\ currentBar' = NoOne
  BY <1>0, <1>1 DEF currentBar
<1>4. UNCHANGED <<phaseBar, waitingBar, withdrawnBar>>
  BY <1>0, <1>1, <1>2 DEF phaseBar, waitingBar, withdrawnBar, Jobs
<1>5. aheadBar' = aheadBar
  BY <1>1, <1>4 DEF aheadBar
<1>6. finishedBar' = finishedBar \cup {r}
  BY <1>0, <1>1 DEF finishedBar, Jobs
<1>7. Owner!Finish
  BY <1>0, <1>3, <1>4, <1>5, <1>6 DEF Owner!Finish
<1> QED
  BY <1>7 DEF Owner!Next, Owner!Owns

LEMMA CloseShuts ==
  ASSUME ServerInv, CloseLast, RunClose
  PROVE  [Owner!Next]_barVars
<1>0. /\ future \in [Jobs -> FutureStates] /\ at["worker"] = "run" /\ doing["worker"] = "close"
      /\ "close" \in Jobs /\ "close" \notin Requests
      /\ at \in [Threads -> Places] /\ "worker" \in Threads
  BY TasksAssumption
  DEF ServerInv, RuntimeInv, TypeInv, RunClose, Running, Jobs, Threads
<1>1. /\ future' = [future EXCEPT !["close"] = "ok"]
      /\ queue' = queue /\ at'["worker"] # "run"
  BY <1>0 DEF RunClose, Settle, Enter, Goto
<1>2. future["close"] = "running"
  BY <1>0 DEF ServerInv, RuntimeInv, CallInv
<1>3. future["start"] = "ok" /\ shell
  BY <1>2 DEF ServerInv, Discipline, RuntimeInv, TypeInv
<1>4. phaseBar = "open" /\ phaseBar' = "closed"
  BY <1>0, <1>1, <1>2, <1>3 DEF phaseBar
<1>5. queue = <<>>
  BY <1>2 DEF CloseLast
<1>6. waitingBar = {}
  BY <1>5 DEF waitingBar, ServerInv, LineInv, Jobs
<1>7. \A r \in Requests : future'[r] = future[r]
  BY <1>0, <1>1 DEF Jobs
<1>8. UNCHANGED <<waitingBar, aheadBar, finishedBar, withdrawnBar>>
  BY <1>1, <1>7 DEF waitingBar, aheadBar, finishedBar, withdrawnBar
<1>9. currentBar = NoOne /\ currentBar' = NoOne
  BY <1>0, <1>1 DEF currentBar
<1>10. Owner!Shut
  BY <1>4, <1>6, <1>8, <1>9 DEF Owner!Shut
<1> QED
  BY <1>10 DEF Owner!Next

\* Every other step of the runtime is one SerialOwner does not see.
LEMMA OwnerSteps ==
  ASSUME ServerInv, CloseLast, [Next]_vars
  PROVE  [Owner!Next]_barVars
<1>1. CASE UNCHANGED <<future, queue, shell, currentBar>>
  BY <1>1, Stutters
<1>2. ASSUME UNCHANGED <<future, queue, shell, at, doing>> PROVE UNCHANGED currentBar
  BY <1>2 DEF currentBar
<1>3. ASSUME Quiet PROVE UNCHANGED <<future, queue, shell, currentBar>>
  BY <1>2, <1>3 DEF Quiet, executor
<1>4. ASSUME NEW place, NEW what, Enter("loop", place, what) PROVE UNCHANGED currentBar
  BY <1>4 DEF Enter, Goto, currentBar, ServerInv, RuntimeInv, TypeInv, Threads
<1>5. ASSUME NEW t \in Submits, CallSubmit(t) PROVE UNCHANGED <<future, queue, shell, currentBar>>
  BY <1>2, <1>4, <1>5 DEF CallSubmit, executor
<1>6. ASSUME NEW c \in Closers, CallClose(c) PROVE UNCHANGED <<future, queue, shell, currentBar>>
  BY <1>2, <1>4, <1>6 DEF CallClose, executor
<1>7. CASE CancelStart \/ StartFails
  BY <1>1, <1>2, <1>4, <1>7 DEF CancelStart, StartFails, executor
<1>8. ASSUME NEW th \in Threads, Continue(th) PROVE [Owner!Next]_barVars
  <2>1. UNCHANGED currentBar
    BY <1>8, CurrentStays
  <2>2. CASE DrainOne(th)
    BY <2>2, DrainingStutters
  <2>3. CASE SubmitClose(th)
    <3>1. CASE queue' # queue
      BY <2>3, <3>1, SubmissionAdmits
    <3>2. CASE queue' = queue
      <4>1. queue \in Seq(Jobs) /\ "close" \in Jobs
        BY DEF ServerInv, RuntimeInv, TypeInv, Jobs
      <4>2. Append(queue, "close") # queue
        BY <4>1, Appended
      <4>3. UNCHANGED <<future, shell>>
        BY <2>3, <3>2, <4>2 DEF SubmitClose
      <4> QED
        BY <1>1, <2>1, <3>2, <4>3
    <3> QED
      BY <3>1, <3>2
  <2> QED
    BY <1>1, <1>8, <2>1, <2>2, <2>3
    DEF Continue, FinishCancelledStart, QueueClose, RegisterClose, ReleaseLifecycle,
        FinishClose, AcquireShutdown, ReleaseShutdown, executor
<1>9. CASE WorkerExits
  BY <1>1, <1>9 DEF WorkerExits, Goto, currentBar, executor, ServerInv, RuntimeInv, TypeInv, Threads
<1>10. CASE Submit
  <2>1. CASE queue' # queue
    BY <1>10, <2>1, SubmissionAdmits
  <2>2. CASE queue' = queue
    <3>1. queue \in Seq(Jobs) /\ doing["loop"] \in Jobs
      BY <1>10 DEF Submit, ServerInv, RuntimeInv, TypeInv, CallInv, Submits, Jobs
    <3>2. Append(queue, doing["loop"]) # queue
      BY <3>1, Appended
    <3>3. UNCHANGED <<future, shell>>
      BY <1>10, <2>2, <3>2 DEF Submit
    <3>4. UNCHANGED currentBar
      BY <1>4, <1>10 DEF Submit, LoopReturns
    <3> QED
      BY <1>1, <2>2, <3>3, <3>4
  <2> QED
    BY <2>1, <2>2
<1>11. RuntimeInv
  BY DEF ServerInv
<1> QED
  BY <1>1, <1>3, <1>5, <1>6, <1>7, <1>8, <1>9, <1>10, <1>11, QuietSteps, TakingBegins,
     CancellationWithdraws, StartOpens, RequestFinishes, CloseShuts
  DEF Next, Callers, Cancellations, Deliveries, Worker

\* With callers that wait for start, the runtime does what SerialOwner allows
\* and nothing else: operations in the order of their admission, one at a time
\* and each at most once, none that was withdrawn, none without a shell, and
\* the close last.
THEOREM RuntimeIsSerialOwner ==
  ASSUME EarlyCallers = FALSE
  PROVE  Spec => Owner!Safely
<1>1. Init => Owner!Init
  BY TasksAssumption DEF Init, Owner!Init, Jobs, phaseBar, waitingBar, aheadBar, currentBar,
     finishedBar, withdrawnBar, Threads
<1>2. ServerInv /\ CloseLast /\ [Next]_vars => [Owner!Next]_Owner!ownerVars
  BY OwnerSteps DEF barVars, Owner!ownerVars
<1> QED
  BY <1>1, <1>2, ServerInvariant, PTL DEF Spec, Owner!Safely

=============================================================================
