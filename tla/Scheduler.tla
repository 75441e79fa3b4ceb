------------------------------ MODULE Scheduler -----------------------------
(***************************************************************************)
(* CScheduler: threads that run serviceQueue, and callers that schedule    *)
(* tasks, shift the schedule and stop the threads.                         *)
(*                                                                         *)
(* A step of a thread is what it does while it holds newTaskMutex, up to   *)
(* its next wait or task.  A thread whose wait is over still has to get    *)
(* the mutex back; wait_until then tells whether its time has come.        *)
(* Callers notify after they have unlocked the mutex, and a wait may end   *)
(* without a notification.  Exceptions of tasks, which end the program,    *)
(* are left out.                                                           *)
(***************************************************************************)
EXTENDS Integers, FiniteSets

CONSTANTS Threads, Tasks,
          MaxTime,      \* the last time at which something is scheduled
          None

ASSUME TimeAssumption == MaxTime \in Nat /\ None \notin Int

VARIABLES now,          \* system_clock
          taskQueue,    \* taskQueue[k]: when task k is due, or None
          stopRequested, stopWhenEmpty,
          pc,           \* where each thread is
          until,        \* what its wait_until waits for
          task,         \* the task it runs, and when that was due
          called,       \* the tasks that were scheduled
          notifyOne,    \* calls of notify_one to come
          notifyAll     \* calls of notify_all to come

vars == <<now, taskQueue, stopRequested, stopWhenEmpty, pc, until, task, called, notifyOne, notifyAll>>
callers == <<called, notifyAll>>

Times == (-MaxTime) .. MaxTime

Queued == {k \in Tasks : taskQueue[k] # None}
ShouldStop == stopRequested \/ (stopWhenEmpty /\ Queued = {})

\* What *taskQueue.begin() may be.
First == {k \in Queued : \A l \in Queued : taskQueue[k] <= taskQueue[l]}

\* Some of the threads are started with serviceQueue.
Init ==
    /\ now = 0 /\ taskQueue = [k \in Tasks |-> None] /\ called = {}
    /\ stopRequested = FALSE /\ stopWhenEmpty = FALSE
    /\ pc \in [Threads -> {"loop", "absent"}] /\ (\E t \in Threads : pc[t] = "loop")
    /\ until = [t \in Threads |-> None] /\ task = [t \in Threads |-> None]
    /\ notifyOne = 0 /\ notifyAll = 0
-----------------------------------------------------------------------------
\* The top of the loop: the thread waits for a task, or for the time of the
\* first one, or returns, and then tells another thread.
Evaluate(t) ==
    /\ pc' = [pc EXCEPT ![t] = IF ShouldStop THEN "exited" ELSE IF Queued = {} THEN "wait" ELSE "wait_until"]
    /\ until' = [until EXCEPT ![t] = IF ShouldStop \/ Queued = {} THEN None
                                     ELSE taskQueue[CHOOSE k \in First : TRUE]]
    /\ notifyOne' = IF ShouldStop THEN notifyOne + 1 ELSE notifyOne

ServiceQueue(t) ==
    /\ pc[t] = "loop"
    /\ Evaluate(t)
    /\ UNCHANGED <<now, taskQueue, stopRequested, stopWhenEmpty, task, callers>>

\* Variant of WaitUntil that runs a task whenever it wakes up.
WaitUntilWoken(t) ==
    /\ pc[t] = "woken"
    /\ \/ /\ ~ShouldStop /\ Queued # {}
          /\ \E k \in First :
               /\ task' = [task EXCEPT ![t] = [id |-> k, due |-> taskQueue[k]]]
               /\ taskQueue' = [taskQueue EXCEPT ![k] = None]
          /\ pc' = [pc EXCEPT ![t] = "running"]
          /\ until' = [until EXCEPT ![t] = None] /\ UNCHANGED notifyOne
       \/ (ShouldStop \/ Queued = {}) /\ Evaluate(t) /\ UNCHANGED <<taskQueue, task>>
    /\ UNCHANGED <<now, stopRequested, stopWhenEmpty, callers>>

\* wait_until returns; after a timeout the first task is run, whichever it is.
WaitUntil(t) ==
    /\ pc[t] = "woken"
    /\ \/ /\ until[t] <= now /\ ~ShouldStop /\ Queued # {}
          /\ \E k \in First :
               /\ task' = [task EXCEPT ![t] = [id |-> k, due |-> taskQueue[k]]]
               /\ taskQueue' = [taskQueue EXCEPT ![k] = None]
          /\ pc' = [pc EXCEPT ![t] = "running"]
          /\ until' = [until EXCEPT ![t] = None] /\ UNCHANGED notifyOne
       \/ /\ until[t] > now \/ ShouldStop \/ Queued = {}
          /\ Evaluate(t) /\ UNCHANGED <<taskQueue, task>>
    /\ UNCHANGED <<now, stopRequested, stopWhenEmpty, callers>>

\* The function returns.
Finish(t) ==
    /\ pc[t] = "running"
    /\ task' = [task EXCEPT ![t] = None]
    /\ Evaluate(t)
    /\ UNCHANGED <<now, taskQueue, stopRequested, stopWhenEmpty, callers>>
-----------------------------------------------------------------------------
\* Variant of Schedule that does not notify.
ScheduleSilently(k, time) ==
    /\ k \notin called
    /\ taskQueue' = [taskQueue EXCEPT ![k] = time]
    /\ called' = called \cup {k}
    /\ UNCHANGED <<now, stopRequested, stopWhenEmpty, pc, until, task, notifyOne, notifyAll>>

\* schedule, from any thread, also from a task that is running.
Schedule(k, time) ==
    /\ k \notin called
    /\ taskQueue' = [taskQueue EXCEPT ![k] = time]
    /\ called' = called \cup {k} /\ notifyOne' = notifyOne + 1
    /\ UNCHANGED <<now, stopRequested, stopWhenEmpty, pc, until, task, notifyAll>>

\* MockForward: everything is due delta earlier.
MockForward(delta) ==
    /\ Queued # {} /\ \A k \in Queued : taskQueue[k] - delta \in Times
    /\ taskQueue' = [k \in Tasks |-> IF k \in Queued THEN taskQueue[k] - delta ELSE None]
    /\ notifyOne' = notifyOne + 1
    /\ UNCHANGED <<now, stopRequested, stopWhenEmpty, pc, until, task, callers>>

Stop ==
    /\ ~stopRequested /\ stopRequested' = TRUE /\ notifyAll' = notifyAll + 1
    /\ UNCHANGED <<now, taskQueue, stopWhenEmpty, pc, until, task, called, notifyOne>>

\* Variant of StopWhenDrained that does not notify.
StopWhenDrainedSilently ==
    /\ ~stopWhenEmpty /\ stopWhenEmpty' = TRUE
    /\ UNCHANGED <<now, taskQueue, stopRequested, pc, until, task, called, notifyOne, notifyAll>>

StopWhenDrained ==
    /\ ~stopWhenEmpty /\ stopWhenEmpty' = TRUE /\ notifyAll' = notifyAll + 1
    /\ UNCHANGED <<now, taskQueue, stopRequested, pc, until, task, called, notifyOne>>

\* The threads that wait, and what becomes of those in S.
Waiting == {t \in Threads : pc[t] \in {"wait", "wait_until"}}

Woken(S) ==
    [t \in Threads |-> IF t \notin S THEN pc[t] ELSE IF pc[t] = "wait" THEN "loop" ELSE "woken"]

NotifyOne ==
    /\ notifyOne > 0 /\ notifyOne' = notifyOne - 1
    /\ \E S \in IF Waiting = {} THEN {{}} ELSE {{t} : t \in Waiting} : pc' = Woken(S)
    /\ UNCHANGED <<now, taskQueue, stopRequested, stopWhenEmpty, until, task, callers>>

NotifyAll ==
    /\ notifyAll > 0 /\ notifyAll' = notifyAll - 1
    /\ pc' = Woken(Waiting)
    /\ UNCHANGED <<now, taskQueue, stopRequested, stopWhenEmpty, until, task, called, notifyOne>>

\* The time has come, or a spurious wake-up.
TimeOut(t) ==
    /\ pc[t] = "wait_until" /\ until[t] <= now /\ pc' = Woken({t})
    /\ UNCHANGED <<now, taskQueue, stopRequested, stopWhenEmpty, until, task, callers, notifyOne>>

WakeUp(t) ==
    /\ t \in Waiting /\ pc' = Woken({t})
    /\ UNCHANGED <<now, taskQueue, stopRequested, stopWhenEmpty, until, task, callers, notifyOne>>

Tick ==
    /\ now < MaxTime /\ now' = now + 1
    /\ UNCHANGED <<taskQueue, stopRequested, stopWhenEmpty, pc, until, task, callers, notifyOne>>
-----------------------------------------------------------------------------
Step(t) == ServiceQueue(t) \/ TimeOut(t) \/ WaitUntil(t) \/ Finish(t)

Next == \/ \E t \in Threads : Step(t) \/ WakeUp(t)
        \/ \E k \in Tasks, time \in 0 .. MaxTime : Schedule(k, time)
        \/ \E delta \in 1 .. MaxTime : MockForward(delta)
        \/ Stop \/ StopWhenDrained \/ NotifyOne \/ NotifyAll \/ Tick

Spec == Init /\ [][Next]_vars

\* Threads, pending notifications and the clock go on.
FairSpec == /\ Spec /\ \A t \in Threads : WF_vars(Step(t))
            /\ WF_vars(NotifyOne) /\ WF_vars(NotifyAll) /\ WF_vars(Tick)
-----------------------------------------------------------------------------
\* schedule: "Call func at/after time t".
NotBeforeItsTime == \A t \in Threads : pc[t] = "running" => task[t].due <= now

Alone == \A t, u \in Threads : t # u => "absent" \in {pc[t], pc[u]}

\* The same for a scheduler with a single thread, as the node has: nobody else
\* takes the task that the thread waits for.
NotBeforeItsTimeAlone == Alone => NotBeforeItsTime

Returned == \A t \in Threads : pc[t] \in {"exited", "absent"}

\* Every task that is scheduled is called, unless the scheduler is stopped or
\* all threads had returned.
AllCalled == \A k \in Tasks : k \in Queued ~> k \notin Queued \/ stopRequested \/ Returned

\* stop and StopWhenDrained are followed by the return of all threads.
ThreadsReturn == stopRequested \/ stopWhenEmpty ~> Returned
=============================================================================
