-------------------------- MODULE SchedulerProofs ---------------------------
(***************************************************************************)
(* A scheduler with a single thread calls no task before its time, however *)
(* many tasks are scheduled, shifted and woken up for.                     *)
(***************************************************************************)
EXTENDS Scheduler, WellFoundedInduction, TLAPS

\* A nonempty set of times has a least element.
LEMMA LeastTime ==
    ASSUME NEW T \in SUBSET Times, T # {}
    PROVE  \E x \in T : \A y \in T : x <= y
<1> DEFINE D == {x + MaxTime : x \in T}
           R == OpToRel(<, Nat)
<1>0. MaxTime \in Nat /\ T \subseteq Int /\ \A x \in T : -MaxTime <= x
  BY TimeAssumption DEF Times
<1>1. D \in SUBSET Nat /\ D # {}
  <2>1. ASSUME NEW x \in T PROVE x + MaxTime \in Nat
    BY <1>0
  <2>2. PICK x \in T : TRUE
    OBVIOUS
  <2>3. x + MaxTime \in D
    OBVIOUS
  <2> QED BY <2>1, <2>3
<1>2. PICK d \in D : \A e \in D : ~(<<e, d>> \in R)
  BY <1>1, WFMin, NatLessThanWellFounded
<1>3. PICK x \in T : d = x + MaxTime
  OBVIOUS
<1>4. ASSUME NEW y \in T PROVE x <= y
  <2>1. y + MaxTime \in D /\ y + MaxTime \in Nat /\ d \in Nat
    BY <1>1
  <2>2. ~(y + MaxTime < d)
    BY <1>2, <2>1 DEF OpToRel
  <2> QED BY <1>0, <1>3, <2>1, <2>2
<1> QED BY <1>4

Places == {"loop", "wait", "wait_until", "woken", "running", "exited", "absent"}

TypeInv ==
    /\ now \in Int
    /\ taskQueue \in [Tasks -> Times \cup {None}]
    /\ pc \in [Threads -> Places]
    /\ until \in [Threads -> Times \cup {None}]
    /\ task \in [Threads -> [id : Tasks, due : Times] \cup {None}]
    /\ Queued \subseteq called

Awaits(t) == pc[t] \in {"wait_until", "woken"}

\* A thread that has the tasks to itself waits for the time of one that is
\* still queued, or for a later time, and runs none too early.
IInv ==
    /\ TypeInv
    /\ \A t \in Threads : /\ Awaits(t) => until[t] \in Times
                          /\ pc[t] = "running" => task[t].due \in Times
    /\ Alone => \A t \in Threads :
         /\ Awaits(t) => \E k \in Queued : taskQueue[k] <= until[t]
         /\ pc[t] = "running" => task[t].due <= now

LEMMA FirstExists ==
    ASSUME TypeInv, Queued # {}
    PROVE  \E k \in First : TRUE
<1> DEFINE T == {taskQueue[k] : k \in Queued}
<1>1. T \in SUBSET Times /\ T # {}
  BY DEF TypeInv, Queued
<1>2. PICK x \in T : \A y \in T : x <= y
  BY <1>1, LeastTime
<1>3. PICK k \in Queued : x = taskQueue[k]
  OBVIOUS
<1>4. \A l \in Queued : taskQueue[k] <= taskQueue[l]
  BY <1>2, <1>3
<1> QED BY <1>4 DEF First

LEMMA InitInv == Init => IInv
<1> SUFFICES ASSUME Init PROVE IInv
  OBVIOUS
<1>1. pc \in [Threads -> Places] /\ \A t \in Threads : pc[t] \in {"loop", "absent"}
  BY DEF Init, Places
<1>2. Queued = {} /\ now \in Int
  BY DEF Init, Queued
<1>3. TypeInv
  BY <1>1, <1>2 DEF Init, TypeInv
<1> QED BY <1>1, <1>3 DEF IInv, Awaits

\* The top of the loop finds the time of a queued task.
LEMMA EvaluateInv ==
    ASSUME IInv, NEW t \in Threads, pc[t] # "absent", Evaluate(t),
           now' = now, taskQueue' = taskQueue, called' = called,
           task' \in [Threads -> [id : Tasks, due : Times] \cup {None}],
           \A u \in Threads \ {t} : task'[u] = task[u]
    PROVE  IInv'
<1>1. Queued' = Queued
  BY DEF Queued
<1>2. CASE ShouldStop \/ Queued = {}
  <2>1. /\ pc' \in [Threads -> Places] /\ pc'[t] \in {"exited", "wait"}
        /\ \A u \in Threads \ {t} : pc'[u] = pc[u]
    BY <1>2 DEF Evaluate, IInv, TypeInv, Places
  <2>2. /\ until' \in [Threads -> Times \cup {None}]
        /\ \A u \in Threads \ {t} : until'[u] = until[u]
    BY <1>2 DEF Evaluate, IInv, TypeInv
  <2>3. TypeInv'
    BY <1>1, <2>1, <2>2 DEF IInv, TypeInv
  <2>4. \A u \in Threads : Awaits(u)' => u # t /\ Awaits(u)
    BY <2>1 DEF Awaits
  <2>5. Alone' => Alone
    BY <2>1 DEF Alone
  <2>6. \A u \in Threads : pc'[u] = "running" => u # t /\ pc[u] = "running"
    BY <2>1
  <2> QED BY <1>1, <2>2, <2>3, <2>4, <2>5, <2>6 DEF IInv
<1>3. CASE ~ShouldStop /\ Queued # {}
  <2>1. /\ pc' \in [Threads -> Places] /\ pc'[t] = "wait_until"
        /\ \A u \in Threads \ {t} : pc'[u] = pc[u]
    BY <1>3 DEF Evaluate, IInv, TypeInv, Places
  <2>2. PICK k \in First : until' = [until EXCEPT ![t] = taskQueue[k]]
    BY <1>3, FirstExists DEF Evaluate, IInv
  <2>3. k \in Queued /\ taskQueue[k] \in Times /\ taskQueue[k] \in Int
    BY <2>2 DEF First, Queued, IInv, TypeInv, Times
  <2>4. /\ until' \in [Threads -> Times \cup {None}] /\ until'[t] = taskQueue[k]
        /\ \A u \in Threads \ {t} : until'[u] = until[u]
    BY <2>2, <2>3 DEF IInv, TypeInv
  <2>5. TypeInv'
    BY <1>1, <2>1, <2>4 DEF IInv, TypeInv
  <2>6. \A u \in Threads : Awaits(u)' => u = t \/ Awaits(u)
    BY <2>1 DEF Awaits
  <2>7. Alone' => Alone
    BY <2>1 DEF Alone
  <2>8. \A u \in Threads : pc'[u] = "running" => u # t /\ pc[u] = "running"
    BY <2>1
  <2>9. \A u \in Threads : Awaits(u)' => until'[u] \in Times
    BY <2>3, <2>4, <2>6 DEF IInv
  <2>10. taskQueue[k] <= until'[t]
    BY <2>3, <2>4
  <2> QED BY <1>1, <2>3, <2>4, <2>5, <2>6, <2>7, <2>8, <2>9, <2>10 DEF IInv
<1> QED BY <1>2, <1>3

\* A wait ends, but the thread has not the mutex yet.
LEMMA WokenInv ==
    ASSUME IInv, NEW S \in SUBSET Waiting, pc' = Woken(S),
           UNCHANGED <<now, taskQueue, until, task, called>>
    PROVE  IInv'
<1>1. \A t \in Threads : pc'[t] = IF t \notin S THEN pc[t] ELSE IF pc[t] = "wait" THEN "loop" ELSE "woken"
  BY DEF Woken
<1>2. \A t \in S : t \in Threads /\ pc[t] \in {"wait", "wait_until"}
  BY DEF Waiting
<1>3. pc' \in [Threads -> Places]
  BY DEF Woken, Places, IInv, TypeInv
<1>4. Queued' = Queued
  BY DEF Queued
<1>5. TypeInv'
  BY <1>3, <1>4 DEF IInv, TypeInv
<1>6. \A t \in Threads : /\ Awaits(t)' => Awaits(t)
                         /\ pc'[t] = "running" => pc[t] = "running"
                         /\ pc'[t] = "absent" => pc[t] = "absent"
  BY <1>1, <1>2 DEF Awaits
<1>7. Alone' => Alone
  BY <1>6 DEF Alone
<1> QED BY <1>4, <1>5, <1>6, <1>7 DEF IInv

\* The first task is due, since its time is no later than that of the task
\* the thread waited for.
LEMMA RunInv ==
    ASSUME IInv, NEW t \in Threads, pc[t] = "woken", until[t] <= now, NEW k \in First,
           task' = [task EXCEPT ![t] = [id |-> k, due |-> taskQueue[k]]],
           taskQueue' = [taskQueue EXCEPT ![k] = None],
           pc' = [pc EXCEPT ![t] = "running"], until' = [until EXCEPT ![t] = None],
           now' = now, called' = called
    PROVE  IInv'
<1>1. k \in Tasks /\ k \in Queued /\ taskQueue[k] \in Times /\ Times \subseteq Int
  BY DEF First, Queued, IInv, TypeInv, Times
<1>2. Queued' \subseteq Queued
  BY <1>1 DEF Queued, IInv, TypeInv
<1>3. TypeInv'
  BY <1>1, <1>2 DEF IInv, TypeInv, Places
<1>4. /\ pc'[t] = "running" /\ task'[t].due = taskQueue[k]
      /\ \A u \in Threads \ {t} : pc'[u] = pc[u] /\ until'[u] = until[u] /\ task'[u] = task[u]
  BY DEF IInv, TypeInv
<1>5. \A u \in Threads : Awaits(u)' => u # t /\ Awaits(u)
  BY <1>4 DEF Awaits
<1>6. ASSUME Alone'
      PROVE  \A u \in Threads : /\ ~Awaits(u)'
                                /\ pc'[u] = "running" => task'[u].due <= now
  <2>1. \A u \in Threads \ {t} : pc'[u] = "absent"
    BY <1>4, <1>6 DEF Alone
  <2>2. Alone
    BY <1>4, <1>6 DEF Alone
  <2>3. PICK l \in Queued : taskQueue[l] <= until[t]
    BY <2>2 DEF IInv, Awaits
  <2>4. taskQueue[l] \in Times /\ until[t] \in Times /\ now \in Int
    BY <2>3 DEF IInv, TypeInv, Queued, Awaits
  <2>5. taskQueue[k] <= taskQueue[l]
    BY <2>3 DEF First
  <2>6. taskQueue[k] <= now
    <3>1. taskQueue[k] \in Int /\ taskQueue[l] \in Int /\ until[t] \in Int
      BY <1>1, <2>4
    <3> QED BY <2>3, <2>4, <2>5, <3>1
  <2> QED BY <1>4, <2>1, <2>6 DEF Awaits
<1>7. \A u \in Threads : /\ Awaits(u)' => until'[u] \in Times
                         /\ pc'[u] = "running" => task'[u].due \in Times
  BY <1>1, <1>4, <1>5 DEF IInv
<1> QED BY <1>3, <1>6, <1>7 DEF IInv

LEMMA NextInv == IInv /\ [Next]_vars => IInv'
<1> SUFFICES ASSUME IInv, [Next]_vars PROVE IInv'
  OBVIOUS
<1>1. ASSUME NEW t \in Threads, ServiceQueue(t) PROVE IInv'
  BY <1>1, EvaluateInv DEF ServiceQueue, callers, IInv, TypeInv
<1>2. ASSUME NEW t \in Threads, WaitUntil(t) PROVE IInv'
  <2>1. pc[t] = "woken" /\ now' = now /\ called' = called
    BY <1>2 DEF WaitUntil, callers
  <2>2. CASE Evaluate(t) /\ UNCHANGED <<taskQueue, task>>
    BY <2>1, <2>2, EvaluateInv DEF IInv, TypeInv
  <2>3. CASE ~(Evaluate(t) /\ UNCHANGED <<taskQueue, task>>)
    <3>1. PICK k \in First :
            /\ until[t] <= now
            /\ task' = [task EXCEPT ![t] = [id |-> k, due |-> taskQueue[k]]]
            /\ taskQueue' = [taskQueue EXCEPT ![k] = None]
            /\ pc' = [pc EXCEPT ![t] = "running"] /\ until' = [until EXCEPT ![t] = None]
      BY <1>2, <2>3 DEF WaitUntil
    <3> QED BY <2>1, <3>1, RunInv
  <2> QED BY <2>2, <2>3
<1>3. ASSUME NEW t \in Threads, Finish(t) PROVE IInv'
  <2>1. /\ task' \in [Threads -> [id : Tasks, due : Times] \cup {None}]
        /\ \A u \in Threads \ {t} : task'[u] = task[u]
    BY <1>3 DEF Finish, IInv, TypeInv
  <2> QED BY <1>3, <2>1, EvaluateInv DEF Finish, callers
<1>4. ASSUME NEW t \in Threads, TimeOut(t) \/ WakeUp(t) PROVE IInv'
  <2>1. {t} \in SUBSET Waiting /\ pc' = Woken({t})
    BY <1>4 DEF TimeOut, WakeUp, Waiting
  <2>2. UNCHANGED <<now, taskQueue, until, task, called>>
    BY <1>4 DEF TimeOut, WakeUp, callers
  <2> QED BY <2>1, <2>2, WokenInv
<1>5. CASE NotifyOne
  <2>1. PICK S \in IF Waiting = {} THEN {{}} ELSE {{t} : t \in Waiting} : pc' = Woken(S)
    BY <1>5 DEF NotifyOne
  <2>2. S \in SUBSET Waiting
    BY <2>1
  <2>3. UNCHANGED <<now, taskQueue, until, task, called>>
    BY <1>5 DEF NotifyOne, callers
  <2> QED BY <2>1, <2>2, <2>3, WokenInv
<1>6. CASE NotifyAll
  BY <1>6, WokenInv DEF NotifyAll, callers
<1>7. ASSUME NEW k \in Tasks, NEW time \in 0 .. MaxTime, Schedule(k, time) PROVE IInv'
  <2>1. /\ k \notin Queued /\ time \in Times /\ time # None
        /\ taskQueue' = [taskQueue EXCEPT ![k] = time] /\ called' = called \cup {k}
    BY <1>7, TimeAssumption DEF Schedule, IInv, TypeInv, Times
  <2>2. \A l \in Queued : l # k /\ l \in Queued' /\ taskQueue'[l] = taskQueue[l]
    BY <2>1 DEF Queued, IInv, TypeInv
  <2>3. TypeInv'
    <3>1. Queued' \subseteq Queued \cup {k}
      BY <2>1 DEF Queued, IInv, TypeInv
    <3> QED BY <1>7, <2>1, <3>1 DEF Schedule, IInv, TypeInv
  <2>4. UNCHANGED <<now, pc, until, task>>
    BY <1>7 DEF Schedule
  <2>5. (Alone' <=> Alone) /\ \A t \in Threads : Awaits(t)' <=> Awaits(t)
    BY <2>4 DEF Alone, Awaits
  <2> QED BY <2>2, <2>3, <2>4, <2>5 DEF IInv
<1>8. ASSUME NEW delta \in 1 .. MaxTime, MockForward(delta) PROVE IInv'
  <2>1. /\ \A l \in Queued : taskQueue'[l] = taskQueue[l] - delta /\ taskQueue'[l] \in Times
        /\ taskQueue' = [l \in Tasks |-> IF l \in Queued THEN taskQueue[l] - delta ELSE None]
    BY <1>8 DEF MockForward, Queued
  <2>2. Queued' = Queued
    BY <2>1, TimeAssumption DEF Queued, Times
  <2>3. UNCHANGED <<now, pc, until, task, called>>
    BY <1>8 DEF MockForward, callers
  <2>4. TypeInv'
    BY <2>1, <2>2, <2>3 DEF IInv, TypeInv
  <2>5. (Alone' <=> Alone) /\ \A t \in Threads : Awaits(t)' <=> Awaits(t)
    BY <2>3 DEF Alone, Awaits
  <2>6. \A l \in Queued : taskQueue[l] \in Int
    BY DEF IInv, TypeInv, Queued, Times
  <2>7. \A t \in Threads, l \in Queued :
          Awaits(t) /\ taskQueue[l] <= until[t] => taskQueue'[l] <= until[t]
    <3>1. \A t \in Threads : Awaits(t) => until[t] \in Int
      BY DEF IInv, Times
    <3> QED BY <2>1, <2>6, <3>1
  <2> QED BY <2>2, <2>3, <2>4, <2>5, <2>7 DEF IInv
<1>9. ASSUME UNCHANGED <<taskQueue, pc, until, task, called>>, now' \in {now, now + 1}
      PROVE  IInv'
  <2>1. Queued' = Queued /\ (Alone' <=> Alone) /\ \A t \in Threads : Awaits(t)' <=> Awaits(t)
    BY <1>9 DEF Queued, Alone, Awaits
  <2>2. TypeInv'
    BY <1>9, <2>1 DEF IInv, TypeInv
  <2>3. ASSUME NEW t \in Threads, Alone, pc[t] = "running" PROVE task[t].due <= now'
    <3>1. task[t].due <= now /\ now \in Int
      BY <2>3 DEF IInv, TypeInv
    <3>2. task[t].due \in Int
      BY <2>3 DEF IInv, Times
    <3> QED BY <1>9, <3>1, <3>2
  <2> QED BY <1>9, <2>1, <2>2, <2>3 DEF IInv
<1>10. CASE Tick
  BY <1>9, <1>10 DEF Tick, callers
<1>11. CASE Stop \/ StopWhenDrained
  BY <1>9, <1>11 DEF Stop, StopWhenDrained
<1>12. CASE UNCHANGED vars
  BY <1>9, <1>12 DEF vars
<1> QED BY <1>1, <1>2, <1>3, <1>4, <1>5, <1>6, <1>7, <1>8, <1>10, <1>11, <1>12 DEF Next, Step

\* The inductive invariant of the queue and of the threads that wait.
THEOREM Invariance == Spec => []IInv
BY InitInv, NextInv, PTL DEF Spec

\* schedule: "Call func at/after time t".  With one thread in serviceQueue that
\* holds whatever else is scheduled, and after any MockForward, spurious
\* wake-up or notification that comes late.
THEOREM NotBeforeItsTimeSafe == Spec => []NotBeforeItsTimeAlone
<1>1. IInv => NotBeforeItsTimeAlone
  BY DEF IInv, NotBeforeItsTimeAlone, NotBeforeItsTime
<1> QED BY <1>1, Invariance, PTL
=============================================================================
