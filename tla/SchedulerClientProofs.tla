----------------------- MODULE SchedulerClientProofs ------------------------
(***************************************************************************)
(* For any number of scheduler threads, clients and callbacks, the client  *)
(* of the scheduler is a serial executor and strands no callback.          *)
(***************************************************************************)
EXTENDS SchedulerClient, TLAPS

Busy(t) == pc[t] \in {"callback", "executed"}

\* The flag is set as long as one thread executes a callback.
Exclusive ==
    /\ \A t, u \in Threads : Busy(t) /\ Busy(u) => t = u
    /\ running <=> \E t \in Threads : Busy(t)
    /\ \A t \in Threads : pc[t] = "callback" => callback[t] \in Callbacks

\* Unless callbacks are running, some thread is going to look at the queue.
Attended ==
    pending # <<>> /\ ~running =>
      scheduled > 0 \/ \E t \in Threads : pc[t] \in {"maybe", "schedule", "process", "empty"}

\* When the main thread calls EmptyQueue the others have been joined.
Alone == /\ phase # "before" => stopped /\ \A t \in Threads \ {Main} : pc[t] = "idle"
         /\ phase # "in" => pc[Main] \in {"idle", "maybe", "schedule"}
         /\ phase # "after" => late = <<>>
         /\ \A t \in Threads : pc[t] = "empty" => t = Main

IInv == TypeOK /\ Exclusive /\ Attended /\ Alone /\ Emptied

LEMMA InitInv == Init => IInv
<1> SUFFICES ASSUME Init PROVE IInv
  OBVIOUS
<1>1. running \in BOOLEAN /\ stopped \in BOOLEAN
  BY Zenon DEF Init
<1>2. TypeOK
  BY <1>1 DEF Init, TypeOK
<1>3. Main \in Threads
  BY DEF Threads
<1> QED BY <1>2, <1>3 DEF Init, IInv, Exclusive, Attended, Alone, Emptied, Busy

\* What a step of thread t does to the other threads.
LEMMA Moves ==
    ASSUME TypeOK, NEW t \in Threads, NEW p, pc' = [pc EXCEPT ![t] = p]
    PROVE  pc'[t] = p /\ \A u \in Threads \ {t} : pc'[u] = pc[u]
BY DEF TypeOK

LEMMA AddInv ==
    ASSUME IInv, NEW t \in Threads, NEW c \in Callbacks, AddToProcessQueue(t, c)
    PROVE  IInv'
<1>1. pc'[t] = AfterAdd(t) /\ \A u \in Threads \ {t} : pc'[u] = pc[u]
  BY Moves DEF IInv, AddToProcessQueue
<1>2. TypeOK'
  BY DEF IInv, TypeOK, AddToProcessQueue, AfterAdd
<1>3. \A u \in Threads : Busy(u)' = Busy(u) /\ (pc'[u] = "callback") = (pc[u] = "callback")
  BY <1>1 DEF AddToProcessQueue, MayAdd, AfterAdd, Busy
<1>4. Exclusive'
  BY <1>3 DEF IInv, Exclusive, AddToProcessQueue
<1>5. Main \in Threads /\ Main \notin Clients
  BY ThreadsAssumption DEF Threads
<1>6. Attended'
  <2>1. CASE pc[t] = "callback"
    BY <2>1 DEF IInv, Exclusive, Attended, Busy, AddToProcessQueue
  <2>2. CASE pc[t] # "callback"
    BY <1>1, <2>2 DEF Attended, AfterAdd
  <2> QED BY <2>1, <2>2
<1>7. Alone' /\ Emptied'
  BY <1>1, <1>5 DEF IInv, Alone, Emptied, AddToProcessQueue, AfterAdd, MayAdd
<1> QED BY <1>2, <1>4, <1>6, <1>7 DEF IInv

LEMMA MaybeInv ==
    ASSUME IInv, NEW t \in Threads, MaybeScheduleProcessQueue(t)
    PROVE  IInv'
<1>1. t \in Threads /\ Main \in Threads
  BY DEF Threads
<1>2. \A u \in Threads \ {t} : pc'[u] = pc[u]
  BY <1>1 DEF IInv, TypeOK, MaybeScheduleProcessQueue
<1>3. TypeOK'
  BY <1>1 DEF IInv, TypeOK, MaybeScheduleProcessQueue, Back
<1>4. Exclusive'
  BY <1>1, <1>2 DEF IInv, TypeOK, Exclusive, MaybeScheduleProcessQueue, Busy, Back
<1>5. Attended'
  BY <1>1, <1>2 DEF IInv, TypeOK, Exclusive, Attended, MaybeScheduleProcessQueue, Busy, Back
<1>6. Alone' /\ Emptied'
  BY <1>1, <1>2, ThreadsAssumption DEF IInv, TypeOK, Exclusive, Alone, Emptied, MaybeScheduleProcessQueue, Busy, Back
<1> QED BY <1>3, <1>4, <1>5, <1>6 DEF IInv

LEMMA ScheduleInv ==
    ASSUME IInv, NEW t \in Threads, Schedule(t)
    PROVE  IInv'
<1>1. t \in Threads /\ Main \in Threads
  BY DEF Threads
<1>2. \A u \in Threads \ {t} : pc'[u] = pc[u]
  BY <1>1 DEF IInv, TypeOK, Schedule
<1>3. TypeOK'
  BY <1>1 DEF IInv, TypeOK, Schedule, Back
<1>4. Exclusive'
  BY <1>1, <1>2 DEF IInv, TypeOK, Exclusive, Schedule, Busy, Back
<1>5. Attended'
  BY <1>1, <1>2 DEF IInv, TypeOK, Exclusive, Attended, Schedule, Busy, Back
<1>6. Alone' /\ Emptied'
  BY <1>1, <1>2, ThreadsAssumption DEF IInv, TypeOK, Exclusive, Alone, Emptied, Schedule, Busy, Back
<1> QED BY <1>3, <1>4, <1>5, <1>6 DEF IInv

LEMMA ServiceInv ==
    ASSUME IInv, NEW t \in Servants, Service(t)
    PROVE  IInv'
<1>1. t \in Threads /\ Main \in Threads
  BY DEF Threads
<1>2. \A u \in Threads \ {t} : pc'[u] = pc[u]
  BY <1>1 DEF IInv, TypeOK, Service
<1>3. TypeOK'
  BY <1>1 DEF IInv, TypeOK, Service, Back
<1>4. Exclusive'
  BY <1>1, <1>2 DEF IInv, TypeOK, Exclusive, Service, Busy, Back
<1>5. Attended'
  BY <1>1, <1>2 DEF IInv, TypeOK, Exclusive, Attended, Service, Busy, Back
<1>6. Alone' /\ Emptied'
  BY <1>1, <1>2, ThreadsAssumption DEF IInv, TypeOK, Exclusive, Alone, Emptied, Service, Busy, Back
<1> QED BY <1>3, <1>4, <1>5, <1>6 DEF IInv

LEMMA ProcessInv ==
    ASSUME IInv, NEW t \in Threads, ProcessQueue(t)
    PROVE  IInv'
<1>1. t \in Threads /\ Main \in Threads
  BY DEF Threads
<1>2. \A u \in Threads \ {t} : pc'[u] = pc[u]
  BY <1>1 DEF IInv, TypeOK, ProcessQueue
<1>3. TypeOK'
  <2>1. CASE running \/ pending = <<>>
    BY <1>1, <2>1 DEF IInv, TypeOK, ProcessQueue, Back
  <2>2. CASE ~running /\ pending # <<>>
    <3>1. Head(pending) \in Callbacks /\ Tail(pending) \in Seq(Callbacks)
      BY <2>2 DEF IInv, TypeOK
    <3> QED BY <1>1, <2>2, <3>1 DEF IInv, TypeOK, ProcessQueue
  <2> QED BY <2>1, <2>2
<1>4. Exclusive'
  BY <1>1, <1>2 DEF IInv, TypeOK, Exclusive, ProcessQueue, Busy, Back
<1>5. Attended'
  BY <1>1, <1>2 DEF IInv, TypeOK, Exclusive, Attended, ProcessQueue, Busy, Back
<1>6. Alone' /\ Emptied'
  BY <1>1, <1>2, ThreadsAssumption DEF IInv, TypeOK, Exclusive, Alone, Emptied, ProcessQueue, Busy, Back
<1> QED BY <1>3, <1>4, <1>5, <1>6 DEF IInv

LEMMA ExecutedInv ==
    ASSUME IInv, NEW t \in Threads, Executed(t)
    PROVE  IInv'
<1>1. t \in Threads /\ Main \in Threads
  BY DEF Threads
<1>2. \A u \in Threads \ {t} : pc'[u] = pc[u]
  BY <1>1 DEF IInv, TypeOK, Executed
<1>3. TypeOK'
  BY <1>1 DEF IInv, TypeOK, Executed, Back
<1>4. Exclusive'
  BY <1>1, <1>2 DEF IInv, TypeOK, Exclusive, Executed, Busy, Back
<1>5. Attended'
  BY <1>1, <1>2 DEF IInv, TypeOK, Exclusive, Attended, Executed, Busy, Back
<1>6. Alone' /\ Emptied'
  BY <1>1, <1>2, ThreadsAssumption DEF IInv, TypeOK, Exclusive, Alone, Emptied, Executed, Busy, Back
<1> QED BY <1>3, <1>4, <1>5, <1>6 DEF IInv

LEMMA ResetInv ==
    ASSUME IInv, NEW t \in Threads, CallbacksRunning(t)
    PROVE  IInv'
<1>1. t \in Threads /\ Main \in Threads
  BY DEF Threads
<1>2. \A u \in Threads \ {t} : pc'[u] = pc[u]
  BY <1>1 DEF IInv, TypeOK, CallbacksRunning
<1>3. TypeOK'
  BY <1>1 DEF IInv, TypeOK, CallbacksRunning, Back
<1>4. Exclusive'
  BY <1>1, <1>2 DEF IInv, TypeOK, Exclusive, CallbacksRunning, Busy, Back
<1>5. Attended'
  BY <1>1, <1>2 DEF IInv, TypeOK, Exclusive, Attended, CallbacksRunning, Busy, Back
<1>6. Alone' /\ Emptied'
  BY <1>1, <1>2, ThreadsAssumption DEF IInv, TypeOK, Exclusive, Alone, Emptied, CallbacksRunning, Busy, Back
<1> QED BY <1>3, <1>4, <1>5, <1>6 DEF IInv

LEMMA StopInv ==
    ASSUME IInv, Stop
    PROVE  IInv'
<1>1. Main \in Threads
  BY DEF Threads
<1>3. TypeOK'
  BY <1>1 DEF IInv, TypeOK, Stop
<1>4. Exclusive'
  BY <1>1 DEF IInv, TypeOK, Exclusive, Stop, Busy
<1>5. Attended'
  BY <1>1 DEF IInv, TypeOK, Attended, Stop
<1>6. Alone' /\ Emptied'
  BY <1>1 DEF IInv, TypeOK, Exclusive, Alone, Emptied, Stop, Busy
<1> QED BY <1>3, <1>4, <1>5, <1>6 DEF IInv

LEMMA EmptyQueueInv ==
    ASSUME IInv, EmptyQueue
    PROVE  IInv'
<1>1. Main \in Threads
  BY DEF Threads
<1>3. TypeOK'
  BY <1>1 DEF IInv, TypeOK, EmptyQueue
<1>4. Exclusive'
  BY <1>1 DEF IInv, TypeOK, Exclusive, EmptyQueue, Busy
<1>5. Attended'
  BY <1>1 DEF IInv, TypeOK, Attended, EmptyQueue
<1>6. Alone' /\ Emptied'
  BY <1>1 DEF IInv, TypeOK, Exclusive, Alone, Emptied, EmptyQueue, Busy
<1> QED BY <1>3, <1>4, <1>5, <1>6 DEF IInv

LEMMA ShouldContinueInv ==
    ASSUME IInv, ShouldContinue
    PROVE  IInv'
<1>1. Main \in Threads
  BY DEF Threads
<1>3. TypeOK'
  BY <1>1 DEF IInv, TypeOK, ShouldContinue
<1>4. Exclusive'
  BY <1>1 DEF IInv, TypeOK, Exclusive, ShouldContinue, Busy
<1>5. Attended'
  BY <1>1 DEF IInv, TypeOK, Attended, ShouldContinue
<1>6. Alone' /\ Emptied'
  BY <1>1 DEF IInv, TypeOK, Exclusive, Alone, Emptied, ShouldContinue, Busy
<1> QED BY <1>3, <1>4, <1>5, <1>6 DEF IInv

\* The strengthened invariant holds in all reachable states.
THEOREM Invariance == Spec => []IInv
<1>1. Init => IInv
  BY InitInv
<1>2. IInv /\ [Next]_vars => IInv'
  <2> SUFFICES ASSUME IInv, [Next]_vars PROVE IInv'
    OBVIOUS
  <2>1. CASE UNCHANGED vars
    BY <2>1 DEF vars, IInv, TypeOK, Exclusive, Attended, Alone, Emptied, Busy
  <2>2. ASSUME NEW t \in Threads, Step(t) PROVE IInv'
    BY <2>2, MaybeInv, ScheduleInv, ProcessInv, ExecutedInv, ResetInv DEF Step
  <2> QED BY <2>1, <2>2, AddInv, ServiceInv, StopInv, EmptyQueueInv, ShouldContinueInv DEF Next
<1> QED BY <1>1, <1>2, PTL DEF Spec

\* The variables have their types.
THEOREM TypeCorrect == Spec => []TypeOK
<1>1. IInv => TypeOK
  BY DEF IInv
<1> QED BY <1>1, Invariance, PTL

\* No two threads execute callbacks at the same time.
THEOREM SerialSafe == Spec => []Serial
<1>1. IInv => Serial
  BY DEF IInv, Exclusive, Busy, Serial
<1> QED BY <1>1, Invariance, PTL

\* A callback in the queue is never forgotten by MaybeScheduleProcessQueue before
\* EmptyQueue has returned.
THEOREM NotStrandedSafe == Spec => []NotStranded
<1>1. IInv => NotStranded
  BY DEF IInv, Exclusive, Attended, Busy, NotStranded
<1> QED BY <1>1, Invariance, PTL

\* When EmptyQueue returns nothing is left of what was added before, and nothing
\* of what is added afterwards is executed.
THEOREM EmptiedSafe == Spec => []Emptied
<1>1. IInv => Emptied
  BY DEF IInv
<1> QED BY <1>1, Invariance, PTL
-----------------------------------------------------------------------------
\* The current callback is that of the thread that executes one.
LEMMA CurrentIs ==
    ASSUME IInv
    PROVE  /\ \A t \in Threads : pc[t] = "callback" => Current = callback[t]
           /\ (\A t \in Threads : pc[t] # "callback") => Current = None
BY DEF IInv, Exclusive, Busy, Current

LEMMA CurrentNext ==
    ASSUME IInv'
    PROVE  /\ \A t \in Threads : pc'[t] = "callback" => Current' = callback'[t]
           /\ (\A t \in Threads : pc'[t] # "callback") => Current' = None
BY DEF IInv, Exclusive, Busy, Current

\* A step in which no callback begins or ends.
LEMMA CurrentKept ==
    ASSUME IInv, IInv', callback' = callback,
           \A t \in Threads : (pc'[t] = "callback") = (pc[t] = "callback")
    PROVE  Current' = Current
BY CurrentIs, CurrentNext

LEMMA AddMaps ==
    ASSUME IInv, IInv', NEW t \in Threads, NEW c \in Callbacks, AddToProcessQueue(t, c)
    PROVE  Executor!Add(c)
<1>1. pc'[t] = AfterAdd(t) /\ \A u \in Threads \ {t} : pc'[u] = pc[u]
  BY Moves DEF IInv, AddToProcessQueue
<1>2. Current' = Current
  BY <1>1, CurrentKept DEF AddToProcessQueue, MayAdd, AfterAdd
<1> QED BY <1>2 DEF AddToProcessQueue, Executor!Add

LEMMA ProcessMaps ==
    ASSUME IInv, IInv', NEW t \in Threads, ProcessQueue(t)
    PROVE  Executor!Begin \/ UNCHANGED <<pending, Current>>
<1>1. \A u \in Threads \ {t} : pc'[u] = pc[u]
  BY DEF IInv, TypeOK, ProcessQueue
<1>2. CASE running \/ pending = <<>>
  <2>1. pc[t] = "process" /\ pc'[t] = Back(t) /\ UNCHANGED <<pending, callback>>
    BY <1>2 DEF IInv, TypeOK, ProcessQueue
  <2> QED BY <1>1, <2>1, CurrentKept DEF Back
<1>3. CASE ~running /\ pending # <<>>
  <2>1. /\ pc'[t] = "callback" /\ callback'[t] = Head(pending) /\ pending' = Tail(pending)
    BY <1>3 DEF IInv, TypeOK, ProcessQueue
  <2>2. Current = None /\ Current' = Head(pending)
    BY <1>3, <2>1, CurrentIs, CurrentNext DEF IInv, Exclusive, Busy
  <2> QED BY <1>3, <2>1, <2>2 DEF Executor!Begin
<1> QED BY <1>2, <1>3

LEMMA ExecutedMaps ==
    ASSUME IInv, IInv', NEW t \in Threads, Executed(t)
    PROVE  Executor!End
<1>1. pc[t] = "callback" /\ pc'[t] = "executed" /\ \A u \in Threads \ {t} : pc'[u] = pc[u]
  BY DEF IInv, TypeOK, Executed
<1>2. \A u \in Threads : pc'[u] # "callback"
  BY <1>1 DEF IInv, Exclusive, Busy
<1>3. Current # None /\ Current' = None
  BY <1>1, <1>2, CurrentIs, CurrentNext, ThreadsAssumption DEF IInv, Exclusive
<1> QED BY <1>3 DEF Executed, Executor!End

LEMMA OthersMap ==
    ASSUME IInv, IInv',
           \/ \E t \in Threads : MaybeScheduleProcessQueue(t) \/ Schedule(t) \/ CallbacksRunning(t)
           \/ \E t \in Servants : Service(t)
           \/ Stop \/ EmptyQueue \/ ShouldContinue
    PROVE  UNCHANGED <<pending, Current>>
<1>1. UNCHANGED <<pending, callback>>
  BY DEF MaybeScheduleProcessQueue, Schedule, CallbacksRunning, Service, Stop, EmptyQueue,
         ShouldContinue
<1>2. Main \in Threads /\ Servants \subseteq Threads
  BY DEF Threads
<1>3. \A u \in Threads : (pc'[u] = "callback") = (pc[u] = "callback")
  <2>1. ASSUME NEW t \in Threads, MaybeScheduleProcessQueue(t) \/ Schedule(t) \/ CallbacksRunning(t)
        PROVE  \A u \in Threads : (pc'[u] = "callback") = (pc[u] = "callback")
    BY <2>1 DEF IInv, TypeOK, MaybeScheduleProcessQueue, Schedule, CallbacksRunning, Back
  <2>2. ASSUME NEW t \in Servants, Service(t)
        PROVE  \A u \in Threads : (pc'[u] = "callback") = (pc[u] = "callback")
    BY <1>2, <2>2 DEF IInv, TypeOK, Service
  <2>3. CASE Stop \/ EmptyQueue \/ ShouldContinue
    BY <1>2, <2>3 DEF IInv, TypeOK, Stop, EmptyQueue, ShouldContinue
  <2> QED BY <2>1, <2>2, <2>3
<1> QED BY <1>1, <1>3, CurrentKept

\* Every step is a step of the executor or changes nothing it knows of.
LEMMA NextMaps ==
    ASSUME IInv, IInv', [Next]_vars
    PROVE  [Executor!Next]_<<pending, Current>>
<1>1. CASE UNCHANGED vars
  BY <1>1 DEF vars, Current
<1>2. ASSUME NEW t \in Threads, Step(t) PROVE [Executor!Next]_<<pending, Current>>
  BY <1>2, ProcessMaps, ExecutedMaps, OthersMap DEF Step, Executor!Next
<1>3. ASSUME NEW t \in Threads, NEW c \in Callbacks \ added, AddToProcessQueue(t, c)
      PROVE  Executor!Next
  BY <1>3, AddMaps DEF Executor!Next
<1> QED BY <1>1, <1>2, <1>3, OthersMap DEF Next

\* The callbacks run as if on one thread, in the order in which they were added.
THEOREM Refinement == Spec => ImplementsExecutor
<1>1. Init => Executor!Init
  BY DEF Init, Current, Executor!Init
<1>2. IInv /\ IInv' /\ [Next]_vars => [Executor!Next]_<<pending, Current>>
  BY NextMaps
<1> QED BY <1>1, <1>2, Invariance, PTL DEF Spec, ImplementsExecutor, Executor!Spec
=============================================================================
