-------------------------- MODULE SchedulerClient ---------------------------
(***************************************************************************)
(* SingleThreadedSchedulerClient: callbacks that several threads add are   *)
(* executed by the threads of a CScheduler, which may be more than one.    *)
(*                                                                         *)
(* A step is a critical section of m_cs_callbacks_pending, a call of       *)
(* schedule, or the callback itself.  Of the scheduler, only the number of *)
(* scheduled calls of ProcessQueue matters: each is run, once, by some     *)
(* thread, until the scheduler is stopped.  EmptyQueue is called after its *)
(* threads and the clients have been joined.  What the thread that called  *)
(* it adds afterwards is dropped.                                          *)
(***************************************************************************)
EXTENDS Integers, Sequences

CONSTANTS Servants,   \* threads in serviceQueue
          Clients,    \* threads that call AddToProcessQueue until they are joined
          Main,       \* the thread that calls EmptyQueue, and AddToProcessQueue before and after
          Callbacks, None

Threads == Servants \cup Clients \cup {Main}

ASSUME ThreadsAssumption ==
    /\ Servants \cap Clients = {} /\ Main \notin Servants \cup Clients /\ None \notin Callbacks

VARIABLES pending,    \* m_callbacks_pending
          running,    \* m_are_callbacks_running
          scheduled,  \* calls of ProcessQueue in the scheduler
          stopped,    \* whether the scheduler was stopped
          pc,         \* where each thread is
          callback,   \* the callback that a thread executes
          phase,      \* "before", "in" or "after" EmptyQueue
          added,      \* the callbacks that were added
          late        \* those added after EmptyQueue returned, in order

vars == <<pending, running, scheduled, stopped, pc, callback, phase, added, late>>

Init ==
    /\ pending = <<>> /\ running = FALSE /\ scheduled = 0 /\ stopped = FALSE
    /\ phase = "before" /\ added = {} /\ late = <<>>
    /\ pc = [t \in Threads |-> "idle"] /\ callback = [t \in Threads |-> None]
-----------------------------------------------------------------------------
\* A client calls it until it is joined, before EmptyQueue; the main thread also
\* after it, when it writes the chain state; a callback may call it as well.
MayAdd(t) == \/ t \in Clients /\ pc[t] = "idle" /\ phase = "before"
             \/ t = Main /\ pc[t] = "idle"
             \/ pc[t] = "callback"

\* In a callback, MaybeScheduleProcessQueue returns at once: callbacks are running.
AfterAdd(t) == IF pc[t] = "callback" THEN "callback" ELSE "maybe"

\* Variant that adds the callback at the wrong end.
AddToProcessQueueFirst(t, c) ==
    /\ MayAdd(t)
    /\ pending' = <<c>> \o pending /\ added' = added \cup {c}
    /\ late' = IF phase = "after" THEN Append(late, c) ELSE late
    /\ pc' = [pc EXCEPT ![t] = AfterAdd(t)]
    /\ UNCHANGED <<running, scheduled, stopped, callback, phase>>

AddToProcessQueue(t, c) ==
    /\ MayAdd(t)
    /\ pending' = Append(pending, c) /\ added' = added \cup {c}
    /\ late' = IF phase = "after" THEN Append(late, c) ELSE late
    /\ pc' = [pc EXCEPT ![t] = AfterAdd(t)]
    /\ UNCHANGED <<running, scheduled, stopped, callback, phase>>

\* Where a thread goes when ProcessQueue or AddToProcessQueue is done.
Back(t) == IF t = Main /\ phase = "in" THEN "empty" ELSE "idle"

\* Variant that does not schedule while there may be a ProcessQueue to come.
MaybeScheduleProcessQueueOnce(t) ==
    /\ pc[t] = "maybe"
    /\ pc' = [pc EXCEPT ![t] = IF running \/ pending = <<>> \/ Len(pending) > 1
                               THEN Back(t) ELSE "schedule"]
    /\ UNCHANGED <<pending, running, scheduled, stopped, callback, phase, added, late>>

MaybeScheduleProcessQueue(t) ==
    /\ pc[t] = "maybe"
    /\ pc' = [pc EXCEPT ![t] = IF running \/ pending = <<>> THEN Back(t) ELSE "schedule"]
    /\ UNCHANGED <<pending, running, scheduled, stopped, callback, phase, added, late>>

Schedule(t) ==
    /\ pc[t] = "schedule"
    /\ scheduled' = scheduled + 1
    /\ pc' = [pc EXCEPT ![t] = Back(t)]
    /\ UNCHANGED <<pending, running, stopped, callback, phase, added, late>>

\* The scheduler calls ProcessQueue.
Service(t) ==
    /\ pc[t] = "idle" /\ scheduled > 0 /\ ~stopped
    /\ scheduled' = scheduled - 1
    /\ pc' = [pc EXCEPT ![t] = "process"]
    /\ UNCHANGED <<pending, running, stopped, callback, phase, added, late>>

\* Variant of ProcessQueue that relies on being scheduled one at a time.
ProcessQueueUnguarded(t) ==
    /\ pc[t] = "process"
    /\ IF pending = <<>>
       THEN pc' = [pc EXCEPT ![t] = Back(t)] /\ UNCHANGED <<pending, running, callback>>
       ELSE /\ running' = TRUE
            /\ callback' = [callback EXCEPT ![t] = Head(pending)] /\ pending' = Tail(pending)
            /\ pc' = [pc EXCEPT ![t] = "callback"]
    /\ UNCHANGED <<scheduled, stopped, phase, added, late>>

ProcessQueue(t) ==
    /\ pc[t] = "process"
    /\ IF running \/ pending = <<>>
       THEN pc' = [pc EXCEPT ![t] = Back(t)] /\ UNCHANGED <<pending, running, callback>>
       ELSE /\ running' = TRUE
            /\ callback' = [callback EXCEPT ![t] = Head(pending)] /\ pending' = Tail(pending)
            /\ pc' = [pc EXCEPT ![t] = "callback"]
    /\ UNCHANGED <<scheduled, stopped, phase, added, late>>

\* The callback returns or throws.
Executed(t) ==
    /\ pc[t] = "callback"
    /\ callback' = [callback EXCEPT ![t] = None] /\ pc' = [pc EXCEPT ![t] = "executed"]
    /\ UNCHANGED <<pending, running, scheduled, stopped, phase, added, late>>

\* Variant of the destructor that does not reset the flag.
CallbacksRunningStays(t) ==
    /\ pc[t] = "executed"
    /\ pc' = [pc EXCEPT ![t] = "maybe"]
    /\ UNCHANGED <<pending, running, scheduled, stopped, callback, phase, added, late>>

\* ~RAIICallbacksRunning.
CallbacksRunning(t) ==
    /\ pc[t] = "executed"
    /\ running' = FALSE /\ pc' = [pc EXCEPT ![t] = "maybe"]
    /\ UNCHANGED <<pending, scheduled, stopped, callback, phase, added, late>>
-----------------------------------------------------------------------------
Stop == /\ ~stopped /\ stopped' = TRUE
        /\ UNCHANGED <<pending, running, scheduled, pc, callback, phase, added, late>>

\* FlushBackgroundCallbacks, when all other threads have been joined.
EmptyQueue ==
    /\ stopped /\ phase = "before" /\ \A t \in Threads : pc[t] = "idle"
    /\ pc' = [pc EXCEPT ![Main] = "process"] /\ phase' = "in"
    /\ UNCHANGED <<pending, running, scheduled, stopped, callback, added, late>>

\* Variant of ShouldContinue that processes one callback.
ShouldContinueOnce ==
    /\ pc[Main] = "empty"
    /\ pc' = [pc EXCEPT ![Main] = "idle"] /\ phase' = "after"
    /\ UNCHANGED <<pending, running, scheduled, stopped, callback, added, late>>

ShouldContinue ==
    /\ pc[Main] = "empty"
    /\ IF pending = <<>>
       THEN pc' = [pc EXCEPT ![Main] = "idle"] /\ phase' = "after"
       ELSE pc' = [pc EXCEPT ![Main] = "process"] /\ UNCHANGED phase
    /\ UNCHANGED <<pending, running, scheduled, stopped, callback, added, late>>
-----------------------------------------------------------------------------
Step(t) == \/ MaybeScheduleProcessQueue(t) \/ Schedule(t) \/ ProcessQueue(t) \/ Executed(t)
           \/ CallbacksRunning(t)

Next == \/ \E t \in Threads : Step(t)
        \/ \E t \in Servants : Service(t)
        \/ \E t \in Threads, c \in Callbacks \ added : AddToProcessQueue(t, c)
        \/ Stop \/ EmptyQueue \/ ShouldContinue

Spec == Init /\ [][Next]_vars

\* Threads go on, callbacks return, and EmptyQueue is called after a stop.
FairSpec == /\ Spec /\ \A t \in Threads : WF_vars(Step(t))
            /\ \A t \in Servants : WF_vars(Service(t))
            /\ WF_vars(EmptyQueue) /\ WF_vars(ShouldContinue)
-----------------------------------------------------------------------------
TypeOK ==
    /\ pending \in Seq(Callbacks) /\ late \in Seq(Callbacks) /\ added \subseteq Callbacks
    /\ running \in BOOLEAN /\ stopped \in BOOLEAN /\ scheduled \in Nat
    /\ pc \in [Threads -> {"idle", "maybe", "schedule", "process", "callback", "executed",
                           "empty"}]
    /\ phase \in {"before", "in", "after"}
    /\ callback \in [Threads -> Callbacks \cup {None}]

\* AddToProcessQueue: "callbacks can behave as if they are executed in order
\* by a single thread".
Serial == \A t, u \in Threads : pc[t] = "callback" /\ pc[u] = "callback" => t = u

\* MaybeScheduleProcessQueue tries "to avoid scheduling too many copies": until
\* EmptyQueue has returned it never leaves a callback that no thread is going to
\* look at.
NotStranded ==
    pending # <<>> /\ phase # "after" => scheduled > 0 \/ \E t \in Threads : pc[t] # "idle"

\* EmptyQueue: "Processes all remaining queue members on the calling thread,
\* blocking until queue is empty", those that the callbacks add included, and
\* Shutdown: "Any future callbacks will be dropped".  Once it has returned, the
\* queue holds what was added since, all of it, and no callback is executed.
Emptied == phase = "after" => pending = late /\ ~running

Current == IF \E t \in Threads : pc[t] = "callback"
           THEN callback[CHOOSE t \in Threads : pc[t] = "callback"] ELSE None

Executor == INSTANCE SerialExecutor WITH queue <- pending, current <- Current

\* The callbacks are executed one at a time in the order they were added.
ImplementsExecutor == Executor!Spec

\* A callback that is added before EmptyQueue returns has been executed in the
\* end, by the scheduler or by EmptyQueue.
AllExecuted == \A c \in Callbacks :
    c \in added /\ phase # "after" ~>
      (\A i \in 1 .. Len(pending) : pending[i] # c) /\ Current # c
=============================================================================
