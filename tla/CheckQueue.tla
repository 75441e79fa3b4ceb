----------------------------- MODULE CheckQueue -----------------------------
(***************************************************************************)
(* CCheckQueue and CCheckQueueControl of checkqueue.h: a thread that       *)
(* connects a block (a master) queues checks, which worker threads take in *)
(* batches; the master joins them until all checks are done and learns     *)
(* whether all of them succeeded.                                          *)
(*                                                                         *)
(* A step is what a thread does in one critical section of mutex, from the *)
(* clean-up after a batch to the next batch, wait or return; the checks of *)
(* a batch run outside it.  Waiting on a condition variable may end        *)
(* without a notification.  A worker may be interrupted where it waits     *)
(* (boost::thread_interrupted), which leaves nIdle and nTotal as they are. *)
(* The queue is a set: which checks a batch takes from it does not matter. *)
(***************************************************************************)
EXTENDS Integers, FiniteSets

CONSTANTS Workers, Masters, \* threads
          Checks,
          Failing,          \* the checks that return false
          BatchSize,        \* nBatchSize
          None

Threads == Workers \cup Masters

ASSUME CheckQueueAssumption ==
    /\ IsFiniteSet(Checks) /\ Failing \subseteq Checks /\ BatchSize \in Nat \ {0}
    /\ Workers \cap Masters = {} /\ None \notin Threads

VARIABLES queue, nIdle, nTotal, fAllOk, nTodo,
          control,  \* the master that holds ControlMutex, or None
          pc,       \* where each thread is
          vChecks,  \* the batch of each thread, nNow of them
          fOk,      \* its result
          result,   \* what Wait returned to the master
          added     \* the checks added under the present control

vars == <<queue, nIdle, nTotal, fAllOk, nTodo, control, pc, vChecks, fOk, result, added>>

Init ==
    /\ queue = {} /\ nIdle = 0 /\ nTotal = 0 /\ fAllOk = TRUE /\ nTodo = 0
    /\ control = None /\ result = TRUE /\ added = {}
    /\ pc = [t \in Threads |-> IF t \in Workers THEN "enter" ELSE "outside"]
    /\ vChecks = [t \in Threads |-> {}] /\ fOk = [t \in Threads |-> TRUE]
-----------------------------------------------------------------------------
\* The controls of the masters, and Add.

Control(m) ==
    /\ pc[m] = "outside" /\ control = None
    /\ control' = m /\ added' = {} /\ pc' = [pc EXCEPT ![m] = "adding"]
    /\ UNCHANGED <<queue, nIdle, nTotal, fAllOk, nTodo, vChecks, fOk, result>>

\* notify_one wakes some waiting worker, notify_all all of them.
Waiting == {w \in Workers : pc[w] = "waiting"}

Woken(S) == [t \in Threads |-> IF t \in S THEN "woken" ELSE pc[t]]

Notified(S) ==
    IF Cardinality(S) = 1 /\ Waiting # {} THEN {{w} : w \in Waiting} ELSE {Waiting}

\* Variant of Add that counts only what was queued before.
AddUncounted(m, S) ==
    /\ pc[m] = "adding" /\ S # {}
    /\ queue' = queue \cup S /\ added' = added \cup S
    /\ nTodo' = Cardinality(queue)
    /\ \E W \in Notified(S) : pc' = Woken(W)
    /\ UNCHANGED <<nIdle, nTotal, fAllOk, control, vChecks, fOk, result>>

Add(m, S) ==
    /\ pc[m] = "adding" /\ S # {}
    /\ queue' = queue \cup S /\ added' = added \cup S
    /\ nTodo' = nTodo + Cardinality(S)
    /\ \E W \in Notified(S) : pc' = Woken(W)
    /\ UNCHANGED <<nIdle, nTotal, fAllOk, control, vChecks, fOk, result>>

\* CCheckQueueControl::Wait, when the master has added all its checks, or by the
\* destructor when ConnectBlock returns early.
Wait(m) ==
    /\ pc[m] = "adding" /\ pc' = [pc EXCEPT ![m] = "enter"]
    /\ UNCHANGED <<queue, nIdle, nTotal, fAllOk, nTodo, control, vChecks, fOk, result, added>>

\* The rest of the destructor.
Leave(m) ==
    /\ pc[m] = "returned"
    /\ control' = None /\ pc' = [pc EXCEPT ![m] = "outside"]
    /\ UNCHANGED <<queue, nIdle, nTotal, fAllOk, nTodo, vChecks, fOk, result, added>>
-----------------------------------------------------------------------------
(* Loop.  After the clean-up the fields are ok, todo, total and idle, and  *)
(* the threads are at pcs.                                                 *)

MaxOf(a, b) == IF a >= b THEN a ELSE b
MinOf(a, b) == IF a <= b THEN a ELSE b
Batch(size, total, idle) == MaxOf(1, MinOf(BatchSize, size \div (total + idle + 1)))

\* A batch of the queue, which need not be run once a check has failed.
Take(t, ok, todo, total, idle, pcs) ==
    /\ \E b \in SUBSET queue :
         /\ Cardinality(b) = Batch(Cardinality(queue), total, idle)
         /\ vChecks' = [vChecks EXCEPT ![t] = b] /\ queue' = queue \ b
    /\ fOk' = [fOk EXCEPT ![t] = ok] /\ pc' = [pcs EXCEPT ![t] = "working"]
    /\ fAllOk' = ok /\ nTodo' = todo /\ nTotal' = total /\ nIdle' = idle
    /\ UNCHANGED <<control, result, added>>

\* Variant of Return that does not reset fAllOk.
ReturnKeeps(t, ok, todo, total, idle, pcs) ==
    /\ queue = {} /\ t \in Masters /\ todo = 0
    /\ result' = ok /\ fAllOk' = ok
    /\ nTotal' = total - 1 /\ nTodo' = todo /\ nIdle' = idle
    /\ vChecks' = [vChecks EXCEPT ![t] = {}] /\ pc' = [pcs EXCEPT ![t] = "returned"]
    /\ UNCHANGED <<queue, control, fOk, added>>

\* Variant of Return that looks at the queue only.
ReturnEarly(t, ok, todo, total, idle, pcs) ==
    /\ queue = {} /\ t \in Masters
    /\ result' = ok /\ fAllOk' = TRUE
    /\ nTotal' = total - 1 /\ nTodo' = todo /\ nIdle' = idle
    /\ vChecks' = [vChecks EXCEPT ![t] = {}] /\ pc' = [pcs EXCEPT ![t] = "returned"]
    /\ UNCHANGED <<queue, control, fOk, added>>

Return(t, ok, todo, total, idle, pcs) ==
    /\ queue = {} /\ t \in Masters /\ todo = 0
    /\ result' = ok /\ fAllOk' = TRUE
    /\ nTotal' = total - 1 /\ nTodo' = todo /\ nIdle' = idle
    /\ vChecks' = [vChecks EXCEPT ![t] = {}] /\ pc' = [pcs EXCEPT ![t] = "returned"]
    /\ UNCHANGED <<queue, control, fOk, added>>

CondWait(t, ok, todo, total, idle, pcs) ==
    /\ queue = {} /\ ~(t \in Masters /\ todo = 0)
    /\ nIdle' = idle + 1
    /\ fAllOk' = ok /\ nTodo' = todo /\ nTotal' = total
    /\ vChecks' = [vChecks EXCEPT ![t] = {}] /\ pc' = [pcs EXCEPT ![t] = "waiting"]
    /\ UNCHANGED <<queue, control, fOk, result, added>>

Iterate(t, ok, todo, total, idle, pcs) ==
    \/ queue # {} /\ Take(t, ok, todo, total, idle, pcs)
    \/ Return(t, ok, todo, total, idle, pcs)
    \/ CondWait(t, ok, todo, total, idle, pcs)

\* The first iteration.
Enter(t) == pc[t] = "enter" /\ Iterate(t, fAllOk, nTodo, nTotal + 1, nIdle, pc)

\* cond.wait returns.
Resume(t) == pc[t] = "woken" /\ Iterate(t, fAllOk, nTodo, nTotal, nIdle - 1, pc)

\* The checks of a batch, until one fails; none if one had failed before.
Work(t) ==
    /\ pc[t] = "working"
    /\ fOk' = [fOk EXCEPT ![t] = @ /\ vChecks[t] \cap Failing = {}]
    /\ pc' = [pc EXCEPT ![t] = "worked"]
    /\ UNCHANGED <<queue, nIdle, nTotal, fAllOk, nTodo, control, vChecks, result, added>>

\* Variant of Worked that does not notify the master.
WorkedSilently(t) ==
    /\ pc[t] = "worked"
    /\ Iterate(t, fAllOk /\ fOk[t], nTodo - Cardinality(vChecks[t]), nTotal, nIdle, pc)

\* The clean-up of a batch, with condMaster.notify_one.
Worked(t) ==
    /\ pc[t] = "worked"
    /\ LET todo == nTodo - Cardinality(vChecks[t])
           masters == {m \in Masters : pc[m] = "waiting" /\ todo = 0 /\ t \notin Masters}
       IN  Iterate(t, fAllOk /\ fOk[t], todo, nTotal, nIdle, Woken(masters))

\* A spurious wake-up, and an interruption.
WakeUp(t) ==
    /\ pc[t] = "waiting" /\ pc' = [pc EXCEPT ![t] = "woken"]
    /\ UNCHANGED <<queue, nIdle, nTotal, fAllOk, nTodo, control, vChecks, fOk, result, added>>

\* cond.wait throws, also in a worker that was notified and has not yet returned
\* from it.
Interrupted(w) ==
    /\ pc[w] \in {"waiting", "woken"} /\ pc' = [pc EXCEPT ![w] = "interrupted"]
    /\ UNCHANGED <<queue, nIdle, nTotal, fAllOk, nTodo, control, vChecks, fOk, result, added>>
-----------------------------------------------------------------------------
Loop(t) == Enter(t) \/ Resume(t) \/ Work(t) \/ Worked(t)

Next == \/ \E t \in Threads : Loop(t) \/ WakeUp(t)
        \/ \E w \in Workers : Interrupted(w)
        \/ \E m \in Masters : \/ Control(m) \/ Wait(m) \/ Leave(m)
                              \/ \E S \in SUBSET (Checks \ added) : Add(m, S)

Spec == Init /\ [][Next]_vars

\* A thread that is not blocked goes on.
FairSpec == Spec /\ \A t \in Threads : WF_vars(Loop(t))
-----------------------------------------------------------------------------
TypeOK ==
    /\ queue \subseteq Checks /\ added \subseteq Checks
    /\ nIdle \in Int /\ nTotal \in Int /\ nTodo \in Nat
    /\ fAllOk \in BOOLEAN /\ result \in BOOLEAN /\ control \in Masters \cup {None}
    /\ pc \in [Threads -> {"outside", "adding", "returned", "enter", "waiting", "woken",
                           "working", "worked", "interrupted"}]
    /\ vChecks \in [Threads -> SUBSET Checks] /\ fOk \in [Threads -> BOOLEAN]

\* Wait: "Wait until execution finishes, and return whether all evaluations
\* were successful": of this control's checks, in whatever batches and by
\* whatever threads, and of no earlier ones.
ResultExact ==
    \A m \in Masters : pc[m] = "returned" => (result <=> added \cap Failing = {})

\* CCheckQueueControl "guarantees the passed queue is finished before
\* continuing": no thread still has, or can still get, a check whose data
\* belonged to a master that has returned.
FinishedBeforeContinuing ==
    (control = None \/ pc[control] = "returned")
      => /\ queue = {} /\ nTodo = 0 /\ fAllOk
         /\ \A t \in Threads : vChecks[t] = {}

\* nTodo: "Number of verifications that haven't completed yet. This includes
\* elements that are no longer queued, but still in the worker's own batches."
TodoExact == nTodo = Cardinality(queue \cup UNION {vChecks[t] : t \in Threads})

\* Wait returns: a notification is never missed, even if workers are
\* interrupted.
WaitReturns == \A m \in Masters : pc[m] = "enter" ~> pc[m] = "returned"
=============================================================================
