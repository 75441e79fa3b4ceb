--------------------------- MODULE SerialExecutor ---------------------------
(***************************************************************************)
(* What SingleThreadedSchedulerClient promises: callbacks are executed as  *)
(* if by a single thread, one after the other, in the order in which they  *)
(* were added.                                                             *)
(***************************************************************************)
EXTENDS Sequences

CONSTANTS Callbacks, None

VARIABLES queue,   \* callbacks to be executed
          current  \* the one that is executing, or None

Init == queue = <<>> /\ current = None

Add(c) == queue' = Append(queue, c) /\ UNCHANGED current

Begin == current = None /\ queue # <<>> /\ current' = Head(queue) /\ queue' = Tail(queue)

End == current # None /\ current' = None /\ UNCHANGED queue

Next == Begin \/ End \/ \E c \in Callbacks : Add(c)

Spec == Init /\ [][Next]_<<queue, current>>
=============================================================================
