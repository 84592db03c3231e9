------------------------------- MODULE Queues -------------------------------
(***************************************************************************)
(* What the four queues of src/include/zthread have in common: a number of *)
(* elements, a flag that no further elements are accepted, and what must   *)
(* be true of the threads that wait for elements, for room or for the      *)
(* queue to be empty.  Elements are taken in the order in which they came, *)
(* under the lock, so that their number is all that matters here.          *)
(***************************************************************************)
EXTENDS Conditions

CONSTANT
  MaxSize   \* the capacity of the BoundedQueue, a bound of the model for others

ASSUME QueuesAssumption == MaxSize \in Nat \ {0}

VARIABLES
  size,      \* _queue.size()
  canceled   \* _canceled

queue     == <<size, canceled>>
queueVars == <<queue, condVars>>

QueueTypeOK ==
  /\ CondTypeOK({"add", "next", "empty"}, {"notFull", "notEmpty", "isEmpty"})
  /\ size \in 0 .. MaxSize
  /\ canceled \in BOOLEAN

QueueInit ==
  /\ CondInit
  /\ size = 0
  /\ canceled = FALSE

\* An operation in which t has a wait on c behind it, or begins.
Enters(t, o) == op[t] = "none" \/ (op[t] = o /\ wait[t] = "signaled")

\* The wait was cut short: the operation ends with false or an exception.
GiveUp(t, o) ==
  /\ op[t] = o /\ wait[t] \in Cuts
  /\ Finish(t, {})
  /\ UNCHANGED queue

-----------------------------------------------------------------------------
\* Whoever sleeps for an element has been left none: each element there is has
\* woken somebody who has not come yet.  Waits may time out and be interrupted, as
\* long as no signal is lost on one that has been.
NoConsumerForgotten ==
  ~lost /\ Asleep("notEmpty") # {}
    => size <= Cardinality(Signaled("notEmpty")) /\ ~canceled

\* A thread that waits for the queue to be empty does not sleep while it is.
EmptyIsSeen == Asleep("isEmpty") # {} => size > 0

\* "Queue canceled" (BoundedQueue.h:205 and its likes): after cancel() no next() goes on
\* waiting, whether it gets an element or an exception.
CancelEndsNext ==
  \A t \in Threads : (canceled /\ op[t] = "next") ~> op[t] = "none"

=============================================================================
