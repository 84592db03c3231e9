---------------------------- MODULE BoundedQueue ----------------------------
(***************************************************************************)
(* src/include/zthread/BoundedQueue.h, with MaxSize as its capacity.       *)
(***************************************************************************)
EXTENDS Queues

vars == queueVars
Init == QueueInit

\* add(): waits for room unless the queue is canceled,
AddWait(t) ==
  /\ Enters(t, "add")
  /\ size = MaxSize /\ ~canceled
  /\ WaitOn(t, "add", "notFull")
  /\ UNCHANGED queue

AddCanceled(t) ==
  /\ Enters(t, "add")
  /\ canceled
  /\ Finish(t, {})
  /\ UNCHANGED queue

\* and wakes a consumer.
AddItem(t) ==
  /\ Enters(t, "add")
  /\ size < MaxSize /\ ~canceled
  /\ \E S \in ToSignal(t, "notEmpty") : Finish(t, S)
  /\ size' = size + 1
  /\ UNCHANGED canceled

\* next(): waits for an element unless the queue is canceled,
NextWait(t) ==
  /\ Enters(t, "next")
  /\ size = 0 /\ ~canceled
  /\ WaitOn(t, "next", "notEmpty")
  /\ UNCHANGED queue

NextCanceled(t) ==
  /\ Enters(t, "next")
  /\ size = 0 /\ canceled
  /\ Finish(t, {})
  /\ UNCHANGED queue

\* and wakes a producer and, with the last element, those that wait for that.
NextItem(t) ==
  /\ Enters(t, "next")
  /\ size > 0
  /\ \E S \in ToSignal(t, "notFull"),
        A \in IF size = 1 THEN ToBroadcast(t, "isEmpty") ELSE {{}} :
       Finish(t, S \cup A)
  /\ size' = size - 1
  /\ UNCHANGED canceled

\* cancel() wakes the consumers, not the producers.
Cancel(t) ==
  /\ Begins(t)
  /\ \E S \in ToBroadcast(t, "notEmpty") : Finish(t, S)
  /\ canceled' = TRUE
  /\ UNCHANGED size

\* empty(), and empty(timeout), which does not look at what its wait returns.
EntersEmpty(t) ==
  Enters(t, "empty") \/ (op[t] = "empty" /\ wait[t] = "timedout")

EmptyWait(t) ==
  /\ EntersEmpty(t)
  /\ size > 0
  /\ WaitOn(t, "empty", "isEmpty")
  /\ UNCHANGED queue

EmptySeen(t) ==
  /\ EntersEmpty(t)
  /\ size = 0
  /\ Finish(t, {})
  /\ UNCHANGED queue

\* The wait of add() or next() times out, or any wait is interrupted.
Abandon(t) ==
  \/ GiveUp(t, "add") \/ GiveUp(t, "next")
  \/ wait[t] = "interrupted" /\ GiveUp(t, "empty")

-----------------------------------------------------------------------------
Operate(t) ==
  \/ AddWait(t) \/ AddCanceled(t) \/ AddItem(t)
  \/ NextWait(t) \/ NextCanceled(t) \/ NextItem(t)
  \/ EmptyWait(t) \/ EmptySeen(t) \/ Abandon(t)

Next ==
  \E t \in Threads :
    \/ Operate(t) \/ Cancel(t)
    \/ \E how \in Cuts : CutShort(t, how) /\ UNCHANGED queue

\* A thread that has been woken takes the lock and goes on.
Resume(t) == Awake(t) /\ Operate(t)

Spec == Init /\ [][Next]_vars /\ \A t \in Threads : WF_vars(Resume(t))

-----------------------------------------------------------------------------
\* The same for those that sleep for room, until the queue is canceled: cancel()
\* does not wake them.
NoProducerForgotten ==
  ~lost /\ ~canceled /\ Asleep("notFull") # {}
    => MaxSize - size <= Cardinality(Signaled("notFull"))

=============================================================================
