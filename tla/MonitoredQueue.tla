--------------------------- MODULE MonitoredQueue ---------------------------
(***************************************************************************)
(* src/include/zthread/MonitoredQueue.h: a queue without a capacity;       *)
(* MaxSize bounds the model.  Nobody waits for room.                       *)
(***************************************************************************)
EXTENDS Queues

vars == queueVars
Init == QueueInit

\* add() never waits; a canceled queue throws.
AddCanceled(t) ==
  /\ Begins(t)
  /\ canceled
  /\ Finish(t, {})
  /\ UNCHANGED queue

AddItem(t) ==
  /\ Begins(t)
  /\ ~canceled /\ size < MaxSize
  /\ \E S \in ToSignal(t, "notEmpty") : Finish(t, S)
  /\ size' = size + 1
  /\ UNCHANGED canceled

\* next(): waits for an element unless the queue is canceled,
NextWait(t) ==
  /\ Enters(t, "next")
  /\ size = 0 /\ ~canceled
  /\ WaitOn(t, "next", "notEmpty")
  /\ UNCHANGED queue

NextCanceled(t) ==
  /\ Enters(t, "next")
  /\ size = 0 /\ canceled
  /\ Finish(t, {})
  /\ UNCHANGED queue

\* and with the last element wakes those that wait for that.
NextItem(t) ==
  /\ Enters(t, "next")
  /\ size > 0
  /\ \E A \in IF size = 1 THEN ToBroadcast(t, "isEmpty") ELSE {{}} : Finish(t, A)
  /\ size' = size - 1
  /\ UNCHANGED canceled

Cancel(t) ==
  /\ Begins(t)
  /\ \E S \in ToBroadcast(t, "notEmpty") : Finish(t, S)
  /\ canceled' = TRUE
  /\ UNCHANGED size

\* empty(), and empty(timeout), which does not look at what its wait returns.
EntersEmpty(t) ==
  Enters(t, "empty") \/ (op[t] = "empty" /\ wait[t] = "timedout")

EmptyWait(t) ==
  /\ EntersEmpty(t)
  /\ size > 0
  /\ WaitOn(t, "empty", "isEmpty")
  /\ UNCHANGED queue

EmptySeen(t) ==
  /\ EntersEmpty(t)
  /\ size = 0
  /\ Finish(t, {})
  /\ UNCHANGED queue

\* The wait of next() times out, or any wait is interrupted.
Abandon(t) ==
  GiveUp(t, "next") \/ (wait[t] = "interrupted" /\ GiveUp(t, "empty"))

-----------------------------------------------------------------------------
Operate(t) ==
  \/ AddCanceled(t) \/ AddItem(t)
  \/ NextWait(t) \/ NextCanceled(t) \/ NextItem(t)
  \/ EmptyWait(t) \/ EmptySeen(t) \/ Abandon(t)

Next ==
  \E t \in Threads :
    \/ Operate(t) \/ Cancel(t)
    \/ \E how \in Cuts : CutShort(t, how) /\ UNCHANGED queue

Resume(t) == Awake(t) /\ Operate(t)

Spec == Init /\ [][Next]_vars /\ \A t \in Threads : WF_vars(Resume(t))

=============================================================================
