---------------------------- MODULE BlockingQueue ----------------------------
(***************************************************************************)
(* src/include/zthread/BlockingQueue.h: a queue without a capacity, on     *)
(* which threads wait only for elements; MaxSize bounds the model.         *)
(***************************************************************************)
EXTENDS Queues

vars == queueVars
Init == QueueInit

\* add() never waits; a canceled queue throws.
AddCanceled(t) ==
  /\ Begins(t)
  /\ canceled
  /\ Finish(t, {})
  /\ UNCHANGED queue

AddItem(t) ==
  /\ Begins(t)
  /\ ~canceled /\ size < MaxSize
  /\ \E S \in ToSignal(t, "notEmpty") : Finish(t, S)
  /\ size' = size + 1
  /\ UNCHANGED canceled

NextWait(t) ==
  /\ Enters(t, "next")
  /\ size = 0 /\ ~canceled
  /\ WaitOn(t, "next", "notEmpty")
  /\ UNCHANGED queue

NextCanceled(t) ==
  /\ Enters(t, "next")
  /\ size = 0 /\ canceled
  /\ Finish(t, {})
  /\ UNCHANGED queue

NextItem(t) ==
  /\ Enters(t, "next")
  /\ size > 0
  /\ Finish(t, {})
  /\ size' = size - 1
  /\ UNCHANGED canceled

\* Wrong on purpose: one consumer learns of it.
Cancel_One(t) ==
  /\ Begins(t)
  /\ \E S \in ToSignal(t, "notEmpty") : Finish(t, S)
  /\ canceled' = TRUE
  /\ UNCHANGED size

\* The flag is set after the broadcast, but before the lock is given up.
Cancel(t) ==
  /\ Begins(t)
  /\ \E S \in ToBroadcast(t, "notEmpty") : Finish(t, S)
  /\ canceled' = TRUE
  /\ UNCHANGED size

-----------------------------------------------------------------------------
Operate(t) ==
  \/ AddCanceled(t) \/ AddItem(t)
  \/ NextWait(t) \/ NextCanceled(t) \/ NextItem(t) \/ GiveUp(t, "next")

Next ==
  \E t \in Threads :
    \/ Operate(t) \/ Cancel(t)
    \/ \E how \in Cuts : CutShort(t, how) /\ UNCHANGED queue

Resume(t) == Awake(t) /\ Operate(t)

Spec == Init /\ [][Next]_vars /\ \A t \in Threads : WF_vars(Resume(t))

=============================================================================
