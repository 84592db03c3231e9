----------------------------- MODULE LockedQueue -----------------------------
(***************************************************************************)
(* src/include/zthread/LockedQueue.h: a queue on which nobody waits: next() *)
(* throws when there is no element.  MaxSize bounds the model.             *)
(***************************************************************************)
EXTENDS Queues

vars == queueVars
Init == QueueInit

\* add(), which throws in a canceled queue and changes nothing.
AddItem(t) ==
  /\ Begins(t)
  /\ ~canceled /\ size < MaxSize
  /\ Finish(t, {})
  /\ size' = size + 1
  /\ UNCHANGED canceled

\* next(); without an element it throws and changes nothing.
NextItem(t) ==
  /\ Begins(t)
  /\ size > 0
  /\ Finish(t, {})
  /\ size' = size - 1
  /\ UNCHANGED canceled

Cancel(t) ==
  /\ Begins(t)
  /\ Finish(t, {})
  /\ canceled' = TRUE
  /\ UNCHANGED size

Next == \E t \in Threads : AddItem(t) \/ NextItem(t) \/ Cancel(t)

Spec == Init /\ [][Next]_vars

=============================================================================
