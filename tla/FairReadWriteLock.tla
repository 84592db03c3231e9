-------------------------- MODULE FairReadWriteLock --------------------------
(***************************************************************************)
(* src/include/zthread/FairReadWriteLock.h.  A writer keeps _lock while it *)
(* is inside, a reader has it only to come and go; a writer that waits for *)
(* the readers to leave waits on _cond, without _lock.                     *)
(***************************************************************************)
EXTENDS ReadWriteLocks

CONSTANT None   \* no thread

VARIABLE locked   \* the holder of _lock, where it is kept longer than a step

vars == <<inside, activeReaders, locked, condVars>>

TypeOK ==
  /\ RWTypeOK({"cond"})
  /\ locked \in Threads \cup {None}

Init ==
  /\ RWInit
  /\ locked = None

\* ReadLock::acquire() and tryAcquire().
ReadEnter(t) ==
  /\ Begins(t) /\ Outside(t)
  /\ locked = None
  /\ Step(t, "read")
  /\ activeReaders' = activeReaders + 1
  /\ UNCHANGED <<locked, condVars>>

\* ReadLock::release(): the last reader wakes a writer.
ReadLeave(t) ==
  /\ inside[t] = "read"
  /\ locked = None
  /\ Step(t, "none")
  /\ activeReaders' = activeReaders - 1
  /\ \E S \in IF activeReaders = 1 THEN ToSignal(t, "cond") ELSE {{}} :
       Finish(t, S)
  /\ UNCHANGED locked

\* WriteLock::acquire() and tryAcquire(): under _lock, waits for the readers,
WriteWait(t) ==
  /\ Tries(t, "write")
  /\ locked = None /\ activeReaders > 0
  /\ WaitOn(t, "write", "cond")
  /\ UNCHANGED <<inside, activeReaders, locked>>

\* Wrong on purpose: after the wait the readers are not counted again.
WriteEnter_NoLoop(t) ==
  /\ Tries(t, "write")
  /\ locked = None /\ (activeReaders = 0 \/ wait[t] = "signaled")
  /\ Finish(t, {})
  /\ Step(t, "write")
  /\ locked' = t
  /\ UNCHANGED activeReaders

\* and keeps the lock when there are none.
WriteEnter(t) ==
  /\ Tries(t, "write")
  /\ locked = None /\ activeReaders = 0
  /\ Finish(t, {})
  /\ Step(t, "write")
  /\ locked' = t
  /\ UNCHANGED activeReaders

\* An exception gives it up again.
WriteInterrupted(t) ==
  /\ op[t] = "write" /\ wait[t] = "interrupted"
  /\ locked = None
  /\ Finish(t, {})
  /\ UNCHANGED <<inside, activeReaders, locked>>

\* WriteLock::release() wakes nobody.
WriteLeave(t) ==
  /\ inside[t] = "write"
  /\ Step(t, "none")
  /\ locked' = None
  /\ UNCHANGED <<activeReaders, condVars>>

Next ==
  \E t \in Threads :
    \/ ReadEnter(t) \/ ReadLeave(t)
    \/ WriteWait(t) \/ WriteEnter(t) \/ WriteInterrupted(t) \/ WriteLeave(t)
    \/ \E how \in Cuts :
         CutShort(t, how) /\ UNCHANGED <<inside, activeReaders, locked>>

Spec == Init /\ [][Next]_vars

=============================================================================
