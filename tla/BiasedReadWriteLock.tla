------------------------- MODULE BiasedReadWriteLock -------------------------
(***************************************************************************)
(* src/include/zthread/BiasedReadWriteLock.h.  A thread that leaves gives  *)
(* up _lock before it signals: between the two others come and go.         *)
(***************************************************************************)
EXTENDS ReadWriteLocks

VARIABLES
  activeWriters,    \* _activeWriters
  waitingReaders,   \* _waitingReaders
  waitingWriters,   \* _waitingWriters
  wakes,            \* the condition each thread that leaves is going to signal
  missed            \* whether such a signal has ever come too late for a thread
                    \* that was interrupted: for the properties

active  == <<activeReaders, activeWriters>>
waiting == <<waitingReaders, waitingWriters>>
vars    == <<inside, active, waiting, wakes, missed, condVars>>

TypeOK ==
  /\ RWTypeOK({"condRead", "condWrite"})
  /\ activeWriters \in 0 .. 1
  /\ waitingReaders \in Nat /\ waitingWriters \in Nat
  /\ wakes \in [Threads -> {"none", "condRead", "condWrite"}]
  /\ missed \in BOOLEAN

Init ==
  /\ RWInit
  /\ activeWriters = 0
  /\ waitingReaders = 0 /\ waitingWriters = 0
  /\ wakes = [t \in Threads |-> "none"]
  /\ missed = FALSE

AllowReader == activeWriters = 0

\* Wrong on purpose: a writer inside does not matter.
AllowWriter_Writers == activeReaders = 0

AllowWriter == activeWriters = 0 /\ activeReaders = 0

-----------------------------------------------------------------------------
(* beforeRead() and beforeReadAttempt(). *)

ReadWait(t) ==
  /\ Tries(t, "read")
  /\ ~AllowReader
  /\ WaitOn(t, "read", "condRead")
  /\ waitingReaders' = IF Begins(t) THEN waitingReaders + 1 ELSE waitingReaders
  /\ UNCHANGED <<inside, active, waitingWriters, wakes, missed>>

ReadEnter(t) ==
  /\ Tries(t, "read")
  /\ AllowReader
  /\ Finish(t, {})
  /\ Step(t, "read")
  /\ activeReaders' = activeReaders + 1
  /\ waitingReaders' = IF Begins(t) THEN waitingReaders ELSE waitingReaders - 1
  /\ UNCHANGED <<activeWriters, waitingWriters, wakes, missed>>

\* A thread that waited on c leaves, and somebody is about to signal c.
LeavesOwed(c) == missed' = (missed \/ \E u \in Threads : wakes[u] = c)

\* Wrong on purpose: the count of the waiting stays when an exception is thrown.
ReadInterrupted_Counted(t) ==
  /\ op[t] = "read" /\ wait[t] = "interrupted"
  /\ Finish(t, {})
  /\ LeavesOwed("condRead")
  /\ UNCHANGED <<inside, active, waiting, wakes>>

ReadInterrupted(t) ==
  /\ op[t] = "read" /\ wait[t] = "interrupted"
  /\ Finish(t, {})
  /\ waitingReaders' = waitingReaders - 1
  /\ LeavesOwed("condRead")
  /\ UNCHANGED <<inside, active, waitingWriters, wakes>>

-----------------------------------------------------------------------------
(* beforeWrite() and beforeWriteAttempt(). *)

WriteWait(t) ==
  /\ Tries(t, "write")
  /\ ~AllowWriter
  /\ WaitOn(t, "write", "condWrite")
  /\ waitingWriters' = IF Begins(t) THEN waitingWriters + 1 ELSE waitingWriters
  /\ UNCHANGED <<inside, active, waitingReaders, wakes, missed>>

WriteEnter(t) ==
  /\ Tries(t, "write")
  /\ AllowWriter
  /\ Finish(t, {})
  /\ Step(t, "write")
  /\ activeWriters' = activeWriters + 1
  /\ waitingWriters' = IF Begins(t) THEN waitingWriters ELSE waitingWriters - 1
  /\ UNCHANGED <<activeReaders, waitingReaders, wakes, missed>>

WriteInterrupted(t) ==
  /\ op[t] = "write" /\ wait[t] = "interrupted"
  /\ Finish(t, {})
  /\ waitingWriters' = waitingWriters - 1
  /\ LeavesOwed("condWrite")
  /\ UNCHANGED <<inside, active, waitingReaders, wakes>>

-----------------------------------------------------------------------------
(* afterRead() and afterWrite(). *)

\* What is decided under _lock: a waiting writer comes before a waiting reader.
ToWake ==
  CASE waitingWriters > 0                        -> "condWrite"
    [] waitingWriters = 0 /\ waitingReaders > 0  -> "condRead"
    [] OTHER                                     -> "none"

\* The signal that t still owes when it has given up _lock.
Owes(t) ==
  /\ op' = [op EXCEPT ![t] = IF ToWake = "none" THEN "none" ELSE "wake"]
  /\ wakes' = [wakes EXCEPT ![t] = ToWake]
  /\ UNCHANGED <<waits, timed, lost, waiting, missed>>

AfterRead(t) ==
  /\ inside[t] = "read"
  /\ Step(t, "none")
  /\ activeReaders' = activeReaders - 1
  /\ Owes(t)
  /\ UNCHANGED activeWriters

AfterWrite(t) ==
  /\ inside[t] = "write"
  /\ Step(t, "none")
  /\ activeWriters' = activeWriters - 1
  /\ Owes(t)
  /\ UNCHANGED activeReaders

Signal(t) ==
  /\ op[t] = "wake"
  /\ \E S \in ToSignal(t, wakes[t]) :
       /\ Finish(t, S)
       /\ missed' = (missed \/ (S = {} /\ \E u \in Threads :
                                   on[u] = wakes[t] /\ wait[u] = "interrupted"))
  /\ wakes' = [wakes EXCEPT ![t] = "none"]
  /\ UNCHANGED <<inside, active, waiting>>

-----------------------------------------------------------------------------
Next ==
  \E t \in Threads :
    \/ ReadWait(t) \/ ReadEnter(t) \/ ReadInterrupted(t)
    \/ WriteWait(t) \/ WriteEnter(t) \/ WriteInterrupted(t)
    \/ AfterRead(t) \/ AfterWrite(t) \/ Signal(t)
    \/ \E how \in Cuts :
         CutShort(t, how) /\ UNCHANGED <<inside, active, waiting, wakes, missed>>

Spec == Init /\ [][Next]_vars

-----------------------------------------------------------------------------
\* The numbers of waiting threads are exact, also when waits end with an
\* exception: afterRead() and afterWrite() decide by them whom to wake.
WaitingCounted ==
  /\ waitingReaders = Cardinality({t \in Threads : op[t] = "read"})
  /\ waitingWriters = Cardinality({t \in Threads : op[t] = "write"})

\* Nobody sleeps on at a lock that nobody is in: one thread is on its way in, or
\* one that has left still owes its signal.  Waits may time out, after which an
\* attempt goes on, and be interrupted, as long as the signal that was due to such
\* a thread is not lost on it.
NobodyForgotten ==
  (/\ ~lost /\ ~missed
   /\ \A t \in Threads : Outside(t)
   /\ \E t \in Threads : wait[t] = "asleep")
    => \E t \in Threads : wait[t] \in {"signaled", "timedout"} \/ op[t] = "wake"

=============================================================================
