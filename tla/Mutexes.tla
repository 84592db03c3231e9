------------------------------ MODULE Mutexes ------------------------------
(***************************************************************************)
(* The two mutexes, with the same list and the same waits.  A behaviour is *)
(* about one of them, chosen at the start; what only the other has keeps   *)
(* its initial value.                                                      *)
(***************************************************************************)
EXTENDS MutexImpl

CONSTANT MaxDepth   \* a bound of the model: how often a thread enters the recursive one

ASSUME MutexesAssumption == MaxDepth \in Nat \ {0}

VARIABLES class, count, entries

Recursive == INSTANCE RecursiveMutexImpl

Classes  == {"MutexImpl", "RecursiveMutexImpl"}
allVars  == <<vars, class, count, entries>>

MutexesTypeOK == TypeOK /\ Recursive!TypeOK /\ class \in Classes

MutexesInit == class \in Classes /\ Init /\ Recursive!Init

\* What a step of one of them leaves alone of the other.
OfPlain(A)     == class = "MutexImpl" /\ A /\ UNCHANGED <<class, count, entries>>
OfRecursive(A) == class = "RecursiveMutexImpl" /\ A /\ UNCHANGED <<class, has>>

MutexesNext == OfPlain(Next) \/ OfRecursive(Recursive!Next)

-----------------------------------------------------------------------------
(***************************************************************************)
(* A running thread keeps running; a lock that keeps becoming free is in   *)
(* the end given to the thread that wants it (each thread wants one at a   *)
(* time); whoever holds the mutex releases it some day.  Of the recursive  *)
(* one a thread may enter it again and again, but from its outermost entry *)
(* it releases some day.  Nobody has to acquire, interrupt or observe, and *)
(* no timeout has to expire.                                               *)
(***************************************************************************)
TakeAnyLock(t) == OfPlain(TakeLock(t)) \/ OfRecursive(Recursive!TakeLock(t))

RunOn(t) == OfPlain(Run(t)) \/ OfRecursive(Recursive!Run(t))

LeaveInner(t) == OfRecursive(entries[t] > 1 /\ Recursive!ReleaseCall(t))

LeaveLast(t) ==
  \/ OfPlain(t \in has /\ ReleaseCall(t))
  \/ OfRecursive(entries[t] = 1 /\ Recursive!ReleaseCall(t))

StopObserving(x, t) ==
  Observed(x, t) /\ UNCHANGED <<mutex, class, count, entries>>

MutexesSpec ==
  /\ MutexesInit /\ [][MutexesNext]_allVars
  /\ \A t \in Threads :
       /\ SF_allVars(TakeAnyLock(t))
       /\ WF_allVars(RunOn(t))
       /\ SF_allVars(LeaveInner(t)) /\ SF_allVars(LeaveLast(t))
       /\ \A x \in Observers : WF_allVars(StopObserving(x, t))

-----------------------------------------------------------------------------
(* Properties.  MutualExclusion and NoLostWakeup are those of MutexImpl,     *)
(* WaitersInside and NoStaleSignal those of Waiting.                         *)

\* Only one thread is in the recursive mutex at a time (RecursiveMutex.h:72), and it
\* stays in for as many release()s as it has made acquire()s.
OnlyOwnerEntered ==
  /\ \A t \in Threads : entries[t] # 0 => owner = t
  /\ owner # None => entries[owner] = count

\* assert(_owner == 0), MutexImpl.h:192 and 284, and of the recursive mutex also
\* assert(_count == 0), RecursiveMutexImpl.cxx:124-125 and 201-202: a thread that comes back
\* with a signal finds the mutex free, however long it took to get _lock back.
AssertFree ==
  \A t \in Threads :
    pc[t] = "w_relock" /\ state[t] = SIGNALED => owner = None /\ count = 0

\* Every acquire() succeeds, provided every thread that holds the mutex or is in it
\* leaves it.
AcquireSucceeds ==
  \A t \in Threads :
    (pc[t] = "a_lock" /\ kind[t] = "forever") ~> (t \in has \/ entries[t] > 0)

=============================================================================
