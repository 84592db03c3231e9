------------------------------ MODULE MutexImpl ------------------------------
(***************************************************************************)
(* The mutex template behind Mutex and PriorityMutex                       *)
(* (src/src/MutexImpl.h).  The owner that releases the mutex hands nothing *)
(* over: it clears _owner, notifies one waiter and leaves it to that       *)
(* waiter to make itself the owner when it has got _lock back.             *)
(***************************************************************************)
EXTENDS Waiting

VARIABLES
  owner,     \* _owner
  has        \* the threads told that they hold the mutex, and not yet releasing

mutex == <<owner, has>>
vars  == <<mutex, waitVars>>

TypeOK ==
  /\ WaitTypeOK({"a_lock", "r_lock"})
  /\ owner \in Threads \cup {None}
  /\ has \subseteq Threads

Init ==
  /\ WaitInit
  /\ owner = None
  /\ has = {}

-----------------------------------------------------------------------------
(* acquire(), tryAcquire(0) and tryAcquire(timeout). *)

AcquireCall(t, k) ==
  /\ CallToWait(t, k, "a_lock")
  /\ UNCHANGED mutex

\* Deadlock_Exception: the caller is the owner.
AcquireAgain(t) ==
  /\ owner = t
  /\ Return(t, "a_lock")
  /\ UNCHANGED mutex

\* Wrong on purpose: newcomers do not look at the list.
Free_Barging == owner = None

Free == owner = None /\ waiters = <<>>

AcquireFree(t) ==
  /\ Free
  /\ Return(t, "a_lock")
  /\ owner' = t
  /\ has' = has \cup {t}

\* tryAcquire(0) enters the list and leaves it again under the same _lock.
AcquireGiveUp(t) ==
  /\ owner # t /\ ~Free
  /\ kind[t] = "now"
  /\ Return(t, "a_lock")
  /\ UNCHANGED mutex

AcquireEnlist(t) ==
  /\ owner # t /\ ~Free
  /\ kind[t] # "now"
  /\ Enlist(t, "a_lock", Insert(Rank, waiters, t))
  /\ UNCHANGED mutex

\* Off the list and, after a signal, owner; otherwise an exception or, for
\* TIMEDOUT, the answer false.  assert(_owner == 0) is not a guard: without it
\* _owner is overwritten.
AcquireLeave(t) ==
  /\ Leave(t)
  /\ IF state[t] = SIGNALED
     THEN owner' = t /\ has' = has \cup {t}
     ELSE UNCHANGED mutex
  /\ Forget(t)

-----------------------------------------------------------------------------
(* release(). *)

ReleaseCall(t) ==
  /\ Call(t, "r_lock")
  /\ UNCHANGED mutex

\* InvalidOp_Exception: the caller is not the owner.
ReleaseInvalid(t) ==
  /\ owner # t
  /\ Return(t, "r_lock")
  /\ UNCHANGED mutex

ReleaseEnter(t) ==
  /\ owner = t
  /\ StartScan(t, "r_lock")
  /\ owner' = None
  /\ has' = has \ {t}

\* The waiter stays in the list.  While it has an interruption pending, notify()
\* is refused and the loop tries the same waiter again: no step.
ReleaseNotify(t) ==
  /\ ScanNotify(t, waiters)
  /\ UNCHANGED mutex

-----------------------------------------------------------------------------
LockAcquire(t) ==
  AcquireAgain(t) \/ AcquireFree(t) \/ AcquireGiveUp(t) \/ AcquireEnlist(t)

LockRelease(t) == ReleaseInvalid(t) \/ ReleaseEnter(t)

Next ==
  \E t \in Threads :
    \/ \E k \in Kinds : AcquireCall(t, k)
    \/ LockAcquire(t) \/ AcquireLeave(t)
    \/ Wait(t) /\ UNCHANGED mutex
    \/ ReleaseCall(t) \/ LockRelease(t) \/ ReleaseNotify(t)
    \/ (ScanOn(t) \/ Retry(t)) /\ UNCHANGED mutex
    \/ Outsiders(t) /\ UNCHANGED mutex

\* For fairness: what waits for a lock, and what does not.
TakeLock(t) ==
  \/ LockAcquire(t) \/ AcquireLeave(t) \/ LockRelease(t)
  \/ (WaitForLock(t) \/ Retry(t)) /\ UNCHANGED mutex

Run(t) ==
  \/ (WaitRun(t) \/ ScanOn(t)) /\ UNCHANGED mutex
  \/ ReleaseNotify(t)

Spec == Init /\ [][Next]_vars

-----------------------------------------------------------------------------
(* Properties.  WaitersInside, that _waiters lists the threads inside a wait *)
(* for the mutex, each once, whatever signals, interruptions and timeouts    *)
(* ended or did not end that wait, and LocksHeld and NoStaleSignal are those *)
(* of module Waiting.                                                        *)

\* A thread that was told it holds the mutex is its owner until it releases
\* it; so no two threads are told so at once.
MutualExclusion == \A t \in has : owner = t

\* A mutex that nobody owns while threads wait for it is on its way to one of
\* them: somebody is still looking for a waiter, or one has been notified.
NoLostWakeup ==
  (owner = None /\ waiters # <<>>)
    => \E t \in Threads : Signaled(t) \/ pc[t] \in Searching

=============================================================================
