---------------------------- MODULE SemaphoreImpl ----------------------------
(***************************************************************************)
(* The semaphore template behind Semaphore and PrioritySemaphore           *)
(* (src/src/SemaphoreImpl.h).  A release adds its permit to the count and  *)
(* notifies one waiter, which takes a permit off the count when it has got *)
(* _lock back.  The scan takes every waiter it examines off the list, so   *)
(* that the list no longer tells who waits; _entryCount does.              *)
(*                                                                         *)
(* A CountingSemaphore is the same with a MaxCount that is never reached.  *)
(***************************************************************************)
EXTENDS Integers, Waiting

CONSTANTS
  Acquirers,     \* the threads that acquire permits
  Releasers,     \* the threads that release permits, theirs or others'
  InitialCount,  \* the arguments of the constructor
  MaxCount

ASSUME SemaphoreAssumption ==
  /\ Acquirers \cup Releasers = Threads
  /\ MaxCount \in Nat \ {0}
  /\ InitialCount \in 0 .. MaxCount

VARIABLES
  count,        \* _count
  entryCount    \* _entryCount

semaphore == <<count, entryCount>>
vars      == <<semaphore, waitVars>>

TypeOK ==
  /\ WaitTypeOK({"a_lock", "r_lock"})
  /\ count \in Int /\ count <= MaxCount
  /\ entryCount \in Nat

Init ==
  /\ WaitInit
  /\ count = InitialCount
  /\ entryCount = 0

-----------------------------------------------------------------------------
(* acquire(), tryAcquire(0) and tryAcquire(timeout). *)

AcquireCall(t, k) ==
  /\ t \in Acquirers
  /\ CallToWait(t, k, "a_lock")
  /\ UNCHANGED semaphore

\* Wrong on purpose: newcomers look at the list, from which the waiters that were
\* notified are gone.
Available_ByList == count > 0 /\ waiters = <<>>

Available == count > 0 /\ entryCount = 0

AcquireTake(t) ==
  /\ Available
  /\ Return(t, "a_lock")
  /\ count' = count - 1
  /\ UNCHANGED entryCount

\* tryAcquire(0) enters and leaves under the same _lock.
AcquireGiveUp(t) ==
  /\ ~Available
  /\ kind[t] = "now"
  /\ Return(t, "a_lock")
  /\ UNCHANGED semaphore

\* acquire() inserts, which sorts the list; tryAcquire() appends, and may leave it
\* unsorted.
Listing(t) ==
  LET q == Append(waiters, t)
  IN  IF kind[t] = "forever" THEN Sorted(Rank, q) ELSE q

AcquireEnlist(t) ==
  /\ ~Available
  /\ kind[t] # "now"
  /\ Enlist(t, "a_lock", Listing(t))
  /\ entryCount' = entryCount + 1
  /\ UNCHANGED count

\* Wrong on purpose: only the successful wait is counted off.
Departed_IfSignaled(t) ==
  IF state[t] = SIGNALED THEN entryCount - 1 ELSE entryCount

Departed(t) == entryCount - 1

\* After a signal the permit is taken, without a look at the count; otherwise an
\* exception or, for TIMEDOUT, the answer false.
AcquireLeave(t) ==
  /\ Leave(t)
  /\ entryCount' = Departed(t)
  /\ count' = IF state[t] = SIGNALED THEN count - 1 ELSE count
  /\ Forget(t)

-----------------------------------------------------------------------------
(* release(). *)

ReleaseCall(t) ==
  /\ t \in Releasers
  /\ Call(t, "r_lock")
  /\ UNCHANGED semaphore

\* Wrong on purpose: one permit more than there may be.
Full_Late == count > MaxCount

Full == count = MaxCount

\* InvalidOp_Exception: the maximum would be exceeded.
ReleaseInvalid(t) ==
  /\ Full
  /\ Return(t, "r_lock")
  /\ UNCHANGED semaphore

ReleaseEnter(t) ==
  /\ ~Full
  /\ StartScan(t, "r_lock")
  /\ count' = count + 1
  /\ UNCHANGED entryCount

\* The waiter whose Monitor can be locked is taken off the list and notified;
ReleaseNotify(t) ==
  /\ ScanNotify(t, RemoveAt(waiters, cursor))
  /\ UNCHANGED semaphore

\* while it has an interruption pending notify() is refused, and the search goes
\* on behind it.
ReleaseRefused(t) ==
  /\ Scanning(t)
  /\ LET w == waiters[cursor] IN
       mlock[w] = None /\ ~Notifiable(pending[w], ANYTHING)
  /\ waiters' = RemoveAt(waiters, cursor)
  /\ UNCHANGED <<semaphore, monitors, locals, flock, cursor, pc>>

-----------------------------------------------------------------------------
LockAcquire(t) == AcquireTake(t) \/ AcquireGiveUp(t) \/ AcquireEnlist(t)
LockRelease(t) == ReleaseInvalid(t) \/ ReleaseEnter(t)

Next ==
  \E t \in Threads :
    \/ \E k \in Kinds : AcquireCall(t, k)
    \/ LockAcquire(t) \/ AcquireLeave(t)
    \/ Wait(t) /\ UNCHANGED semaphore
    \/ ReleaseCall(t) \/ LockRelease(t) \/ ReleaseNotify(t) \/ ReleaseRefused(t)
    \/ (ScanOn(t) \/ Retry(t)) /\ UNCHANGED semaphore
    \/ Outsiders(t) /\ UNCHANGED semaphore

(***************************************************************************)
(* As for MutexImpl: threads run, and locks are given to those that want   *)
(* them.  The releasers keep releasing permits; nobody has to acquire one. *)
(***************************************************************************)
TakeLock(t) ==
  \/ LockAcquire(t) \/ AcquireLeave(t) \/ LockRelease(t)
  \/ (WaitForLock(t) \/ Retry(t)) /\ UNCHANGED semaphore

Run(t) ==
  \/ (WaitRun(t) \/ ScanOn(t)) /\ UNCHANGED semaphore
  \/ ReleaseNotify(t) \/ ReleaseRefused(t)

Fairness ==
  \A t \in Threads :
    /\ SF_vars(TakeLock(t))
    /\ WF_vars(Run(t))
    /\ WF_vars(ReleaseCall(t))
    /\ \A x \in Observers : WF_vars(Observed(x, t) /\ UNCHANGED semaphore)

Spec == Init /\ [][Next]_vars /\ Fairness

-----------------------------------------------------------------------------
(* Properties. *)

\* A thread that a release() has notified has a permit waiting for it, however
\* many threads come and go before it has got _lock back: it does not take the
\* count below zero.
PermitsCovered ==
  Cardinality({t \in Threads : Signaled(t)}) <= count

\* _entryCount is the number of threads inside a wait, which the list is not.
EntriesExact ==
  entryCount = Cardinality({t \in Threads : pc[t] \in Inside})

\* Every acquire() gets its permit, provided permits keep being released.
AcquireSucceeds ==
  \A t \in Acquirers :
    (pc[t] = "a_lock" /\ kind[t] = "forever") ~> pc[t] = "idle"

\* Semaphore.h:126-127, "The calling thread will remain blocked until the count
\* is raised above 0": when all that goes on is that threads sleep, there is no
\* permit.
SleepsOnlyWithoutPermit ==
  /\ \A t \in Threads : pc[t] \in {"idle", "w_sleep"} /\ ~Signaled(t)
  /\ \E t \in Threads : pc[t] = "w_sleep"
  => count <= 0

=============================================================================
