-------------------------- MODULE RecursiveMutexImpl --------------------------
(***************************************************************************)
(* The recursive mutex (src/src/RecursiveMutexImpl.cxx).  Its list holds   *)
(* the Monitors of the waiting threads, one for each, so here the threads; *)
(* it grows at the back.  The owner counts its entries, and only the       *)
(* release of the last one frees the mutex and wakes a waiter.             *)
(***************************************************************************)
EXTENDS Integers, Waiting

CONSTANT MaxDepth   \* a bound of the model: how often a thread enters the mutex

VARIABLES
  owner,     \* _owner
  count,     \* _count
  entries    \* how many of its entries each thread has still to leave

recursive == <<owner, count, entries>>
vars      == <<recursive, waitVars>>

TypeOK ==
  /\ WaitTypeOK({"a_lock", "r_lock"})
  /\ owner \in Threads \cup {None}
  /\ count \in Nat
  /\ entries \in [Threads -> Int]

Init ==
  /\ WaitInit
  /\ owner = None
  /\ count = 0
  /\ entries = [t \in Threads |-> 0]

\* One more entry of t, and one less.
Enter(t) ==
  /\ owner' = t
  /\ count' = count + 1
  /\ entries' = [entries EXCEPT ![t] = @ + 1]

-----------------------------------------------------------------------------
(* acquire(), tryAcquire(0) and tryAcquire(timeout). *)

AcquireCall(t, k) ==
  /\ entries[t] < MaxDepth
  /\ CallToWait(t, k, "a_lock")
  /\ UNCHANGED recursive

\* Wrong on purpose: newcomers do not look at the list.
Free_Barging == owner = None

Free == owner = None /\ waiters = <<>>

\* assert(_count == 0) is not a guard.
AcquireEnter(t) ==
  /\ owner = t \/ Free
  /\ Return(t, "a_lock")
  /\ Enter(t)

\* tryAcquire(0) enters the list and leaves it again under the same _lock.
AcquireGiveUp(t) ==
  /\ owner # t /\ ~Free
  /\ kind[t] = "now"
  /\ Return(t, "a_lock")
  /\ UNCHANGED recursive

AcquireEnlist(t) ==
  /\ owner # t /\ ~Free
  /\ kind[t] # "now"
  /\ Enlist(t, "a_lock", Insert(FifoRank, waiters, t))
  /\ UNCHANGED recursive

\* The assertions are not guards: without them _owner is overwritten and _count
\* goes on from where it is.
AcquireLeave(t) ==
  /\ Leave(t)
  /\ IF state[t] = SIGNALED THEN Enter(t) ELSE UNCHANGED recursive
  /\ Forget(t)

-----------------------------------------------------------------------------
(* release(). *)

ReleaseCall(t) ==
  /\ Call(t, "r_lock")
  /\ UNCHANGED recursive

\* InvalidOp_Exception: the caller is not the owner.
ReleaseInvalid(t) ==
  /\ owner # t
  /\ Return(t, "r_lock")
  /\ UNCHANGED recursive

\* Wrong on purpose: the mutex is freed at the first release().
Outermost_Not == TRUE

Outermost == count - 1 = 0

Depart(t) ==
  /\ count' = count - 1
  /\ entries' = [entries EXCEPT ![t] = @ - 1]

\* One entry less,
ReleaseInner(t) ==
  /\ owner = t /\ ~Outermost
  /\ Return(t, "r_lock")
  /\ Depart(t)
  /\ UNCHANGED owner

\* or none left: the mutex is free and the list is searched for a waiter.
ReleaseLast(t) ==
  /\ owner = t /\ Outermost
  /\ StartScan(t, "r_lock")
  /\ Depart(t)
  /\ owner' = None

\* The waiter stays in the list.
ReleaseNotify(t) ==
  /\ ScanNotify(t, waiters)
  /\ UNCHANGED recursive

-----------------------------------------------------------------------------
LockAcquire(t) == AcquireEnter(t) \/ AcquireGiveUp(t) \/ AcquireEnlist(t)
LockRelease(t) == ReleaseInvalid(t) \/ ReleaseInner(t) \/ ReleaseLast(t)

Next ==
  \E t \in Threads :
    \/ \E k \in Kinds : AcquireCall(t, k)
    \/ LockAcquire(t) \/ AcquireLeave(t)
    \/ Wait(t) /\ UNCHANGED recursive
    \/ ReleaseCall(t) \/ LockRelease(t) \/ ReleaseNotify(t)
    \/ (ScanOn(t) \/ Retry(t)) /\ UNCHANGED recursive
    \/ Outsiders(t) /\ UNCHANGED recursive

\* For fairness: what waits for a lock, and what does not.
TakeLock(t) ==
  \/ LockAcquire(t) \/ AcquireLeave(t) \/ LockRelease(t)
  \/ (WaitForLock(t) \/ Retry(t)) /\ UNCHANGED recursive

Run(t) ==
  \/ (WaitRun(t) \/ ScanOn(t)) /\ UNCHANGED recursive
  \/ ReleaseNotify(t)

=============================================================================
