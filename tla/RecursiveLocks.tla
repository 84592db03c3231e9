--------------------------- MODULE RecursiveLocks ---------------------------
(***************************************************************************)
(* The FastRecursiveLocks that the library makes itself:                   *)
(* src/src/vanilla/DualMutexRecursiveLock.h of two FastLocks,              *)
(* vanilla/SimpleRecursiveLock.h of one that is never held for long,       *)
(* posix/ConditionRecursiveLock.h of a mutex and a condition variable, and *)
(* win32/AtomicFastRecursiveLock.h of an atomic word that holds the owner. *)
(*                                                                         *)
(* What is done with _stateLock, _lock or _mtx held is one step: nobody    *)
(* waits there.  pthread_cond_wait does not return without a signal here;  *)
(* if it did, what `barged` notes would happen by itself.                  *)
(***************************************************************************)
EXTENDS FastLocks

VARIABLE barged   \* a woken thread has taken the lock from its owner

vars == <<locks, barged>>

TypeOK ==
  /\ LockTypeOK({"check", "checkTry", "block", "own", "asleep", "woken",
                 "count", "free"})
  /\ barged \in BOOLEAN

Init ==
  /\ LockInit(0)
  /\ barged = FALSE

Own(t) == owner' = t /\ depth' = depth + 1

-----------------------------------------------------------------------------
(* Two locks: _blockingLock (holder) is held as long as there is an owner, *)
(* _stateLock while _owner and _count are looked at.                       *)

\* acquire() and tryAcquire() try _blockingLock first;
DualTry(t, refused) ==
  /\ MayEnter(t)
  /\ IF holder = None THEN holder' = t /\ Goto(t, "own")
     ELSE UNCHANGED holder /\ Goto(t, refused)
  /\ UNCHANGED <<entries, value, owner, depth, barged>>

\* if somebody has it, that may be the caller;
DualAgain(t) ==
  /\ at[t] \in {"check", "checkTry"} /\ owner = t
  /\ Own(t) /\ Entered(t)
  /\ UNCHANGED <<value, holder, barged>>

DualOther(t) ==
  /\ at[t] \in {"check", "checkTry"} /\ owner # t
  /\ Goto(t, IF at[t] = "check" THEN "block" ELSE "idle")
  /\ UNCHANGED <<entries, value, holder, owner, depth, barged>>

\* if not, acquire() waits for it,
DualBlock(t) ==
  /\ at[t] = "block" /\ holder = None
  /\ holder' = t
  /\ Goto(t, "own")
  /\ UNCHANGED <<entries, value, owner, depth, barged>>

\* and then becomes the owner.
DualOwn(t) ==
  /\ at[t] = "own"
  /\ Own(t) /\ Entered(t)
  /\ UNCHANGED <<value, holder, barged>>

DualRelease(t) ==
  /\ MayLeave(t) /\ Left(t)
  /\ depth' = depth - 1
  /\ IF depth = 1 THEN owner' = None /\ holder' = None
     ELSE UNCHANGED <<owner, holder>>
  /\ UNCHANGED <<at, value, barged>>

DualNext ==
  \E t \in Threads :
    \/ \E refused \in {"check", "checkTry"} : DualTry(t, refused)
    \/ DualAgain(t) \/ DualOther(t) \/ DualBlock(t) \/ DualOwn(t)
    \/ DualRelease(t)

-----------------------------------------------------------------------------
(* One lock: acquire() looks again and again, tryAcquire() once. *)

SimpleAcquire(t) ==
  /\ MayEnter(t) /\ owner \in {None, t}
  /\ Own(t) /\ Entered(t)
  /\ UNCHANGED <<value, holder, barged>>

SimpleRelease(t) ==
  /\ MayLeave(t) /\ Left(t)
  /\ depth' = depth - 1
  /\ owner' = IF depth = 1 THEN None ELSE owner
  /\ UNCHANGED <<at, value, holder, barged>>

SimpleNext == \E t \in Threads : SimpleAcquire(t) \/ SimpleRelease(t)

-----------------------------------------------------------------------------
(* A condition variable. *)

\* acquire() and tryAcquire() of a lock that is free or the caller's;
ConditionAcquire(t) ==
  /\ MayEnter(t) /\ owner \in {None, t}
  /\ Own(t) /\ Entered(t)
  /\ UNCHANGED <<value, holder, barged>>

\* otherwise acquire() sleeps,
ConditionSleep(t) ==
  /\ MayEnter(t) /\ owner \notin {None, t}
  /\ Goto(t, "asleep")
  /\ UNCHANGED <<entries, value, holder, owner, depth, barged>>

\* and takes the lock when it wakes: pthread_cond_wait has not returned EINTR, and
\* the loop does not look whether there is an owner again.
ConditionWake(t) ==
  /\ at[t] = "woken"
  /\ barged' = (barged \/ owner # None)
  /\ Own(t) /\ Entered(t)
  /\ UNCHANGED <<value, holder>>

\* pthread_cond_signal() wakes one of those that sleep.
Wakes ==
  LET sleepers == {u \in Threads : at[u] = "asleep"}
  IN IF sleepers = {} THEN UNCHANGED at
     ELSE \E u \in sleepers : Goto(u, "woken")

ConditionRelease(t) ==
  /\ MayLeave(t) /\ Left(t)
  /\ depth' = depth - 1
  /\ IF depth = 1 THEN owner' = None /\ Wakes ELSE UNCHANGED <<owner, at>>
  /\ UNCHANGED <<value, holder, barged>>

ConditionNext ==
  \E t \in Threads :
    \/ ConditionAcquire(t) \/ ConditionSleep(t) \/ ConditionWake(t)
    \/ ConditionRelease(t)

-----------------------------------------------------------------------------
(* An atomic word with the owner's id; _count is the owner's alone. *)

AtomicSwap(t) ==
  /\ MayEnter(t) /\ owner \in {None, t}
  /\ owner' = t
  /\ Goto(t, "count")
  /\ UNCHANGED <<entries, value, holder, depth, barged>>

AtomicCount(t) ==
  /\ at[t] = "count"
  /\ depth' = depth + 1
  /\ Entered(t)
  /\ UNCHANGED <<value, holder, owner, barged>>

AtomicLeave(t) ==
  /\ MayLeave(t) /\ Left(t)
  /\ depth' = depth - 1
  /\ Goto(t, IF depth = 1 THEN "free" ELSE "idle")
  /\ UNCHANGED <<value, holder, owner, barged>>

AtomicFree(t) ==
  /\ at[t] = "free"
  /\ owner' = None
  /\ Goto(t, "idle")
  /\ UNCHANGED <<entries, value, holder, depth, barged>>

AtomicNext ==
  \E t \in Threads :
    AtomicSwap(t) \/ AtomicCount(t) \/ AtomicLeave(t) \/ AtomicFree(t)

-----------------------------------------------------------------------------
\* Nobody sleeps at a free lock when nobody else has been woken to take it.
SleepersWoken ==
  owner = None /\ (\E t \in Threads : at[t] = "asleep")
    => \E t \in Threads : at[t] = "woken"

=============================================================================
