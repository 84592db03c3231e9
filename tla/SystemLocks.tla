----------------------------- MODULE SystemLocks -----------------------------
(***************************************************************************)
(* The FastLocks and FastRecursiveLocks that are a mutex of the system:    *)
(* src/src/posix/FastLock.h, macos/FastLock.h, win32/FastLock.h,           *)
(* linux/FastRecursiveLock.h, solaris/FastRecursiveLock.h and              *)
(* win32/FastRecursiveLock.h.  The mutex is its owner and its count; a     *)
(* thread that has to wait is at the call, which has done nothing yet.     *)
(***************************************************************************)
EXTENDS FastLocks

Init == LockInit(0)

TypeOK == LockTypeOK({"locked?", "unlock"})

\* The system's mutexes: a plain one, and one that its owner enters again.
Lock(t)       == owner = None /\ owner' = t /\ depth' = 1
Unlock(t)     == owner = t /\ owner' = None /\ depth' = 0
LockAgain(t)  == owner \in {None, t} /\ owner' = t /\ depth' = depth + 1
UnlockOnce(t) ==
  /\ owner = t
  /\ depth' = depth - 1
  /\ owner' = IF depth = 1 THEN None ELSE t

-----------------------------------------------------------------------------
\* posix: pthread_mutex_lock() or pthread_mutex_trylock().
PosixAcquire(t) ==
  /\ MayEnter(t) /\ Lock(t) /\ Entered(t)
  /\ UNCHANGED <<value, holder>>

PosixRelease(t) ==
  /\ MayLeave(t) /\ Unlock(t) /\ Left(t)
  /\ UNCHANGED <<at, value, holder>>

PosixNext == \E t \in Threads : PosixAcquire(t) \/ PosixRelease(t)

\* macos: a critical region, with a timeout or without.  Its owner enters it again.
MacAcquire(t) ==
  /\ MayEnter(t) /\ LockAgain(t) /\ Entered(t)
  /\ UNCHANGED <<value, holder>>

MacRelease(t) ==
  /\ MayLeave(t) /\ UnlockOnce(t) /\ Left(t)
  /\ UNCHANGED <<at, value, holder>>

MacNext == \E t \in Threads : MacAcquire(t) \/ MacRelease(t)

-----------------------------------------------------------------------------
(* win32: a Mutex, that its owner may take again; to make that deadlock as *)
(* elsewhere, a debug build then waits for _locked to become false.        *)

Win32Take(t) ==
  /\ MayEnter(t) /\ LockAgain(t)
  /\ Goto(t, "locked?")
  /\ UNCHANGED <<entries, value, holder>>

Win32Enter(t) ==
  /\ at[t] = "locked?" /\ value = 0
  /\ value' = 1
  /\ Entered(t)
  /\ UNCHANGED <<holder, owner, depth>>

Win32Release(t) ==
  /\ MayLeave(t)
  /\ value' = 0
  /\ Left(t)
  /\ Goto(t, "unlock")
  /\ UNCHANGED <<holder, owner, depth>>

Win32Unlock(t) ==
  /\ at[t] = "unlock" /\ UnlockOnce(t)
  /\ Goto(t, "idle")
  /\ UNCHANGED <<entries, value, holder>>

Win32Next ==
  \E t \in Threads :
    Win32Take(t) \/ Win32Enter(t) \/ Win32Release(t) \/ Win32Unlock(t)

-----------------------------------------------------------------------------
(* The recursive ones of linux, solaris and win32. *)

LinuxAcquire(t) ==
  /\ MayEnter(t) /\ LockAgain(t) /\ Entered(t)
  /\ UNCHANGED <<value, holder>>

LinuxRelease(t) ==
  /\ MayLeave(t) /\ UnlockOnce(t) /\ Left(t)
  /\ UNCHANGED <<at, value, holder>>

LinuxNext == \E t \in Threads : LinuxAcquire(t) \/ LinuxRelease(t)

SolarisAcquire(t) ==
  /\ MayEnter(t) /\ LockAgain(t) /\ Entered(t)
  /\ UNCHANGED <<value, holder>>

SolarisRelease(t) ==
  /\ MayLeave(t) /\ UnlockOnce(t) /\ Left(t)
  /\ UNCHANGED <<at, value, holder>>

SolarisNext == \E t \in Threads : SolarisAcquire(t) \/ SolarisRelease(t)

MutexAcquire(t) ==
  /\ MayEnter(t) /\ LockAgain(t) /\ Entered(t)
  /\ UNCHANGED <<value, holder>>

MutexRelease(t) ==
  /\ MayLeave(t) /\ UnlockOnce(t) /\ Left(t)
  /\ UNCHANGED <<at, value, holder>>

MutexNext == \E t \in Threads : MutexAcquire(t) \/ MutexRelease(t)

=============================================================================
