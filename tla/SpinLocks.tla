------------------------------ MODULE SpinLocks ------------------------------
(***************************************************************************)
(* The FastLocks that spin on one word, which the builds with              *)
(* ZTHREAD_USE_SPIN_LOCKS use: src/src/linux/AtomicFastLock.h counts the   *)
(* word down from one with atomic_dec_and_test and undoes a failure in a   *)
(* second step; win32/AtomicFastLock.h swaps it if it is zero;             *)
(* win9x/AtomicFastLock.h always swaps it.                                 *)
(*                                                                         *)
(* The assignments of linux's _owner are left out: it is only compared in  *)
(* an assertion of debug builds.  So is win9x's tryAcquire(), which writes *)
(* through an uninitialized pointer.                                       *)
(***************************************************************************)
EXTENDS FastLocks

Init(free) == LockInit(free)

TypeOK == LockTypeOK({"spin", "undo", "refuse"})

-----------------------------------------------------------------------------
(* linux: one when free, and one less for each thread that is inside or has *)
(* not undone its failure. *)

\* acquire() takes the word down until it was one,
LinuxAcquire(t) ==
  /\ MayEnter(t) \/ at[t] = "spin"
  /\ value' = value - 1
  /\ IF value = 1 THEN Entered(t) ELSE Goto(t, "undo") /\ UNCHANGED entries
  /\ UNCHANGED <<holder, owner, depth>>

LinuxUndo(t) ==
  /\ at[t] = "undo"
  /\ value' = value + 1
  /\ Goto(t, "spin")
  /\ UNCHANGED <<entries, holder, owner, depth>>

\* tryAcquire() once;
LinuxTry(t) ==
  /\ MayEnter(t)
  /\ value' = value - 1
  /\ IF value = 1 THEN Entered(t) ELSE Goto(t, "refuse") /\ UNCHANGED entries
  /\ UNCHANGED <<holder, owner, depth>>

\* Wrong on purpose: an attempt that fails leaves the word as it is.
LinuxRefuse_Kept(t) ==
  /\ at[t] = "refuse"
  /\ Goto(t, "idle")
  /\ UNCHANGED <<entries, value, holder, owner, depth>>

LinuxRefuse(t) ==
  /\ at[t] = "refuse"
  /\ value' = value + 1
  /\ Goto(t, "idle")
  /\ UNCHANGED <<entries, holder, owner, depth>>

\* release().
LinuxRelease(t) ==
  /\ MayLeave(t)
  /\ value' = value + 1
  /\ Left(t)
  /\ UNCHANGED <<at, holder, owner, depth>>

LinuxNext ==
  \E t \in Threads :
    \/ LinuxAcquire(t) \/ LinuxUndo(t) \/ LinuxTry(t) \/ LinuxRefuse(t)
    \/ LinuxRelease(t)

-----------------------------------------------------------------------------
(* win32 and win9x: zero when free, and one when a thread is inside. *)

\* InterlockedCompareExchange() in acquire() and in tryAcquire();
Win32Acquire(t) ==
  /\ MayEnter(t)
  /\ value = 0 /\ value' = 1
  /\ Entered(t)
  /\ UNCHANGED <<holder, owner, depth>>

Win32Release(t) ==
  /\ MayLeave(t)
  /\ value' = 0
  /\ Left(t)
  /\ UNCHANGED <<at, holder, owner, depth>>

Win32Next == \E t \in Threads : Win32Acquire(t) \/ Win32Release(t)

\* xchg in acquire(): the word is one afterwards, whatever it was.
Win9xAcquire(t) ==
  /\ MayEnter(t)
  /\ value' = 1
  /\ IF value = 0 THEN Entered(t) ELSE UNCHANGED <<at, entries>>
  /\ UNCHANGED <<holder, owner, depth>>

Win9xRelease(t) ==
  /\ MayLeave(t)
  /\ value' = 0
  /\ Left(t)
  /\ UNCHANGED <<at, holder, owner, depth>>

Win9xNext == \E t \in Threads : Win9xAcquire(t) \/ Win9xRelease(t)

=============================================================================
