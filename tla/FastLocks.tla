------------------------------ MODULE FastLocks ------------------------------
(***************************************************************************)
(* What the implementations of FastLock and FastRecursiveLock have in      *)
(* common.  FastMutex and FastRecursiveMutex (src/src/FastMutex.cxx,       *)
(* FastRecursiveMutex.cxx) are the one that the build selects.             *)
(*                                                                         *)
(* Any thread may try to enter, also one that is inside already.  Of the   *)
(* attempts that fail only those appear that leave a trace: a spinning     *)
(* thread that finds the lock taken has done nothing.                      *)
(***************************************************************************)
EXTENDS Integers

CONSTANTS
  Threads,
  None,       \* no thread
  MaxDepth    \* bound of the model: how often a thread enters before it leaves

\* What a user of these modules assumes of the constants.
LocksAssumption == None \notin Threads /\ MaxDepth \in Nat

VARIABLES
  at,         \* what each thread does: "idle", or a step inside a call
  entries,    \* how often each thread has entered and not left
  value,      \* the word that a spin lock changes atomically, or a flag
  holder,     \* the thread that has the lock that others wait for
  owner,      \* _owner, or the owner of a recursive lock of the system
  depth       \* _count

locks == <<at, entries, value, holder, owner, depth>>

LockTypeOK(Labels) ==
  /\ at \in [Threads -> {"idle"} \cup Labels]
  /\ entries \in [Threads -> 0 .. MaxDepth]
  /\ value \in Int
  /\ {holder, owner} \subseteq Threads \cup {None}
  /\ depth \in Nat

LockInit(free) ==
  /\ at = [t \in Threads |-> "idle"]
  /\ entries = [t \in Threads |-> 0]
  /\ value = free
  /\ holder = None /\ owner = None
  /\ depth = 0

Goto(t, label) == at' = [at EXCEPT ![t] = label]

\* acquire() or tryAcquire() begins and release() begins;
MayEnter(t) == at[t] = "idle" /\ entries[t] < MaxDepth
MayLeave(t) == at[t] = "idle" /\ entries[t] > 0

\* t returns from acquire() or, with the answer true, from tryAcquire();
Entered(t) ==
  /\ entries' = [entries EXCEPT ![t] = @ + 1]
  /\ Goto(t, "idle")

\* t has left, whatever release() still has to do.
Left(t) == entries' = [entries EXCEPT ![t] = @ - 1]

-----------------------------------------------------------------------------
\* A lock that nobody uses is as it was made: what the destructors assert.
Unused     == \A t \in Threads : at[t] = "idle" /\ entries[t] = 0
AsNew(free) == value = free /\ holder = None /\ owner = None /\ depth = 0

\* Of the threads at most one is inside.
Alone == \A t, u \in Threads : entries[t] > 0 /\ entries[u] > 0 => t = u

=============================================================================
