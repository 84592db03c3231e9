------------------------------- MODULE Waiting -------------------------------
(***************************************************************************)
(* How threads wait for a synchronization object and are woken: the part   *)
(* that MutexImpl, RecursiveMutexImpl, SemaphoreImpl and ConditionImpl     *)
(* have in common.                                                         *)
(*                                                                         *)
(* The object has a list of waiting threads under an internal lock, _lock. *)
(* A thread that has to wait enters the list, locks its own Monitor, gives *)
(* up _lock and waits on the Monitor; afterwards it takes _lock back and   *)
(* leaves the list.  A thread that frees the object scans the list under   *)
(* _lock and notifies a waiter whose Monitor it can lock at once; when all *)
(* of them are locked it gives up _lock for a moment and tries again.      *)
(*                                                                         *)
(* The Monitor of each thread is the one of module StickyMonitor, with its *)
(* external lock made visible.  Acquiring a lock is a step of its own      *)
(* wherever a thread can have to wait for it; from there on a step goes as *)
(* far as the next such point.  The actions here say what happens to the   *)
(* variables declared here; an object adds what happens to its own.        *)
(***************************************************************************)
EXTENDS Naturals, Status, SequencesExt

CONSTANTS
  Threads,     \* the threads that use the object
  Observers,   \* threads that only take Monitor locks: isActive(), setPriority()
  None,        \* no thread: a lock that is free, an object without owner
  Rank,        \* the order of the list
  Interrupts,  \* whether threads are interrupted
  Timeouts     \* whether threads wait with a timeout

ASSUME WaitingAssumption ==
  /\ IsFiniteSet(Threads)
  /\ None \notin Threads \cup Observers
  /\ Threads \cap Observers = {}
  /\ Rank \in [Threads -> Nat]
  /\ Interrupts \in BOOLEAN /\ Timeouts \in BOOLEAN

-----------------------------------------------------------------------------
(* The lists of waiting threads (src/src/Scheduling.h).  A fifo_list is a  *)
(* deque that grows at the back; a priority_list is kept sorted by         *)
(* priority, highest first, and among equals by the address of the thread, *)
(* which is arbitrary but fixed.                                           *)
(*                                                                         *)
(* Both are covered by a rank: all threads have the same one in a          *)
(* fifo_list, and distinct ones, in the order of priority and address, in  *)
(* a priority_list.  Priorities do not change while a thread waits.        *)

\* For Rank: in a fifo_list nobody is preferred,
FifoRank == [t \in Threads |-> 0]

\* and in a priority_list one is before the other.
PriorityRank ==
  CHOOSE rank \in [Threads -> 1 .. Cardinality(Threads)] : IsInjective(rank)

\* Wrong on purpose: the newcomer is put before those of its own rank.
Insert_Front(rank, q, t) ==
  InsertAt(q, 1 + Cardinality({i \in DOMAIN q : rank[q[i]] < rank[t]}), t)

\* List::insert(val): after everyone of the same or of a better rank.
Insert(rank, q, t) ==
  InsertAt(q, 1 + Cardinality({i \in DOMAIN q : rank[q[i]] <= rank[t]}), t)

\* Wrong on purpose: those of the same rank change their order.
Place_Unstable(rank, q, i) ==
  Cardinality({j \in DOMAIN q : \/ rank[q[j]] < rank[q[i]]
                                \/ rank[q[j]] = rank[q[i]] /\ j >= i})

\* std::sort(): q by rank, those of the same rank in the order they have in q.
Place(rank, q, i) ==
  Cardinality({j \in DOMAIN q : \/ rank[q[j]] < rank[q[i]]
                                \/ rank[q[j]] = rank[q[i]] /\ j <= i})

Sorted(rank, q) ==
  [n \in DOMAIN q |-> q[CHOOSE i \in DOMAIN q : Place(rank, q, i) = n]]

\* Wrong on purpose: the entry stays.
Erase_Not(q, t) == q

\* std::find, and erase if found.
Erase(q, t) == RemoveFirst(q, t)

-----------------------------------------------------------------------------

VARIABLES
  waiters,   \* _waiters
  flock,     \* holder of _lock
  mlock,     \* holder of the external lock of each thread's Monitor
  pending,   \* _pending of each thread's Monitor
  state,     \* what each thread's last wait() returned
  kind,      \* how long each thread waits: "forever", "timed" or "now"
  cursor,    \* the iterator of the thread that scans the list, under _lock
  pc         \* where each thread is

monitors == <<mlock, pending>>
locals   == <<state, kind>>
waitVars == <<waiters, flock, cursor, monitors, locals, pc>>

\* acquire() or wait(), the same with timeout 0, and with a timeout.
Kinds == {"forever", "now"} \cup (IF Timeouts THEN {"timed"} ELSE {})

\* A thread inside its wait is at one of these.
Inside == {"w_monitor", "w_wait", "w_sleep", "w_woken", "w_relock"}

\* A thread that looks for a waiter to notify is at one of these.
Searching == {"r_scan", "r_backoff"}

\* Outside are the locations that the object adds.
WaitTypeOK(Outside) ==
  /\ waiters \in Seq(Threads)
  /\ flock \in Threads \cup {None}
  /\ mlock \in [Threads -> Threads \cup Observers \cup {None}]
  /\ pending \in [Threads -> SUBSET Flags]
  /\ state \in [Threads -> States]
  /\ kind \in [Threads -> {"forever", "now", "timed"}]
  /\ cursor \in Nat
  /\ pc \in [Threads -> {"idle"} \cup Inside \cup Searching \cup Outside]

WaitInit ==
  /\ waiters = <<>>
  /\ flock = None
  /\ mlock = [t \in Threads |-> None]
  /\ pending = [t \in Threads |-> {}]
  /\ state = [t \in Threads |-> INVALID]
  /\ kind = [t \in Threads |-> "now"]
  /\ cursor = 0
  /\ pc = [t \in Threads |-> "idle"]

\* Wrong on purpose: the lock is kept.
Unlock_Not(t) == mlock

Lock(t, u) == [mlock EXCEPT ![t] = u]
Unlock(t)  == [mlock EXCEPT ![t] = None]

Goto(t, label) == pc' = [pc EXCEPT ![t] = label]

\* The call returns, and with it its local variables are gone.
Forget(t) ==
  /\ Goto(t, "idle")
  /\ kind' = [kind EXCEPT ![t] = "now"]
  /\ state' = [state EXCEPT ![t] = INVALID]

\* t calls an operation that may wait for the time k, or one that does not wait.
CallToWait(t, k, label) ==
  /\ pc[t] = "idle"
  /\ kind' = [kind EXCEPT ![t] = k]
  /\ Goto(t, label)
  /\ UNCHANGED <<waiters, flock, cursor, monitors, state>>

Call(t, label) ==
  /\ pc[t] = "idle"
  /\ Goto(t, label)
  /\ UNCHANGED <<waiters, flock, cursor, monitors, locals>>

\* An operation for which t needs _lock only for a moment, and returns.
Return(t, label) ==
  /\ pc[t] = label /\ flock = None
  /\ Forget(t)
  /\ UNCHANGED <<waiters, flock, cursor, monitors>>

-----------------------------------------------------------------------------
(* Waiting. *)

\* Into the list, which becomes q, and still under _lock.
Enlist(t, label, q) ==
  /\ pc[t] = label /\ flock = None
  /\ waiters' = q
  /\ flock' = t
  /\ Goto(t, "w_monitor")
  /\ UNCHANGED <<monitors, locals, cursor>>

\* m.acquire(), and the UnlockedScope gives up _lock.
EnterMonitor(t) ==
  /\ pc[t] = "w_monitor" /\ mlock[t] = None
  /\ mlock' = Lock(t, t)
  /\ flock' = None
  /\ Goto(t, "w_wait")
  /\ UNCHANGED <<waiters, locals, cursor, pending>>

\* m.wait() finds a state pending and reports it, or
WaitSkip(t) ==
  /\ pc[t] = "w_wait"
  /\ Pending(pending[t], ANYTHING, ANYTHING)
  /\ state' = [state EXCEPT ![t] = NextState(pending[t], ANYTHING)]
  /\ pending' = [pending EXCEPT ![t] = AfterNext(@, ANYTHING)]
  /\ Goto(t, "w_relock")
  /\ UNCHANGED <<waiters, flock, cursor, mlock, kind>>

\* goes to sleep without the lock of the Monitor;
WaitSleep(t) ==
  /\ pc[t] = "w_wait"
  /\ ~Pending(pending[t], ANYTHING, ANYTHING)
  /\ mlock' = Unlock(t)
  /\ Goto(t, "w_sleep")
  /\ UNCHANGED <<waiters, locals, flock, cursor, pending>>

\* the sleep ends with the states p, and
EndSleep(t, p) ==
  /\ pc[t] = "w_sleep"
  /\ state' = [state EXCEPT ![t] = NextState(p, ANYTHING)]
  /\ pending' = [pending EXCEPT ![t] = AfterNext(p, ANYTHING)]
  /\ Goto(t, "w_woken")
  /\ UNCHANGED <<waiters, flock, cursor, mlock, kind>>

Wake(t) ==
  /\ Pending(pending[t], ANYTHING, ANYTHING)
  /\ EndSleep(t, pending[t])

Expire(t) ==
  /\ kind[t] = "timed"
  /\ EndSleep(t, pending[t] \cup {TIMEDOUT})

\* the Monitor is locked again before m.wait() returns.
WaitReturn(t) ==
  /\ pc[t] = "w_woken" /\ mlock[t] = None
  /\ mlock' = Lock(t, t)
  /\ Goto(t, "w_relock")
  /\ UNCHANGED <<waiters, locals, flock, cursor, pending>>

\* The end of the UnlockedScope takes _lock again; m.release(), and off the list
\* if still on it.  What the state means is the object's business.
Leave(t) ==
  /\ pc[t] = "w_relock" /\ flock = None
  /\ mlock' = Unlock(t)
  /\ waiters' = Erase(waiters, t)
  /\ UNCHANGED <<flock, cursor, pending>>

\* What of this needs a lock and what does not.
WaitForLock(t) == EnterMonitor(t) \/ WaitReturn(t)
WaitRun(t)     == WaitSkip(t) \/ WaitSleep(t) \/ Wake(t)
Wait(t)        == WaitForLock(t) \/ WaitRun(t) \/ Expire(t)

-----------------------------------------------------------------------------
(* Looking for a waiter to notify. *)

\* t has got _lock and begins at the front of the list.
StartScan(t, label) ==
  /\ pc[t] = label /\ flock = None
  /\ flock' = t
  /\ cursor' = 1
  /\ Goto(t, "r_scan")
  /\ UNCHANGED <<waiters, monitors, locals>>

Scanning(t) == pc[t] = "r_scan" /\ cursor \in DOMAIN waiters
Scanned(t)  == pc[t] = "r_scan" /\ cursor > Len(waiters)

EndScan(t) ==
  /\ flock' = None
  /\ cursor' = 0
  /\ Goto(t, "idle")

\* m.tryAcquire() succeeds, m.notify() too, and after m.release() the search is
\* over.  Nothing of the waiter's depends on the short time its lock is held.
\* The list becomes q.
ScanNotify(t, q) ==
  /\ Scanning(t)
  /\ LET w == waiters[cursor] IN
       /\ mlock[w] = None
       /\ Notifiable(pending[w], ANYTHING)
       /\ pending' = [pending EXCEPT ![w] = AfterNotify(@, ANYTHING)]
  /\ waiters' = q
  /\ EndScan(t)
  /\ UNCHANGED <<locals, mlock>>

\* m.tryAcquire() fails: on to the next waiter.
ScanSkip(t) ==
  /\ Scanning(t)
  /\ mlock[waiters[cursor]] # None
  /\ cursor' = cursor + 1
  /\ UNCHANGED <<waiters, monitors, locals, flock, pc>>

\* Wrong on purpose: no second attempt when every waiter was busy.
AllBusy_Ignored == FALSE

AllBusy == waiters # <<>>

ScanDone(t) ==
  /\ Scanned(t) /\ ~AllBusy
  /\ EndScan(t)
  /\ UNCHANGED <<waiters, monitors, locals>>

\* Every waiter was busy: give up _lock, yield and
Backoff(t) ==
  /\ Scanned(t) /\ AllBusy
  /\ flock' = None
  /\ cursor' = 0
  /\ Goto(t, "r_backoff")
  /\ UNCHANGED <<waiters, monitors, locals>>

\* start again.
Retry(t) == StartScan(t, "r_backoff")

ScanOn(t) == ScanSkip(t) \/ ScanDone(t) \/ Backoff(t)

-----------------------------------------------------------------------------
(* What other threads do to a Monitor. *)

\* Thread::interrupt(), from any thread.
Interrupt(t) ==
  /\ Interrupts
  /\ pending' = [pending EXCEPT ![t] = AfterInterrupt(@, ANYTHING)]
  /\ UNCHANGED <<waiters, locals, flock, cursor, mlock, pc>>

\* Thread::interrupted(), by the thread itself.
Interrupted(t) ==
  /\ pc[t] = "idle"
  /\ pending' = [pending EXCEPT ![t] = AfterIsInterrupted(@)]
  /\ UNCHANGED <<waiters, locals, flock, cursor, mlock, pc>>

\* ThreadImpl's isActive(), isReference(), setPriority() lock a Monitor briefly.
Observe(x, t) ==
  /\ mlock[t] = None
  /\ \A u \in Threads : mlock[u] # x
  /\ mlock' = Lock(t, x)
  /\ UNCHANGED <<waiters, locals, flock, cursor, pending, pc>>

Observed(x, t) ==
  /\ mlock[t] = x
  /\ mlock' = Unlock(t)
  /\ UNCHANGED <<waiters, locals, flock, cursor, pending, pc>>

Outsiders(t) ==
  \/ Interrupt(t) \/ Interrupted(t)
  \/ \E x \in Observers : Observe(x, t) \/ Observed(x, t)

-----------------------------------------------------------------------------
(* Properties of every object of this kind. *)

\* Everybody inside a wait is listed, once, and nobody else is.
WaitersInside ==
  /\ ToSet(waiters) = {t \in Threads : pc[t] \in Inside}
  /\ \A i, j \in DOMAIN waiters : waiters[i] = waiters[j] => i = j

\* _lock is held by the thread that scans the list or enters it, and a thread
\* inside its wait() without _lock holds the lock of its own Monitor.
LocksHeld ==
  /\ \A t \in Threads :
       flock = t <=> pc[t] \in {"w_monitor", "r_scan"}
  /\ \A t \in Threads :
       mlock[t] \in Threads => mlock[t] = t /\ pc[t] \in {"w_wait", "w_relock"}

\* t waits for the object and has been notified.
Signaled(t) ==
  /\ pc[t] \in Inside
  /\ SIGNALED \in pending[t] \/ state[t] = SIGNALED

\* A notification meant for this object does not outlive the wait it was for: a
\* thread that is not waiting carries no SIGNALED into whatever it waits for
\* next.
NoStaleSignal ==
  \A t \in Threads : SIGNALED \in pending[t] => pc[t] \in Inside

\* The list names each waiter at most once and nobody else, and a thread that
\* the scan took off it does not sleep on: it has something to wake up for.
UnlistedWakes ==
  /\ \A i, j \in DOMAIN waiters : waiters[i] = waiters[j] => i = j
  /\ \A t \in ToSet(waiters) : pc[t] \in Inside
  /\ \A t \in Threads :
       pc[t] = "w_sleep" /\ t \notin ToSet(waiters)
         => Pending(pending[t], ANYTHING, ANYTHING)

\* The internal locks deadlock nobody: a thread that wants one of them gets it
\* and goes on to sleep, to scan the list or to return.
InternalLocksFree ==
  \A t \in Threads :
    pc[t] \in {"a_lock", "w_monitor", "w_woken", "w_relock", "r_lock"}
      ~> pc[t] \in {"idle", "w_wait", "w_sleep", "r_scan"}

=============================================================================
