---------------------------- MODULE ConditionImpl ----------------------------
(***************************************************************************)
(* The condition template behind Condition and PriorityCondition           *)
(* (src/src/ConditionImpl.h).  A thread that waits gives up the predicate  *)
(* lock only when it has got _lock, under which it enters the list: who    *)
(* holds the predicate lock next and signals finds it there.  The scan     *)
(* takes every waiter whose Monitor it can lock off the list; signal()     *)
(* ends with the first that it wakes, broadcast() when the list is empty.  *)
(*                                                                         *)
(* The predicate lock is any Lockable; here, one that is taken and given   *)
(* back in one step each and whose acquire() is not interrupted, as the    *)
(* DeferredInterruptionScope of wait() sees to.                            *)
(***************************************************************************)
EXTENDS Waiting

CONSTANTS
  Sleepers,   \* the threads that wait
  Wakers      \* the threads that signal and broadcast

ASSUME ConditionAssumption == Sleepers \cup Wakers = Threads

VARIABLES
  predicate,   \* holder of _predicateLock
  waking       \* what each thread's call does: "nothing", "signal", "broadcast"

condition == <<predicate, waking>>
vars      == <<condition, waitVars>>

TypeOK ==
  /\ WaitTypeOK({"c_wait", "c_predicate", "r_lock"})
  /\ predicate \in Threads \cup {None}
  /\ waking \in [Threads -> {"nothing", "signal", "broadcast"}]

Init ==
  /\ WaitInit
  /\ predicate = None
  /\ waking = [t \in Threads |-> "nothing"]

-----------------------------------------------------------------------------
(* The client takes and gives back the predicate lock. *)

PredicateAcquire(t) ==
  /\ pc[t] = "idle" /\ predicate = None
  /\ predicate' = t
  /\ UNCHANGED <<waking, waitVars>>

PredicateRelease(t) ==
  /\ pc[t] = "idle" /\ predicate = t
  /\ predicate' = None
  /\ UNCHANGED <<waking, waitVars>>

-----------------------------------------------------------------------------
(* wait() and wait(timeout). *)

\* Wrong on purpose: the predicate lock is given up before _lock is taken.
WaitCall_Early(t, k) ==
  /\ t \in Sleepers
  /\ predicate = t
  /\ CallToWait(t, k, "c_wait")
  /\ predicate' = None
  /\ UNCHANGED waking

WaitCall(t, k) ==
  /\ t \in Sleepers
  /\ predicate = t
  /\ CallToWait(t, k, "c_wait")
  /\ UNCHANGED condition

\* Under _lock the predicate lock is released and the list entered.
WaitEnlist(t) ==
  /\ kind[t] # "now"
  /\ Enlist(t, "c_wait", Insert(Rank, waiters, t))
  /\ predicate' = None
  /\ UNCHANGED waking

\* wait(0) releases it, too, enters the list and leaves it again under the same
\* _lock.
WaitGiveUp(t) ==
  /\ kind[t] = "now"
  /\ pc[t] = "c_wait" /\ flock = None
  /\ predicate' = None
  /\ state' = [state EXCEPT ![t] = TIMEDOUT]
  /\ Goto(t, "c_predicate")
  /\ UNCHANGED <<waking, waiters, flock, cursor, monitors, kind>>

\* Off the list if still on it, whatever ended the wait,
WaitLeave(t) ==
  /\ Leave(t)
  /\ Goto(t, "c_predicate")
  /\ UNCHANGED <<condition, locals>>

\* and back with the predicate lock, also to throw an exception.
WaitPredicate(t) ==
  /\ pc[t] = "c_predicate" /\ predicate = None
  /\ predicate' = t
  /\ Forget(t)
  /\ UNCHANGED <<waking, waiters, flock, cursor, monitors>>

-----------------------------------------------------------------------------
(* signal() and broadcast(), with the predicate lock or without. *)

Signal(t) ==
  /\ t \in Wakers
  /\ Call(t, "r_lock")
  /\ waking' = [waking EXCEPT ![t] = "signal"]
  /\ UNCHANGED predicate

Broadcast(t) ==
  /\ t \in Wakers
  /\ Call(t, "r_lock")
  /\ waking' = [waking EXCEPT ![t] = "broadcast"]
  /\ UNCHANGED predicate

Enter(t) ==
  /\ StartScan(t, "r_lock")
  /\ UNCHANGED condition

\* signal() is over with the waiter it has notified,
SignalNotify(t) ==
  /\ waking[t] = "signal"
  /\ ScanNotify(t, RemoveAt(waiters, cursor))
  /\ waking' = [waking EXCEPT ![t] = "nothing"]
  /\ UNCHANGED predicate

\* Wrong on purpose: broadcast() takes a waiter off the list without a notify().
Drop_Silent(t) ==
  /\ Scanning(t)
  /\ LET w == waiters[cursor] IN
       /\ mlock[w] = None
       /\ waking[t] = "signal" => ~Notifiable(pending[w], ANYTHING)
  /\ waiters' = RemoveAt(waiters, cursor)
  /\ UNCHANGED <<condition, monitors, locals, flock, cursor, pc>>

\* but not with one that refused; broadcast() goes on in any case.
Drop(t) ==
  /\ Scanning(t)
  /\ LET w == waiters[cursor] IN
       /\ mlock[w] = None
       /\ waking[t] = "signal" => ~Notifiable(pending[w], ANYTHING)
       /\ pending' = [pending EXCEPT ![w] = AfterNotify(@, ANYTHING)]
  /\ waiters' = RemoveAt(waiters, cursor)
  /\ UNCHANGED <<condition, mlock, locals, flock, cursor, pc>>

\* Nobody left in the list.
NobodyLeft(t) ==
  /\ ScanDone(t)
  /\ waking' = [waking EXCEPT ![t] = "nothing"]
  /\ UNCHANGED predicate

-----------------------------------------------------------------------------
Next ==
  \E t \in Threads :
    \/ PredicateAcquire(t) \/ PredicateRelease(t)
    \/ \E k \in Kinds : WaitCall(t, k)
    \/ WaitEnlist(t) \/ WaitGiveUp(t) \/ WaitLeave(t) \/ WaitPredicate(t)
    \/ Wait(t) /\ UNCHANGED condition
    \/ Signal(t) \/ Broadcast(t)
    \/ Enter(t) \/ SignalNotify(t) \/ Drop(t) \/ NobodyLeft(t)
    \/ (ScanSkip(t) \/ Backoff(t) \/ Retry(t)) /\ UNCHANGED condition
    \/ Outsiders(t) /\ UNCHANGED condition

(***************************************************************************)
(* As for MutexImpl: threads run, and the internal locks are given to      *)
(* those that want them.  Nobody has to wait or to signal, and the client  *)
(* may keep the predicate lock.                                            *)
(***************************************************************************)
TakeLock(t) ==
  \/ WaitEnlist(t) \/ WaitGiveUp(t) \/ WaitLeave(t) \/ Enter(t)
  \/ (WaitForLock(t) \/ Retry(t)) /\ UNCHANGED condition

Run(t) ==
  \/ (WaitRun(t) \/ ScanSkip(t) \/ Backoff(t)) /\ UNCHANGED condition
  \/ SignalNotify(t) \/ Drop(t) \/ NobodyLeft(t)

Fairness ==
  \A t \in Threads :
    /\ SF_vars(TakeLock(t))
    /\ WF_vars(Run(t))
    /\ \A x \in Observers : WF_vars(Observed(x, t) /\ UNCHANGED condition)

Spec == Init /\ [][Next]_vars /\ Fairness

-----------------------------------------------------------------------------
(* Properties. *)

\* Where a thread stands in terms of AbstractCondition, and what its signal() or
\* broadcast() still has to do.
Phase(t) ==
  IF pc[t] \notin Inside \cup {"c_predicate"} THEN "out"
  ELSE IF state[t] = SIGNALED \/ (state[t] = INVALID /\ SIGNALED \in pending[t])
    THEN "woken"
  ELSE IF state[t] # INVALID \/ INTERRUPTED \in pending[t] THEN "ended"
  ELSE "blocked"

Owed(t) ==
  CASE waking[t] = "signal"    -> "one"
    [] waking[t] = "broadcast" -> "all"
    [] OTHER                   -> "nothing"

Abstract == INSTANCE AbstractCondition WITH
  Disturbed <- Interrupts \/ Timeouts,
  holder    <- predicate,
  phase     <- [t \in Threads |-> Phase(t)],
  owed      <- [t \in Threads |-> Owed(t)]

\* No signal is lost and no wait is missed: between the release of the predicate
\* lock and the sleep there is no moment at which a signal() does not find the
\* waiter, and a signal() or broadcast() that returns has woken its waiters or
\* there were none, however often the scan had to back off.
ImplementsCondition == Abstract!Spec

\* "Wake all threads waiting on the condition": a broadcast() reaches the threads
\* that wait while it goes on, also if other threads come and go.
BroadcastReaches ==
  \A t \in Threads :
    (/\ pc[t] \in Inside
     /\ \E u \in Threads : waking[u] = "broadcast" /\ pc[u] \in Searching)
      ~> pc[t] \notin Inside

=============================================================================
