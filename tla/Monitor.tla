------------------------------- MODULE Monitor -------------------------------
(***************************************************************************)
(* The posix Monitor (src/src/posix/Monitor.h, Monitor.cxx): the object on *)
(* which a ZThread thread blocks, one for every thread.                    *)
(*                                                                         *)
(* A Monitor has two locks.  _lock is the external one: its clients hold   *)
(* it around wait() and, mostly, around notify().  _waitLock protects the  *)
(* status and is the mutex of the condition variable _waitCond.  wait()    *)
(* gives up _lock while it sleeps and takes it again before it returns, so *)
(* between the end of the sleep and the return other threads get in.       *)
(*                                                                         *)
(* One thread owns the Monitor and is the only one to wait on it; the      *)
(* others, Peers, notify, interrupt and cancel it.  Each access to a lock  *)
(* is a step of its own; what happens between pthread_mutex_lock and       *)
(* pthread_mutex_unlock of _waitLock is one step, since every access to    *)
(* _pending and _waiting is made there.  interest() writes _mask without   *)
(* that lock and is a step of its own too.                                 *)
(***************************************************************************)
EXTENDS Status

CONSTANTS
  Owner,      \* the thread the Monitor belongs to
  Peers,      \* the other threads that reach it
  None,       \* no thread
  Spurious    \* whether pthread_cond_wait may return 0 unsignalled

ASSUME MonitorAssumption ==
  /\ Owner \notin Peers
  /\ None \notin Peers \cup {Owner}
  /\ Spurious \in BOOLEAN

Threads == Peers \cup {Owner}

VARIABLES
  lock,       \* holder of _lock
  waitLock,   \* holder of _waitLock
  pending,    \* _pending
  mask,       \* _mask
  waiting,    \* _waiting
  owned,      \* _owner has been set: it is, by the first wait()
  cond,       \* the owner in pthread_cond_(timed)wait: "none", "blocked", or
              \* about to return: "signaled", "timedout", "spurious"
  timed,      \* the current wait() has a timeout
  state,      \* what the last wait() returned
  pc,         \* where each thread is
  op          \* the operation each thread is in

vars == <<lock, waitLock, pending, mask, waiting, owned, cond, timed, state,
          pc, op>>

status == <<pending, mask, waiting, owned, cond, timed, state>>

\* A peer's isCanceled() changes nothing and is left out.
PeerOps  == {"notify", "interrupt", "cancel"}
OwnerOps == {"isInterrupted", "interrupt", "cancel", "isCanceled"}

Waiting == {"w_enter", "w_test", "w_skip", "w_block", "w_blocked",
            "w_next", "w_unlock", "w_relock"}
Calling == {"enter", "body", "leave"}

TypeOK ==
  /\ lock \in Threads \cup {None}
  /\ waitLock \in Threads \cup {None}
  /\ pending \subseteq Flags
  /\ mask \in Masks
  /\ waiting \in BOOLEAN /\ owned \in BOOLEAN /\ timed \in BOOLEAN
  /\ cond \in {"none", "blocked", "signaled", "timedout", "spurious"}
  /\ state \in States
  /\ pc \in [Threads -> {"idle", "held"} \cup Calling \cup Waiting]
  /\ op \in [Threads -> PeerOps \cup OwnerOps \cup {"none"}]

Init ==
  /\ lock = None
  /\ waitLock = None
  /\ pending = {}
  /\ mask = ANYTHING
  /\ waiting = FALSE
  /\ owned = FALSE
  /\ cond = "none"
  /\ timed = FALSE
  /\ state = INVALID
  /\ pc = [t \in Threads |-> "idle"]
  /\ op = [t \in Threads |-> "none"]

Goto(t, label) == pc' = [pc EXCEPT ![t] = label]

-----------------------------------------------------------------------------
(* acquire(), tryAcquire(), release(): the external lock.  A tryAcquire()  *)
(* that fails changes nothing.                                             *)

Acquire(t) ==
  /\ pc[t] = "idle" /\ lock = None
  /\ lock' = t
  /\ Goto(t, "held")
  /\ UNCHANGED <<waitLock, status, op>>

Release(t) ==
  /\ pc[t] = "held"
  /\ lock' = None
  /\ Goto(t, "idle")
  /\ UNCHANGED <<waitLock, status, op>>

-----------------------------------------------------------------------------
(* notify(), interrupt(), cancel(), isInterrupted(), isCanceled().  Peers  *)
(* call notify() with _lock held, except for ThreadQueue's                 *)
(* insertPendingThread(), which does not take it.                          *)

Call(t, o) ==
  /\ pc[t] = "idle" \/ (pc[t] = "held" /\ o = "notify")
  /\ o \in IF t = Owner THEN OwnerOps ELSE PeerOps
  /\ op' = [op EXCEPT ![t] = o]
  /\ Goto(t, "enter")
  /\ UNCHANGED <<lock, waitLock, status>>

Enter(t) ==
  /\ pc[t] = "enter" /\ waitLock = None
  /\ waitLock' = t
  /\ Goto(t, "body")
  /\ UNCHANGED <<lock, status, op>>

\* Wrong on purpose: the condition variable is not signaled.
Signaled_Not == cond

\* pthread_cond_signal: without a thread asleep it has no effect.
Signaled == IF cond = "blocked" THEN "signaled" ELSE cond

\* Whether interrupt() and cancel() signal the condition variable.
InterruptWakes == waiting /\ ~Masked(mask, INTERRUPTED)

Body(t) ==
  /\ pc[t] = "body"
  /\ \/ /\ op[t] = "notify"
        /\ pending' = AfterNotify(pending, mask)
        /\ cond' = IF Notifiable(pending, mask) /\ waiting
                   THEN Signaled ELSE cond
     \/ /\ op[t] \in {"interrupt", "cancel"}
        /\ pending' = IF op[t] = "cancel" THEN AfterCancel(pending, mask)
                      ELSE AfterInterrupt(pending, mask)
        /\ cond' = IF Interruptible(pending, mask) /\ InterruptWakes
                   THEN Signaled ELSE cond
     \/ /\ op[t] = "isInterrupted"
        /\ pending' = AfterIsInterrupted(pending)
        /\ UNCHANGED cond
     \/ /\ op[t] = "isCanceled"
        /\ pending' = AfterIsCanceled(pending, owned /\ t = Owner)
        /\ UNCHANGED cond
  /\ Goto(t, "leave")
  /\ UNCHANGED <<lock, waitLock, mask, waiting, owned, timed, state, op>>

Leave(t) ==
  /\ pc[t] = "leave"
  /\ waitLock' = None
  /\ Goto(t, IF lock = t THEN "held" ELSE "idle")
  /\ op' = [op EXCEPT ![t] = "none"]
  /\ UNCHANGED <<lock, status>>

-----------------------------------------------------------------------------
(* interest(): the owner enters or ends a DeferredInterruptionScope.       *)

Interest(m) ==
  /\ pc[Owner] \in {"idle", "held"}
  /\ mask' = m
  /\ UNCHANGED <<lock, waitLock, pending, waiting, owned, cond, timed, state,
                 pc, op>>

-----------------------------------------------------------------------------
(* wait(ms), called by the owner with _lock held.  Inside a deferred scope *)
(* the library never waits with a timeout.                                 *)

WaitCall(t) ==
  /\ pc[Owner] = "held"
  /\ t => mask = ANYTHING
  /\ owned' = TRUE
  /\ timed' = t
  /\ Goto(Owner, "w_enter")
  /\ UNCHANGED <<lock, waitLock, pending, mask, waiting, cond, state, op>>

WaitEnter ==
  /\ pc[Owner] = "w_enter" /\ waitLock = None
  /\ waitLock' = Owner
  /\ Goto(Owner, "w_test")
  /\ UNCHANGED <<lock, status, op>>

\* A state of interest is pending: report it and keep _lock ...
WaitSkip ==
  /\ pc[Owner] = "w_test"
  /\ Pending(pending, mask, ANYTHING)
  /\ state' = NextState(pending, mask)
  /\ pending' = AfterNext(pending, mask)
  /\ Goto(Owner, "w_skip")
  /\ UNCHANGED <<lock, waitLock, mask, waiting, owned, cond, timed, op>>

WaitSkipUnlock ==
  /\ pc[Owner] = "w_skip"
  /\ waitLock' = None
  /\ Goto(Owner, "held")
  /\ UNCHANGED <<lock, status, op>>

\* ... otherwise give up _lock, and then
WaitRelease ==
  /\ pc[Owner] = "w_test"
  /\ ~Pending(pending, mask, ANYTHING)
  /\ lock' = None
  /\ Goto(Owner, "w_block")
  /\ UNCHANGED <<waitLock, status, op>>

\* set _waiting and sleep, which gives up _waitLock.
WaitBlock ==
  /\ pc[Owner] = "w_block"
  /\ waiting' = TRUE
  /\ cond' = "blocked"
  /\ waitLock' = None
  /\ Goto(Owner, "w_blocked")
  /\ UNCHANGED <<lock, pending, mask, owned, timed, state, op>>

\* The timeout expires, or the sleep ends for no reason.  A return with
\* EINTR goes back to sleep unless a state is pending: no step.
CondTimeout ==
  /\ cond = "blocked" /\ timed
  /\ cond' = "timedout"
  /\ UNCHANGED <<lock, waitLock, pending, mask, waiting, owned, timed, state,
                 pc, op>>

CondSpurious ==
  /\ Spurious
  /\ cond = "blocked"
  /\ cond' = "spurious"
  /\ UNCHANGED <<lock, waitLock, pending, mask, waiting, owned, timed, state,
                 pc, op>>

\* pthread_cond_wait takes _waitLock again before it returns.
WaitResume ==
  /\ pc[Owner] = "w_blocked" /\ cond # "blocked" /\ waitLock = None
  /\ waitLock' = Owner
  /\ Goto(Owner, "w_next")
  /\ UNCHANGED <<lock, status, op>>

\* Wrong on purpose: the status of the call is pushed, not the flag.
Woken_Status == IF cond = "timedout" THEN pending \cup {cond} ELSE pending

\* push(TIMEDOUT) when that is how the sleep ended.
Woken == IF cond = "timedout" THEN pending \cup {TIMEDOUT} ELSE pending

WaitNext ==
  /\ pc[Owner] = "w_next"
  /\ state' = NextState(Woken, mask)
  /\ pending' = AfterNext(Woken, mask)
  /\ waiting' = FALSE
  /\ cond' = "none"
  /\ Goto(Owner, "w_unlock")
  /\ UNCHANGED <<lock, waitLock, mask, owned, timed, op>>

WaitUnlock ==
  /\ pc[Owner] = "w_unlock"
  /\ waitLock' = None
  /\ Goto(Owner, "w_relock")
  /\ UNCHANGED <<lock, status, op>>

WaitRelock ==
  /\ pc[Owner] = "w_relock" /\ lock = None
  /\ lock' = Owner
  /\ Goto(Owner, "held")
  /\ UNCHANGED <<waitLock, status, op>>

Wait ==
  \/ \E t \in BOOLEAN : WaitCall(t)
  \/ WaitEnter \/ WaitSkip \/ WaitSkipUnlock \/ WaitRelease \/ WaitBlock
  \/ WaitResume \/ WaitNext \/ WaitUnlock \/ WaitRelock

-----------------------------------------------------------------------------
Next ==
  \/ \E t \in Threads :
       \/ Acquire(t) \/ Release(t)
       \/ \E o \in PeerOps \cup OwnerOps : Call(t, o)
       \/ Enter(t) \/ Body(t) \/ Leave(t)
  \/ \E m \in Masks : Interest(m)
  \/ Wait
  \/ CondTimeout \/ CondSpurious

(***************************************************************************)
(* A thread that runs keeps running, so whoever holds a lock gives it up   *)
(* (strongly fair: not while it makes one more call under the lock), and a *)
(* thread that keeps finding a lock free in the end gets it (strong        *)
(* fairness of pthread_mutex_lock).  Nobody has to call anything, and no   *)
(* timeout and no spurious wakeup has to happen.                           *)
(***************************************************************************)
Step(t) ==
  \/ Enter(t) \/ Body(t) \/ Leave(t)
  \/ /\ t = Owner
     /\ \/ WaitEnter \/ WaitSkip \/ WaitSkipUnlock \/ WaitRelease \/ WaitBlock
        \/ WaitResume \/ WaitNext \/ WaitUnlock \/ WaitRelock

Fairness == \A t \in Threads : SF_vars(Release(t)) /\ SF_vars(Step(t))

Spec == Init /\ [][Next]_vars /\ Fairness

=============================================================================
