----------------------------- MODULE PortMonitor -----------------------------
(***************************************************************************)
(* What the Monitors of the win32 and the macos port have in common (their *)
(* Monitor.h): the two locks, the status word and the thread that owns     *)
(* them.  Where the posix Monitor sleeps on a condition variable these     *)
(* sleep on an object of the system, that remembers being signaled: an     *)
(* event or a semaphore.                                                   *)
(*                                                                         *)
(* What is done with _waitLock held is one step: it begins or ends no      *)
(* sleep, and only the external lock is waited for.                        *)
(***************************************************************************)
EXTENDS Status

CONSTANTS Owner, Peers, None   \* as in module Monitor

VARIABLES
  lock,      \* holder of _lock
  pending,   \* _pending
  mask,      \* _mask
  waiting,   \* _waiting
  owned,     \* _owner has been set
  timed,     \* the current wait() has a timeout
  state,     \* what the last wait() returned
  pc,        \* where each thread is
  signaled   \* the event is set, the semaphore has been signaled

monitor == <<lock, pending, mask, waiting, owned, timed, state, pc, signaled>>

PortTypeOK(Labels) ==
  /\ lock \in Peers \cup {Owner, None}
  /\ pending \subseteq Flags /\ mask \in Masks
  /\ waiting \in BOOLEAN /\ owned \in BOOLEAN /\ timed \in BOOLEAN
  /\ state \in States
  /\ pc \in [Peers \cup {Owner} -> {"idle", "held"} \cup Labels]
  /\ signaled \in BOOLEAN

PortInit ==
  /\ lock = None
  /\ pending = {} /\ mask = ANYTHING
  /\ waiting = FALSE /\ owned = FALSE /\ timed = FALSE
  /\ state = INVALID
  /\ pc = [t \in Peers \cup {Owner} |-> "idle"]
  /\ signaled = FALSE

Goto(t, label) == pc' = [pc EXCEPT ![t] = label]
Running(t)     == pc[t] \in {"idle", "held"}
Awake          == Running(Owner)

-----------------------------------------------------------------------------
\* acquire() and release() of the external lock.
Acquire(t) ==
  /\ pc[t] = "idle" /\ lock = None
  /\ lock' = t
  /\ Goto(t, "held")
  /\ UNCHANGED <<pending, mask, waiting, owned, timed, state, signaled>>

Release(t) ==
  /\ pc[t] = "held"
  /\ lock' = None
  /\ Goto(t, "idle")
  /\ UNCHANGED <<pending, mask, waiting, owned, timed, state, signaled>>

\* interest(): the owner enters or ends a DeferredInterruptionScope.
Interest(m) ==
  /\ Awake
  /\ mask' = m
  /\ UNCHANGED <<lock, pending, waiting, owned, timed, state, pc, signaled>>

\* isInterrupted() and isCanceled(), by the owner.
IsInterrupted ==
  /\ Awake
  /\ pending' = AfterIsInterrupted(pending)
  /\ UNCHANGED <<lock, mask, waiting, owned, timed, state, pc, signaled>>

IsCanceled ==
  /\ Awake
  /\ pending' = AfterIsCanceled(pending, owned)
  /\ UNCHANGED <<lock, mask, waiting, owned, timed, state, pc, signaled>>

-----------------------------------------------------------------------------
\* wait(ms) reports a state that is pending, and otherwise goes to sleep.
WaitCall(t) ==
  /\ pc[Owner] = "held"
  /\ t => mask = ANYTHING
  /\ owned' = TRUE
  /\ timed' = t

WaitSkip(t) ==
  /\ WaitCall(t)
  /\ Pending(pending, mask, ANYTHING)
  /\ state' = NextState(pending, mask)
  /\ pending' = AfterNext(pending, mask)
  /\ UNCHANGED <<lock, mask, waiting, pc, signaled>>

WaitSleep(t) ==
  /\ WaitCall(t)
  /\ ~Pending(pending, mask, ANYTHING)
  /\ lock' = None
  /\ waiting' = TRUE
  /\ Goto(Owner, "asleep")
  /\ UNCHANGED <<pending, mask, state, signaled>>

\* The call of the system ends for the timeout.
Expire ==
  /\ pc[Owner] = "asleep" /\ timed /\ ~signaled
  /\ Goto(Owner, "late")
  /\ UNCHANGED <<lock, pending, mask, waiting, owned, timed, state, signaled>>

\* push(TIMEDOUT) if so, and next().
Report ==
  LET p == IF pc[Owner] = "late" THEN pending \cup {TIMEDOUT} ELSE pending
  IN /\ state' = NextState(p, mask)
     /\ pending' = AfterNext(p, mask)
     /\ waiting' = FALSE

Relock ==
  /\ pc[Owner] = "relock" /\ lock = None
  /\ lock' = Owner
  /\ Goto(Owner, "held")
  /\ UNCHANGED <<pending, mask, waiting, owned, timed, state, signaled>>

=============================================================================
