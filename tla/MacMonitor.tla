----------------------------- MODULE MacMonitor -----------------------------
(***************************************************************************)
(* The Monitor of the macos port (src/src/macos/Monitor.cxx).  The owner   *)
(* sleeps on a semaphore.  Whoever sets a state decides under _waitLock    *)
(* whether to signal it, notes that in _pending so that nobody else does,  *)
(* and signals after it has given up _waitLock; an owner that leaves for a *)
(* timeout meanwhile has to wait for that signal.                          *)
(***************************************************************************)
EXTENDS PortMonitor

VARIABLE told   \* Monitor's _pending: a signal is on its way

vars == <<monitor, told>>

TypeOK ==
  /\ PortTypeOK({"asleep", "late", "absorb", "relock", "signal", "wake"})
  /\ told \in BOOLEAN

Init ==
  /\ PortInit
  /\ told = FALSE

\* Under _waitLock: t will signal a waiter that nobody has told yet; "wake" is the
\* signal of notify(), "signal" that of interrupt() and cancel().
Tell(t, how) ==
  IF waiting /\ ~told
  THEN told' = TRUE /\ Goto(t, how)
  ELSE UNCHANGED <<told, pc>>

Notify(t) ==
  /\ Running(t)
  /\ Notifiable(pending, mask)
  /\ pending' = AfterNotify(pending, mask)
  /\ Tell(t, "wake")
  /\ UNCHANGED <<lock, mask, waiting, owned, timed, state, signaled>>

Interrupt(t) ==
  /\ Running(t)
  /\ Interruptible(pending, mask)
  /\ pending' = AfterInterrupt(pending, mask)
  /\ Tell(t, "signal")
  /\ UNCHANGED <<lock, mask, waiting, owned, timed, state, signaled>>

Cancel(t) ==
  /\ Running(t)
  /\ pending' = AfterCancel(pending, mask)
  /\ IF Interruptible(pending, mask) THEN Tell(t, "signal")
     ELSE UNCHANGED <<told, pc>>
  /\ UNCHANGED <<lock, mask, waiting, owned, timed, state, signaled>>

\* MPSignalSemaphore(), without a lock; the mask is read here.
Signal(t) ==
  /\ pc[t] \in {"signal", "wake"}
  /\ signaled' = (pc[t] = "wake" \/ ~Masked(mask, INTERRUPTED) \/ signaled)
  /\ Goto(t, IF lock = t THEN "held" ELSE "idle")
  /\ UNCHANGED <<lock, pending, mask, waiting, owned, timed, state, told>>

-----------------------------------------------------------------------------
\* The owner takes the signal that woke it,
WaitWoken ==
  /\ pc[Owner] = "asleep" /\ signaled
  /\ Report
  /\ signaled' = FALSE /\ told' = FALSE
  /\ Goto(Owner, "relock")
  /\ UNCHANGED <<lock, mask, owned, timed>>

\* Wrong on purpose: the signal that is on its way is left for the next wait().
WaitLate_NotAbsorbed ==
  /\ pc[Owner] = "late"
  /\ Report
  /\ told' = FALSE
  /\ Goto(Owner, "relock")
  /\ UNCHANGED <<lock, mask, owned, timed, signaled>>

\* or was late, and has to take the signal that is on its way
WaitLate ==
  /\ pc[Owner] = "late"
  /\ Report
  /\ Goto(Owner, IF told THEN "absorb" ELSE "relock")
  /\ UNCHANGED <<lock, mask, owned, timed, signaled, told>>

\* before it gives up _waitLock: until then nobody sets another state.
WaitAbsorb ==
  /\ pc[Owner] = "absorb" /\ signaled
  /\ signaled' = FALSE /\ told' = FALSE
  /\ Goto(Owner, "relock")
  /\ UNCHANGED <<lock, pending, mask, waiting, owned, timed, state>>

WaitLockFree == pc[Owner] # "absorb"
Looks        == (IsInterrupted \/ IsCanceled) /\ UNCHANGED told
Skips        == (\E t \in BOOLEAN : WaitSkip(t)) /\ UNCHANGED told
WaitEnd      == WaitWoken \/ WaitLate \/ WaitAbsorb

Next ==
  \/ /\ \/ \E t \in Peers \cup {Owner} : Acquire(t) \/ Release(t)
        \/ \E m \in Masks : Interest(m)
        \/ \E t \in BOOLEAN : WaitSleep(t)
        \/ Expire \/ Relock
     /\ UNCHANGED told
  \/ /\ WaitLockFree
     /\ \/ \E t \in Peers : Notify(t)
        \/ \E t \in Peers \cup {Owner} : Interrupt(t) \/ Cancel(t)
  \/ Looks \/ Skips
  \/ \E t \in Peers \cup {Owner} : Signal(t)
  \/ WaitEnd

=============================================================================
