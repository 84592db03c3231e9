---------------------------- MODULE Win32Monitor ----------------------------
(***************************************************************************)
(* The Monitor of the win32 port (src/src/win32/Monitor.cxx).  The owner   *)
(* sleeps on a manual-reset event: it stays set until the owner resets it, *)
(* so that a signal between the release of _waitLock and the call of       *)
(* WaitForSingleObject is not lost.                                        *)
(***************************************************************************)
EXTENDS PortMonitor

vars == monitor

TypeOK == PortTypeOK({"asleep", "late", "relock"})

Init == PortInit

\* SetEvent(), if the owner waits.
Set == signaled' = (signaled \/ waiting)

Notify(t) ==
  /\ Running(t)
  /\ Notifiable(pending, mask)
  /\ pending' = AfterNotify(pending, mask)
  /\ Set
  /\ UNCHANGED <<lock, mask, waiting, owned, timed, state, pc>>

\* An interruption the owner does not want to know of yet does not wake it.
SetUnlessMasked ==
  IF Masked(mask, INTERRUPTED) THEN UNCHANGED signaled ELSE Set

Interrupt(t) ==
  /\ Running(t)
  /\ Interruptible(pending, mask)
  /\ pending' = AfterInterrupt(pending, mask)
  /\ SetUnlessMasked
  /\ UNCHANGED <<lock, mask, waiting, owned, timed, state, pc>>

Cancel(t) ==
  /\ Running(t)
  /\ pending' = AfterCancel(pending, mask)
  /\ IF Interruptible(pending, mask) THEN SetUnlessMasked ELSE UNCHANGED signaled
  /\ UNCHANGED <<lock, mask, waiting, owned, timed, state, pc>>

\* The owner is awake: ResetEvent().
WaitEnd ==
  /\ pc[Owner] = "late" \/ (pc[Owner] = "asleep" /\ signaled)
  /\ Report
  /\ signaled' = FALSE
  /\ Goto(Owner, "relock")
  /\ UNCHANGED <<lock, mask, owned, timed>>

Looks == IsInterrupted \/ IsCanceled
Skips == \E t \in BOOLEAN : WaitSkip(t)

Next ==
  \/ \E t \in Peers \cup {Owner} : Acquire(t) \/ Release(t)
  \/ \E t \in Peers : Notify(t)
  \/ \E t \in Peers \cup {Owner} : Interrupt(t) \/ Cancel(t)
  \/ \E m \in Masks : Interest(m)
  \/ Looks \/ Skips
  \/ \E t \in BOOLEAN : WaitSleep(t)
  \/ Expire \/ WaitEnd \/ Relock

=============================================================================
