------------------------------- MODULE Status -------------------------------
(***************************************************************************)
(* The Status word every Monitor carries (src/src/Status.h) and what the   *)
(* operations of the posix Monitor do to it (src/src/posix/Monitor.cxx).   *)
(*                                                                         *)
(* The two 16-bit words _pending and _mask are sets of flags.  Only the    *)
(* four flags the code defines are ever pushed, so the spare bits that     *)
(* ANYTHING = (~INVALID & ~CANCELED) also has set are left out.            *)
(*                                                                         *)
(* Each operator takes the words as parameters: p is _pending, m is _mask. *)
(***************************************************************************)

INVALID     == "INVALID"
SIGNALED    == "SIGNALED"
INTERRUPTED == "INTERRUPTED"
TIMEDOUT    == "TIMEDOUT"
CANCELED    == "CANCELED"

Flags    == {SIGNALED, INTERRUPTED, TIMEDOUT, CANCELED}
ANYTHING == Flags \ {CANCELED}

\* What next(), and therefore wait(), may return.
States == {INVALID, SIGNALED, TIMEDOUT, INTERRUPTED}

\* The interest masks in use: the constructor's and the one that
\* DeferredInterruptionScope sets for the length of a scope.
Masks == {ANYTHING, {SIGNALED}}

-----------------------------------------------------------------------------
(* Status.h *)

Pending(p, m, interest) == p \cap m \cap interest # {}
Masked(m, flag)         == flag \notin m

\* The state next() reports: SIGNALED before TIMEDOUT before INTERRUPTED.
NextState(p, m) ==
  CASE SIGNALED \in p \cap m                            -> SIGNALED
    [] SIGNALED \notin p \cap m /\ TIMEDOUT \in p \cap m -> TIMEDOUT
    [] p \cap m \cap ANYTHING = {INTERRUPTED}            -> INTERRUPTED
    [] OTHER                                             -> INVALID

\* Wrong on purpose: a signal does not absorb a timeout.
AfterNext_KeepTimeout(p, m) == p \ {NextState(p, m)}

\* What next() leaves pending: a signal absorbs a timeout.
AfterNext(p, m) ==
  CASE NextState(p, m) = SIGNALED -> p \ {SIGNALED, TIMEDOUT}
    [] NextState(p, m) = INVALID  -> p
    [] OTHER                      -> p \ {NextState(p, m)}

-----------------------------------------------------------------------------
(* Monitor.cxx: the effect of each operation on _pending, and its verdict. *)

\* notify() is refused while an interruption is pending and of interest.
Notifiable(p, m) == ~Pending(p, m, {INTERRUPTED})

\* Wrong on purpose: the word is assigned, not or-ed.
AfterNotify_Assign(p, m) == IF Notifiable(p, m) THEN {SIGNALED} ELSE p

AfterNotify(p, m) == IF Notifiable(p, m) THEN p \cup {SIGNALED} ELSE p

\* interrupt() and cancel() do nothing more once INTERRUPTED is visible.
Interruptible(p, m) == ~Pending(p, m, {INTERRUPTED})
AfterInterrupt(p, m) ==
  IF Interruptible(p, m) THEN p \cup {INTERRUPTED} ELSE p

AfterCancel(p, m) == AfterInterrupt(p, m) \cup {CANCELED}

\* isInterrupted() clears the flag whoever calls it and whatever the mask.
AfterIsInterrupted(p) == p \ {INTERRUPTED}

\* isCanceled() clears it only when _owner is known to be the caller.
AfterIsCanceled(p, byOwner) == IF byOwner THEN p \ {INTERRUPTED} ELSE p

=============================================================================
