---------------------------- MODULE StickyMonitor ----------------------------
(***************************************************************************)
(* What a Monitor promises the thread that owns it, as Monitor.h and the   *)
(* comments of Status.h tell it: a state that is set stays set ("sticky")  *)
(* until a wait() reports it; a wait() that is interested in a pending     *)
(* state does not block, and a blocked one ends; SIGNALED is reported      *)
(* before TIMEDOUT and TIMEDOUT before INTERRUPTED; a masked state is kept *)
(* for later, not lost.                                                    *)
(*                                                                         *)
(* Every operation is one step here: the locks, the condition variable     *)
(* and the flags that avoid needless signals belong to module Monitor,     *)
(* which implements this one.                                              *)
(***************************************************************************)
EXTENDS Status

CONSTANT Spurious   \* whether a wait() may end without a state to report

VARIABLES
  pending,   \* the states set and not yet reported
  mask,      \* the states the owner is interested in
  phase,     \* where the owner is: "running", "waiting" or "returning"
  result     \* what its last wait() reported

vars == <<pending, mask, phase, result>>

Visible(p) == p \cap mask \cap ANYTHING

\* The reports in the order wait() prefers them.
Outranked(flag) ==
  CASE flag = SIGNALED    -> {}
    [] flag = TIMEDOUT    -> {SIGNALED}
    [] flag = INTERRUPTED -> {SIGNALED, TIMEDOUT}

TypeOK ==
  /\ pending \subseteq Flags
  /\ mask \in Masks
  /\ phase \in {"running", "waiting", "returning"}
  /\ result \in States

Init ==
  /\ pending = {}
  /\ mask = ANYTHING
  /\ phase = "running"
  /\ result = INVALID

-----------------------------------------------------------------------------
(* Other threads, or the owner itself, set states at any moment. *)

Notify ==
  /\ INTERRUPTED \notin Visible(pending)
  /\ pending' = pending \cup {SIGNALED}
  /\ UNCHANGED <<mask, phase, result>>

Interrupt ==
  /\ pending' = pending \cup {INTERRUPTED}
  /\ UNCHANGED <<mask, phase, result>>

Cancel ==
  /\ pending' = pending \cup {CANCELED, INTERRUPTED}
  /\ UNCHANGED <<mask, phase, result>>

(* The owner looks at its own status, or defers interruptions, outside a   *)
(* wait.                                                                   *)

ClearInterrupted ==
  /\ phase = "running"
  /\ pending' = pending \ {INTERRUPTED}
  /\ UNCHANGED <<mask, phase, result>>

SetInterest ==
  /\ phase = "running"
  /\ mask' \in Masks
  /\ UNCHANGED <<pending, phase, result>>

\* Report the state that outranks the others in p; a signal absorbs a timeout.
Report(p) ==
  \E flag \in Visible(p) :
    /\ Visible(p) \cap Outranked(flag) = {}
    /\ result' = flag
    /\ pending' = (p \ {flag}) \ (IF flag = SIGNALED THEN {TIMEDOUT} ELSE {})
    /\ UNCHANGED mask

WaitWithoutBlocking ==
  /\ phase = "running"
  /\ Report(pending)
  /\ UNCHANGED phase

Block ==
  /\ phase = "running"
  /\ Visible(pending) = {}
  /\ phase' = "waiting"
  /\ UNCHANGED <<pending, mask, result>>

Wake ==
  /\ phase = "waiting"
  /\ Report(pending)
  /\ phase' = "returning"

Expire ==
  /\ phase = "waiting"
  /\ Report(pending \cup {TIMEDOUT})
  /\ phase' = "returning"

\* A sleep that ends for no reason; no state is lost by it.
WakeForNothing ==
  /\ Spurious
  /\ phase = "waiting" /\ Visible(pending) = {}
  /\ phase' = "returning"
  /\ result' = INVALID
  /\ UNCHANGED <<pending, mask>>

Return ==
  /\ phase = "returning"
  /\ phase' = "running"
  /\ UNCHANGED <<pending, mask, result>>

Next ==
  \/ Notify \/ Interrupt \/ Cancel
  \/ ClearInterrupted \/ SetInterest
  \/ WaitWithoutBlocking \/ Block \/ Wake \/ Expire
  \/ WakeForNothing \/ Return

\* A wait that has something to report ends, and one that ended returns.
Fairness == WF_vars(Wake) /\ WF_vars(Return)

Spec == Init /\ [][Next]_vars /\ Fairness

=============================================================================
