-------------------------- MODULE AbstractCondition --------------------------
(***************************************************************************)
(* What a Condition promises (src/include/zthread/Condition.h): wait()     *)
(* gives up the predicate lock and blocks in one step, and comes back with *)
(* the lock; a signal() ends by waking one waiter or because nobody waits, *)
(* and a broadcast() only when nobody waits any more.  Which waiter is     *)
(* woken is open.                                                          *)
(*                                                                         *)
(* A wait that is cut short, by an interruption or a timeout, is still     *)
(* waiting as far as a signal() can tell, until it has returned: the       *)
(* signal may be spent on it.                                              *)
(***************************************************************************)
CONSTANTS
  Threads,
  None,       \* no thread
  Disturbed   \* whether waits can be cut short

VARIABLES
  holder,  \* of the predicate lock
  phase,   \* of each thread: "out", "blocked", "ended" (cut short) or "woken"
  owed     \* what each thread's call still has to do: "nothing", "one", "all"

vars == <<holder, phase, owed>>

Waiters == {t \in Threads : phase[t] \in {"blocked", "ended"}}

Out(t) == phase[t] = "out" /\ owed[t] = "nothing"

Init ==
  /\ holder = None
  /\ phase = [t \in Threads |-> "out"]
  /\ owed = [t \in Threads |-> "nothing"]

\* The predicate lock.
Acquire(t) ==
  /\ Out(t) /\ holder = None
  /\ holder' = t
  /\ UNCHANGED <<phase, owed>>

Release(t) ==
  /\ Out(t) /\ holder = t
  /\ holder' = None
  /\ UNCHANGED <<phase, owed>>

\* wait(); with a timeout of 0 it is over at once.  If waits are cut short, what
\* is left from an earlier one may wake this one.
Block(t) ==
  /\ Out(t) /\ holder = t
  /\ holder' = None
  /\ \E p \in {"blocked", "ended"} \cup (IF Disturbed THEN {"woken"} ELSE {}) :
       phase' = [phase EXCEPT ![t] = p]
  /\ UNCHANGED owed

CutShort(t) ==
  /\ Disturbed
  /\ phase[t] = "blocked"
  /\ phase' = [phase EXCEPT ![t] = "ended"]
  /\ UNCHANGED <<holder, owed>>

Return(t) ==
  /\ phase[t] \in {"ended", "woken"} /\ holder = None
  /\ holder' = t
  /\ phase' = [phase EXCEPT ![t] = "out"]
  /\ UNCHANGED owed

\* signal() and broadcast().
Begin(t, what) ==
  /\ Out(t)
  /\ owed' = [owed EXCEPT ![t] = what]
  /\ UNCHANGED <<holder, phase>>

Wake(t, w) ==
  /\ owed[t] # "nothing"
  /\ w \in Waiters
  /\ phase' = [phase EXCEPT ![w] = IF @ = "blocked" THEN "woken" ELSE "ended"]
  /\ owed' = [owed EXCEPT ![t] = IF @ = "one" THEN "nothing" ELSE @]
  /\ UNCHANGED holder

\* Nobody left: a waiter that was cut short may have been passed over.
End(t) ==
  /\ owed[t] # "nothing"
  /\ \A w \in Threads : phase[w] # "blocked"
  /\ owed' = [owed EXCEPT ![t] = "nothing"]
  /\ UNCHANGED <<holder, phase>>

Next ==
  \E t \in Threads :
    \/ Acquire(t) \/ Release(t)
    \/ Block(t) \/ CutShort(t) \/ Return(t)
    \/ Begin(t, "one") \/ Begin(t, "all")
    \/ \E w \in Threads : Wake(t, w)
    \/ End(t)

Spec == Init /\ [][Next]_vars

=============================================================================
