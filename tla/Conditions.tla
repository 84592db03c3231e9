----------------------------- MODULE Conditions -----------------------------
(***************************************************************************)
(* The classes of src/include/zthread that are built from one lock and     *)
(* some Conditions: queues, read/write locks and the barrier.  What they   *)
(* do between taking the lock and giving it back, or waiting, is one step. *)
(* Their conditions are those of module AbstractCondition, one for each    *)
(* name in Names, with the threads' own view of a wait:                    *)
(*                                                                         *)
(*  - signal() picks any thread of the list.  A thread whose wait has been *)
(*    cut short is on the list until it has returned; if it is picked the  *)
(*    signal wakes nobody and stays in the thread's Monitor (ConditionImpl *)
(*    and Waiting have the details),                                       *)
(*  - where such a signal ends the thread's next wait at once.             *)
(***************************************************************************)
EXTENDS Integers, FiniteSets

CONSTANTS
  Threads,
  Cuts     \* what cuts a wait short: a subset of {"timedout", "interrupted"}

ASSUME ConditionsAssumption ==
  IsFiniteSet(Threads) /\ Cuts \subseteq {"timedout", "interrupted"}

VARIABLES
  op,         \* the operation each thread is in, or "none"
  on,         \* the condition it waits on, or "none"
  wait,       \* "none", "asleep", "signaled" or one of Cuts
  timed,      \* the threads whose operation has a timeout
  stale,      \* the threads that carry a signal left over from an earlier wait
  lost        \* whether a signal has ever reached a thread whose wait had already
              \* been cut short: for the properties

waits == <<on, wait, stale>>
condVars == <<op, waits, timed, lost>>

CondTypeOK(Ops, Names) ==
  /\ op \in [Threads -> Ops \cup {"none"}]
  /\ on \in [Threads -> Names \cup {"none"}]
  /\ wait \in [Threads -> {"none", "asleep", "signaled"} \cup Cuts]
  /\ timed \subseteq Threads
  /\ stale \subseteq Threads
  /\ lost \in BOOLEAN

CondInit ==
  /\ op = [t \in Threads |-> "none"]
  /\ on = [t \in Threads |-> "none"]
  /\ wait = [t \in Threads |-> "none"]
  /\ timed = {}
  /\ stale = {}
  /\ lost = FALSE

-----------------------------------------------------------------------------
Asleep(c)   == {t \in Threads : on[t] = c /\ wait[t] = "asleep"}
Signaled(c) == {t \in Threads : on[t] = c /\ wait[t] = "signaled"}
Leaving(c)  == {t \in Threads : on[t] = c /\ wait[t] \in Cuts /\ t \notin stale}

\* The sets of threads that a signal() or a broadcast() by t can reach.  Whether
\* a thread whose wait was cut short is still listed is open.
ToSignal(t, c) ==
  {{u} : u \in (Asleep(c) \cup Leaving(c)) \ {t}}
    \cup (IF Asleep(c) \ {t} = {} THEN {{}} ELSE {})

ToBroadcast(t, c) == {Asleep(c) \cup S : S \in SUBSET (Leaving(c) \ {t})}

Reached(S) == [u \in Threads |->
  IF u \in S /\ wait[u] = "asleep" THEN "signaled" ELSE wait[u]]

LeftOver(S) == stale \cup {u \in S : wait[u] # "asleep"}

\* A thread begins an operation, or goes on with one after its wait.
Begins(t) == op[t] = "none"
Awake(t)  == wait[t] \notin {"none", "asleep"}

\* t begins or goes on with the operation o, with a timeout or without, and waits on c,
WaitOn(t, o, c) ==
  /\ op' = [op EXCEPT ![t] = o]
  /\ on' = [on EXCEPT ![t] = c]
  /\ wait' = [wait EXCEPT ![t] = IF t \in stale THEN "signaled" ELSE "asleep"]
  /\ stale' = stale \ {t}
  /\ IF Begins(t) /\ "timedout" \in Cuts
     THEN timed' \in {timed, timed \cup {t}}
     ELSE UNCHANGED timed
  /\ UNCHANGED lost

\* or its wait is over and the operation goes on; on the way it has reached S.
GoOn(t, o, S) ==
  /\ op' = [op EXCEPT ![t] = o]
  /\ on' = [on EXCEPT ![t] = "none"]
  /\ wait' = [Reached(S) EXCEPT ![t] = "none"]
  /\ stale' = LeftOver(S)
  /\ lost' = (lost \/ \E u \in S : wait[u] # "asleep")

Finish(t, S) == GoOn(t, "none", S) /\ timed' = timed \ {t}

CutShort(t, how) ==
  /\ wait[t] = "asleep" /\ how \in Cuts
  /\ how = "timedout" => t \in timed
  /\ wait' = [wait EXCEPT ![t] = how]
  /\ UNCHANGED <<op, on, timed, stale, lost>>

=============================================================================
