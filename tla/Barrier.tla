------------------------------- MODULE Barrier -------------------------------
(***************************************************************************)
(* src/include/zthread/Barrier.h.  _count is not set back when a round is  *)
(* complete, only by reset(): from 0 it goes on below zero and wraps.      *)
(***************************************************************************)
EXTENDS Conditions

CONSTANTS
  Count,          \* the number of threads that meet
  Word,           \* the values of an unsigned int, 2^32; enough that no model
                  \* gets from one end to the other
  MaxLate,        \* a bound of the model: waits after a round without a reset()
  MaxRounds,      \* a bound of the model: rounds and resets
  ResetsAnytime   \* whether reset() is called while threads are in wait()

\* What a user of this module assumes of its constants.
BarrierAssumption ==
  /\ Count \in Nat \ {0} /\ MaxLate \in Nat /\ MaxRounds \in Nat
  /\ Word \in Nat /\ Word > Count + MaxLate + 1
  /\ ResetsAnytime \in BOOLEAN

VARIABLES
  broken,        \* _broken
  deserted,      \* whether it was a thread whose own wait was cut short that set
                 \* it, who wakes nobody: for the properties
  count,         \* _count
  generation,    \* _generation
  myGeneration,  \* of each thread in wait(): myGeneration
  came,          \* how many threads have come since the last round or reset,
  rounds,        \* how often that was Count: for the properties
  since          \* of each thread in wait(): what rounds was when it came

barrier == <<broken, deserted, count, generation, myGeneration, came, rounds, since>>
vars    == <<barrier, condVars>>

TypeOK ==
  /\ CondTypeOK({"wait"}, {"arrived"})
  /\ broken \in BOOLEAN /\ deserted \in BOOLEAN
  /\ count \in 0 .. Count \cup Word - MaxLate .. Word - 1
  /\ generation \in 0 .. MaxRounds
  /\ myGeneration \in [Threads -> 0 .. MaxRounds]
  /\ came \in 0 .. Count + MaxLate
  /\ rounds \in Nat
  /\ since \in [Threads -> Nat]

Init ==
  /\ CondInit
  /\ broken = FALSE /\ deserted = FALSE
  /\ count = Count
  /\ generation = 0
  /\ myGeneration = [t \in Threads |-> 0]
  /\ came = 0
  /\ rounds = 0
  /\ since = [t \in Threads |-> 0]

Decremented == (count + Word - 1) % Word

-----------------------------------------------------------------------------
(* wait() and wait(timeout); of a broken barrier they throw at once. *)

\* A thread that arrives interrupted breaks the barrier.
ArriveInterrupted(t) ==
  /\ Begins(t) /\ ~broken
  /\ "interrupted" \in Cuts
  /\ \E S \in ToBroadcast(t, "arrived") : Finish(t, S)
  /\ broken' = TRUE
  /\ UNCHANGED <<deserted, count, generation, myGeneration, came, rounds, since>>

\* Wrong on purpose: the last but one already wakes the others.
IsLast_OffByOne == Decremented <= 1

IsLast == Decremented = 0

\* The last one wakes the others and runs the task.  An exception of that breaks the
\* barrier or, with assertions compiled out, is swallowed, and _generation stays.
ArriveLast(t) ==
  /\ Begins(t) /\ ~broken
  /\ IsLast
  /\ generation < MaxRounds
  /\ \E S \in ToBroadcast(t, "arrived") : Finish(t, S)
  /\ count' = Decremented
  /\ \/ /\ generation' \in {generation, generation + 1}
        /\ rounds' = IF came + 1 < Count THEN rounds ELSE rounds + 1
        /\ came' = 0
        /\ UNCHANGED broken
     \/ broken' = TRUE /\ UNCHANGED <<generation, came, rounds>>
  /\ UNCHANGED <<deserted, myGeneration, since>>

\* Who is not the last one waits.
ArriveWait(t) ==
  /\ Begins(t) /\ ~broken
  /\ ~IsLast
  /\ Decremented \in 1 .. Count \cup Word - MaxLate .. Word - 1
  /\ WaitOn(t, "wait", "arrived")
  /\ count' = Decremented
  /\ myGeneration' = [myGeneration EXCEPT ![t] = generation]
  /\ came' = came + 1
  /\ since' = [since EXCEPT ![t] = rounds]
  /\ UNCHANGED <<broken, deserted, generation, rounds>>

\* Woken, it returns or, from a broken barrier, throws.
ReturnWoken(t) ==
  /\ wait[t] = "signaled"
  /\ Finish(t, {})
  /\ UNCHANGED barrier

\* Interrupted, it breaks the barrier unless its generation has passed; then it
\* interrupts itself again and returns.
ReturnInterrupted(t) ==
  /\ wait[t] = "interrupted"
  /\ Finish(t, {})
  /\ broken' = (broken \/ myGeneration[t] = generation)
  /\ deserted' = (deserted \/ (~broken /\ broken'))
  /\ UNCHANGED <<count, generation, myGeneration, came, rounds, since>>

\* Out of time it breaks the barrier.
ReturnTimedOut(t) ==
  /\ wait[t] = "timedout"
  /\ Finish(t, {})
  /\ broken' = TRUE
  /\ deserted' = (deserted \/ ~broken)
  /\ UNCHANGED <<count, generation, myGeneration, came, rounds, since>>

-----------------------------------------------------------------------------
Shatter(t) ==
  /\ Begins(t)
  /\ \E S \in ToBroadcast(t, "arrived") : Finish(t, S)
  /\ broken' = TRUE
  /\ deserted' = FALSE
  /\ UNCHANGED <<count, generation, myGeneration, came, rounds, since>>

Reset(t) ==
  /\ Begins(t)
  /\ ResetsAnytime \/ \A u \in Threads : op[u] = "none"
  /\ generation < MaxRounds
  /\ broken' = FALSE /\ deserted' = FALSE
  /\ generation' = generation + 1
  /\ count' = Count
  /\ came' = 0
  /\ UNCHANGED <<myGeneration, rounds, since, condVars>>

-----------------------------------------------------------------------------
Next ==
  \E t \in Threads :
    \/ ArriveInterrupted(t) \/ ArriveLast(t) \/ ArriveWait(t)
    \/ ReturnWoken(t) \/ ReturnInterrupted(t) \/ ReturnTimedOut(t)
    \/ Shatter(t) \/ Reset(t)
    \/ \E how \in Cuts : CutShort(t, how) /\ UNCHANGED barrier

Spec == Init /\ [][Next]_vars

-----------------------------------------------------------------------------
\* "Threads attempting to wait() on a Barrier will block until the Nth thread
\* arrives" (Barrier.h:42): who leaves an unbroken barrier has been met by Count
\* threads since it came.  Until a signal is lost on a thread whose wait had been
\* cut short, which ends its next wait, and if reset() waits until everybody has
\* left.
NobodyPassesEarly ==
  ~lost /\ ~broken
    => \A t \in Signaled("arrived") : rounds > since[t]

\* "All threads present at the Barrier will throw BrokenBarrier_Exception"
\* (Barrier.h:53): nobody sleeps on at a broken barrier, unless the one that broke
\* it was a thread whose own wait had been cut short: it wakes nobody.
BrokenWakesAll == broken /\ ~deserted => Asleep("arrived") = {}

\* Nobody sleeps on whose round is complete.
CompleteWakesAll == \A t \in Asleep("arrived") : rounds = since[t]

=============================================================================
