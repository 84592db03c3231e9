------------------------- MODULE ConditionImplProofs -------------------------
(***************************************************************************)
(* ConditionImpl implements AbstractCondition in every environment: any    *)
(* number of threads and observers, any order of the list, with            *)
(* interruptions and timeouts or without.                                  *)
(***************************************************************************)
EXTENDS ConditionImpl, WaitingProofs

Outside == {"c_wait", "c_predicate", "r_lock"}

Disturbed == Interrupts \/ Timeouts

\* The calls: who is in signal() or broadcast(), and the predicate lock of a thread
\* whose wait() has not released it yet.
CallsExact ==
  /\ predicate \in Threads \cup {None}
  /\ waking \in [Threads -> {"nothing", "signal", "broadcast"}]
  /\ \A t \in Threads :
       /\ waking[t] # "nothing" <=> pc[t] \in {"r_lock"} \cup Searching
       /\ pc[t] = "c_wait" => predicate = t

\* What a thread knows of the end of its wait, and what is pending: no timeout, and
\* without interruptions and timeouts nothing but the signal for a sleeping waiter.
EndsExact ==
  \A t \in Threads :
    /\ kind[t] = "timed" => Timeouts
    /\ state[t] = INVALID <=> pc[t] \notin {"w_woken", "w_relock", "c_predicate"}
    /\ pc[t] = "w_woken" => state[t] = SIGNALED \/ Disturbed
    /\ TIMEDOUT \notin pending[t]
    /\ INTERRUPTED \in pending[t] => Interrupts
    /\ SIGNALED \in pending[t] => pc[t] = "w_sleep" \/ Disturbed

\* Whom the scan may still find has not been signaled in this wait.
ListedUnsignaled ==
  \A t \in ToSet(waiters) :
    pc[t] \in {"w_sleep", "w_woken"} => SIGNALED \notin pending[t] /\ state[t] # SIGNALED

EndsInv == CallsExact /\ EndsExact /\ ListedUnsignaled

ConditionInv == DropInv(Outside) /\ EndsInv

LEMMA OutsideApart == Apart(Outside)
  BY DEF Apart, Outside, Inside, Searching

\* What next() makes of the words that occur, at the end of a wait and of a timeout.
LEMMA EndOfWait ==
  ASSUME NEW p \in SUBSET Flags, TIMEDOUT \notin p
  PROVE  /\ Pending(p, ANYTHING, ANYTHING) <=> SIGNALED \in p \/ INTERRUPTED \in p
         /\ SIGNALED \in p => NextState(p, ANYTHING) = SIGNALED
         /\ SIGNALED \notin p /\ INTERRUPTED \in p
              => NextState(p, ANYTHING) = INTERRUPTED
         /\ AfterNext(p, ANYTHING) \subseteq p \ {SIGNALED}
         /\ NextState(p \cup {TIMEDOUT}, ANYTHING)
              = IF SIGNALED \in p THEN SIGNALED ELSE TIMEDOUT
         /\ AfterNext(p \cup {TIMEDOUT}, ANYTHING) \subseteq p \ {SIGNALED}
<1> USE DEF ANYTHING, Flags, SIGNALED, INTERRUPTED, TIMEDOUT, CANCELED, INVALID
<1>1. Pending(p, ANYTHING, ANYTHING) <=> SIGNALED \in p \/ INTERRUPTED \in p
  BY DEF Pending
<1>2. SIGNALED \in p => NextState(p, ANYTHING) = SIGNALED
  BY DEF NextState
<1>3. ASSUME SIGNALED \notin p, INTERRUPTED \in p
      PROVE  NextState(p, ANYTHING) = INTERRUPTED
  <2>1. p \cap ANYTHING \cap ANYTHING = {INTERRUPTED}
    BY <1>3
  <2> QED BY <1>3, <2>1 DEF NextState
<1>4. AfterNext(p, ANYTHING) \subseteq p \ {SIGNALED}
  <2>1. CASE SIGNALED \in p
    BY <1>2, <2>1 DEF AfterNext
  <2>2. CASE SIGNALED \notin p
    BY <2>2 DEF AfterNext
  <2> QED BY <2>1, <2>2
<1>5. NextState(p \cup {TIMEDOUT}, ANYTHING)
        = IF SIGNALED \in p THEN SIGNALED ELSE TIMEDOUT
  BY DEF NextState
<1>6. AfterNext(p \cup {TIMEDOUT}, ANYTHING) \subseteq p \ {SIGNALED}
  BY <1>5 DEF AfterNext
<1> QED
  BY <1>1, <1>2, <1>3, <1>4, <1>5, <1>6

LEMMA FlagsApart ==
  /\ SIGNALED # INTERRUPTED /\ SIGNALED # TIMEDOUT /\ INTERRUPTED # TIMEDOUT
  /\ INVALID \notin {SIGNALED, INTERRUPTED, TIMEDOUT}
  BY DEF SIGNALED, INTERRUPTED, TIMEDOUT, INVALID

-----------------------------------------------------------------------------
(* The invariant. *)

LEMMA ConditionInit ==
  ASSUME WaitingAssumption, Init PROVE ConditionInv
<1>1. DropInv(Outside)
  BY DropInitially DEF Init
<1>2. ToSet(<<>>) = {}
  BY DEF ToSet
<1> QED
  BY <1>1, <1>2
  DEF Init, WaitInit, ConditionInv, EndsInv, CallsExact, EndsExact, ListedUnsignaled,
      Searching

\* All the rest is as it was for everybody but t, and nobody new is listed but t.
Only(t) ==
  /\ \A u \in Threads \ {t} :
       /\ pc'[u] = pc[u] /\ state'[u] = state[u] /\ kind'[u] = kind[u]
       /\ pending'[u] = pending[u] /\ waking'[u] = waking[u]
  /\ ToSet(waiters)' \subseteq ToSet(waiters) \cup {t}

\* The invariant of what t itself sees.
Ends(t) ==
  /\ waking[t] \in {"nothing", "signal", "broadcast"}
  /\ waking[t] # "nothing" <=> pc[t] \in {"r_lock"} \cup Searching
  /\ pc[t] = "c_wait" => predicate = t
  /\ kind[t] = "timed" => Timeouts
  /\ state[t] = INVALID <=> pc[t] \notin {"w_woken", "w_relock", "c_predicate"}
  /\ pc[t] = "w_woken" => state[t] = SIGNALED \/ Disturbed
  /\ TIMEDOUT \notin pending[t]
  /\ INTERRUPTED \in pending[t] => Interrupts
  /\ SIGNALED \in pending[t] => pc[t] = "w_sleep" \/ Disturbed
  /\ t \in ToSet(waiters) /\ pc[t] \in {"w_sleep", "w_woken"}
       => SIGNALED \notin pending[t] /\ state[t] # SIGNALED

LEMMA EndsOfAll ==
  ASSUME waiters \in Seq(Threads)
  PROVE  EndsInv <=> /\ predicate \in Threads \cup {None}
                     /\ waking = [t \in Threads |-> waking[t]]
                     /\ \A t \in Threads : Ends(t)
<1>1. ToSet(waiters) \subseteq Threads
  BY DEF ToSet
<1> QED
  BY <1>1 DEF EndsInv, CallsExact, EndsExact, ListedUnsignaled, Ends

\* A step of t alone, which leaves the predicate lock to those who need it.
LEMMA OnlyStep ==
  ASSUME EndsInv, waiters \in Seq(Threads), waiters' \in Seq(Threads),
         NEW t \in Threads, Only(t), Ends(t)',
         waking' \in [Threads -> {"nothing", "signal", "broadcast"}],
         predicate' \in Threads \cup {None},
         predicate' = predicate \/ predicate \in {None, t}, None \notin Threads
  PROVE  EndsInv'
<1>1. \A u \in Threads : Ends(u)
  BY EndsOfAll
<1>2. ASSUME NEW u \in Threads \ {t} PROVE Ends(u)'
  BY <1>1, <1>2 DEF Only, Ends
<1>3. \A u \in Threads : Ends(u)'
  BY <1>2
<1>4. ToSet(waiters)' \subseteq Threads
  BY DEF ToSet
<1> QED
  BY <1>3, <1>4 DEF EndsInv, CallsExact, EndsExact, ListedUnsignaled, Ends

\* A step of the wait itself: t goes on, and a signal stays with it.
LEMMA WaitEnds ==
  ASSUME ConditionInv, NEW t \in Threads, Wait(t), UNCHANGED condition
  PROVE  Only(t) /\ Ends(t)' /\ Phase(t)' \in {Phase(t), "ended"}
         /\ (Phase(t)' # Phase(t) => Phase(t) = "blocked" /\ Disturbed)
<1> USE DEF ConditionInv, DropInv, WaitTypeOK, condition, locals, monitors
<1> DEFINE Goal == /\ Only(t) /\ Ends(t)' /\ Phase(t)' \in {Phase(t), "ended"}
                   /\ (Phase(t)' # Phase(t) => Phase(t) = "blocked" /\ Disturbed)
<1>0. Ends(t) /\ pending[t] \in SUBSET Flags /\ TIMEDOUT \notin pending[t]
  BY EndsOfAll DEF Ends
<1>1. UNCHANGED <<waiters, waking, predicate, kind>>
  BY DEF Wait, WaitForLock, WaitRun, EnterMonitor, WaitSkip, WaitSleep, Wake, Expire,
         EndSleep, WaitReturn
<1>2. CASE EnterMonitor(t)
  BY <1>0, <1>1, <1>2, FlagsApart DEF EnterMonitor, Goto, Only, Ends, Phase, Inside, Searching
<1>3. CASE WaitReturn(t)
  BY <1>0, <1>1, <1>3, FlagsApart DEF WaitReturn, Goto, Only, Ends, Phase, Inside, Searching
<1>4. Pending(pending[t], ANYTHING, ANYTHING)
        <=> SIGNALED \in pending[t] \/ INTERRUPTED \in pending[t]
  BY <1>0, EndOfWait
<1>5. CASE WaitSleep(t)
  BY <1>0, <1>1, <1>5, <1>4, FlagsApart
  DEF WaitSleep, Goto, Only, Ends, Phase, Inside, Searching
\* The wait is over with the state that next() finds in p.
<1>6. ASSUME NEW p \in SUBSET Flags, NEW l \in {"w_woken", "w_relock"}, Goto(t, l),
             state' = [state EXCEPT ![t] = NextState(p, ANYTHING)],
             pending' = [pending EXCEPT ![t] = AfterNext(p, ANYTHING)],
             pc[t] = "w_sleep" \/ (pc[t] = "w_wait" /\ l = "w_relock"),
             \/ p = pending[t] /\ Pending(p, ANYTHING, ANYTHING)
             \/ p = pending[t] \cup {TIMEDOUT} /\ Timeouts
      PROVE  Goal
  <2>1. /\ pc'[t] = l /\ state'[t] = NextState(p, ANYTHING)
        /\ pending'[t] = AfterNext(p, ANYTHING)
        /\ \A u \in Threads \ {t} :
             pc'[u] = pc[u] /\ state'[u] = state[u] /\ pending'[u] = pending[u]
    BY <1>6 DEF Goto
  <2>2. /\ SIGNALED \in pending[t] => state'[t] = SIGNALED
        /\ SIGNALED \notin pending[t] =>
             \/ state'[t] = INTERRUPTED /\ INTERRUPTED \in pending[t]
             \/ state'[t] = TIMEDOUT /\ Timeouts
        /\ pending'[t] \subseteq pending[t] \ {SIGNALED}
    <3>1. CASE p = pending[t] /\ Pending(p, ANYTHING, ANYTHING)
      <4>1. /\ SIGNALED \in p => NextState(p, ANYTHING) = SIGNALED
            /\ SIGNALED \notin p /\ INTERRUPTED \in p
                 => NextState(p, ANYTHING) = INTERRUPTED
            /\ AfterNext(p, ANYTHING) \subseteq p \ {SIGNALED}
        BY <1>0, <3>1, EndOfWait
      <4> QED BY <1>4, <2>1, <3>1, <4>1
    <3>2. CASE p = pending[t] \cup {TIMEDOUT} /\ Timeouts
      BY <1>0, <2>1, <3>2, EndOfWait, FlagsApart
    <3> QED BY <1>6, <3>1, <3>2
  <2>3. Only(t)
    BY <1>1, <2>1 DEF Only
  <2>4. Ends(t)'
    BY <1>0, <1>1, <1>6, <2>1, <2>2, FlagsApart DEF Ends, Searching, Disturbed
  <2>5. /\ Phase(t)' = IF state'[t] = SIGNALED THEN "woken" ELSE "ended"
        /\ Phase(t) = IF SIGNALED \in pending[t] THEN "woken"
                      ELSE IF INTERRUPTED \in pending[t] THEN "ended" ELSE "blocked"
    <3>1. /\ pc[t] \in Inside /\ pc'[t] \in Inside /\ state[t] = INVALID
          /\ state'[t] \in {SIGNALED, TIMEDOUT, INTERRUPTED}
          /\ SIGNALED \in pending[t] <=> state'[t] = SIGNALED
      BY <1>0, <1>6, <2>1, <2>2, FlagsApart DEF Inside, Ends
    <3> QED BY <3>1, FlagsApart DEF Phase
  <2> QED BY <1>0, <2>2, <2>3, <2>4, <2>5, FlagsApart DEF Disturbed, Ends
<1>7. pending[t] \cup {TIMEDOUT} \in SUBSET Flags
  BY <1>0, StatusTypes
<1>8. CASE WaitSkip(t) \/ Wake(t) \/ Expire(t)
  BY <1>0, <1>6, <1>7, <1>8 DEF WaitSkip, Wake, Expire, EndSleep, Ends
<1> QED
  BY <1>2, <1>3, <1>5, <1>8 DEF Wait, WaitForLock, WaitRun

\* A step of t outside its wait which has to do with the predicate lock only.
LEMMA OutsideDrop ==
  ASSUME WaitingAssumption, DropInv(Outside), NEW t \in Threads,
         NEW l \in Outside \cup {"idle"}, Goto(t, l), pc[t] \in Outside,
         UNCHANGED <<waiters, flock, cursor, monitors>>,
         state' \in [Threads -> States],
         kind' \in [Threads -> {"forever", "now", "timed"}]
  PROVE  DropInv(Outside)'
<1> USE DEF DropInv, monitors
<1>1. WaitTypeOK(Outside)'
  BY DEF Goto, WaitTypeOK
<1>2. /\ pc'[t] \notin Inside \cup Searching /\ pc[t] \notin Inside \cup Searching
      /\ \A u \in Threads \ {t} : pc'[u] = pc[u]
  BY DEF Goto, WaitTypeOK, Outside, Inside, Searching
<1>3. LocksHeld' /\ MonitorsHeld' /\ StillListed' /\ UnlistedWakes'
  <2>1. ToSet(waiters) \subseteq Threads
    BY DEF WaitTypeOK, ToSet
  <2> QED
    BY <1>2, <2>1
    DEF LocksHeld, MonitorsHeld, StillListed, UnlistedWakes, Inside, Searching
<1> QED
  BY <1>1, <1>3

\* The scan takes the waiter w off the list, notified if it can be.
LEMMA Dropping ==
  ASSUME ConditionInv, NEW t \in Threads, SignalNotify(t) \/ Drop(t)
  PROVE  Dropped(t)
<1> USE DEF ConditionInv, DropInv, WaitTypeOK, locals, monitors
<1> DEFINE w == waiters[cursor]
<1>1. Scanning(t) /\ mlock[w] = None /\ w \in Threads /\ pending[w] \in SUBSET Flags
  BY DEF SignalNotify, Drop, ScanNotify, Scanning
<1>2. /\ AfterNotify(pending[w], ANYTHING) \in SUBSET Flags
      /\ Pending(AfterNotify(pending[w], ANYTHING), ANYTHING, ANYTHING)
      /\ pending[w] \subseteq AfterNotify(pending[w], ANYTHING)
  BY <1>1, NotifyPends, StatusTypes
<1>3. CASE SignalNotify(t)
  BY <1>1, <1>2, <1>3 DEF SignalNotify, ScanNotify, Dropped
<1>4. CASE Drop(t)
  BY <1>1, <1>2, <1>4 DEF Drop, Dropped
<1> QED
  BY <1>3, <1>4

LEMMA EnlistedList ==
  ASSUME WaitingAssumption, DropInv(Outside), NEW t \in Threads
  PROVE  LET q == Insert(Rank, waiters, t) IN
           /\ q \in Seq(Threads) /\ ToSet(q) = ToSet(waiters) \cup {t}
           /\ t \notin ToSet(waiters) /\ Distinct(waiters) => Distinct(q)
<1>1. waiters \in Seq(Threads) /\ Rank \in [Threads -> Nat]
  BY DEF WaitingAssumption, DropInv, WaitTypeOK
<1> QED
  BY <1>1, InsertList

\* The part of the invariant that all objects of the kind have.
LEMMA DropNext ==
  ASSUME WaitingAssumption, ConditionInv, [Next]_vars PROVE DropInv(Outside)'
<1>0. /\ DropInv(Outside) /\ WaitTypeOK(Outside)
      /\ "c_wait" \in Outside /\ "c_predicate" \in Outside /\ "r_lock" \in Outside
  BY DEF ConditionInv, DropInv, Outside
<1>1. ASSUME UNCHANGED waitVars PROVE DropInv(Outside)'
  BY <1>0, <1>1, DropStutters
<1>2. ASSUME NEW t \in Threads, Quiet(t, Outside) PROVE DropInv(Outside)'
  BY <1>0, <1>2, OutsideApart, DropQuiet
<1>3. ASSUME NEW t \in Threads, WaitEnlist(t) PROVE DropInv(Outside)'
  <2> DEFINE q == Insert(Rank, waiters, t)
  <2>1. /\ q \in Seq(Threads) /\ ToSet(q) = ToSet(waiters) \cup {t}
        /\ t \notin ToSet(waiters) /\ Distinct(waiters) => Distinct(q)
    BY <1>0, EnlistedList
  <2>2. Enlist(t, "c_wait", q)
    BY <1>3 DEF WaitEnlist
  <2> HIDE DEF q
  <2> QED BY <1>0, <2>1, <2>2, OutsideApart, DropEnlist
<1>4. ASSUME NEW t \in Threads, WaitGiveUp(t) PROVE DropInv(Outside)'
  <2>1. state' \in [Threads -> States] /\ kind' \in [Threads -> {"forever", "now", "timed"}]
    BY <1>0, <1>4 DEF WaitGiveUp, WaitTypeOK, States
  <2> QED BY <1>0, <1>4, <2>1, OutsideDrop DEF WaitGiveUp
<1>5. ASSUME NEW t \in Threads, WaitLeave(t) PROVE DropInv(Outside)'
  <2>1. state' \in [Threads -> States] /\ kind' \in [Threads -> {"forever", "now", "timed"}]
    BY <1>0, <1>5 DEF WaitLeave, WaitTypeOK, locals
  <2> QED BY <1>0, <1>5, <2>1, OutsideApart, DropLeave DEF WaitLeave
<1>6. ASSUME NEW t \in Threads, WaitPredicate(t) PROVE DropInv(Outside)'
  <2>1. state' \in [Threads -> States] /\ kind' \in [Threads -> {"forever", "now", "timed"}]
    BY <1>0, <1>6 DEF WaitPredicate, Forget, WaitTypeOK, States
  <2> QED BY <1>0, <1>6, <2>1, OutsideDrop DEF WaitPredicate, Forget
<1>7. ASSUME NEW t \in Threads, SignalNotify(t) \/ Drop(t) PROVE DropInv(Outside)'
  BY <1>0, <1>7, Dropping, DropStep
<1>8. ASSUME NEW t \in Threads, PredicateAcquire(t) \/ PredicateRelease(t)
      PROVE  DropInv(Outside)'
  BY <1>1, <1>8 DEF PredicateAcquire, PredicateRelease
<1>9. ASSUME NEW t \in Threads, (\E k \in Kinds : WaitCall(t, k)) \/ Signal(t)
               \/ Broadcast(t) \/ Enter(t) \/ NobodyLeft(t)
      PROVE  DropInv(Outside)'
  BY <1>0, <1>2, <1>9
  DEF WaitCall, Signal, Broadcast, Enter, NobodyLeft, Quiet, ScanOn
<1>10. ASSUME NEW t \in Threads,
              Wait(t) \/ ScanSkip(t) \/ Backoff(t) \/ Retry(t) \/ Outsiders(t)
       PROVE  DropInv(Outside)'
  BY <1>2, <1>10 DEF Quiet, ScanOn
<1> QED
  BY <1>1, <1>3, <1>4, <1>5, <1>6, <1>7, <1>8, <1>9, <1>10 DEF Next, vars

-----------------------------------------------------------------------------
(* What each step does to the calls and the ends of the waits. *)

\* The steps of t that leave what belongs to other threads alone.
Own(t) ==
  \/ \E k \in Kinds : WaitCall(t, k)
  \/ WaitEnlist(t) \/ WaitGiveUp(t) \/ WaitLeave(t) \/ WaitPredicate(t)
  \/ Wait(t) /\ UNCHANGED condition
  \/ Signal(t) \/ Broadcast(t) \/ Enter(t) \/ NobodyLeft(t)
  \/ (ScanSkip(t) \/ Backoff(t) \/ Retry(t)) /\ UNCHANGED condition
  \/ Outsiders(t) /\ UNCHANGED condition

LEMMA OwnStep ==
  ASSUME WaitingAssumption, ConditionInv, NEW t \in Threads, Own(t)
  PROVE  Only(t) /\ Ends(t)'
<1> USE DEF ConditionInv, DropInv, WaitTypeOK, condition, locals, monitors
<1> DEFINE Goal == Only(t) /\ Ends(t)'
<1>0. /\ Ends(t) /\ waiters \in Seq(Threads)
      /\ waking \in [Threads -> {"nothing", "signal", "broadcast"}]
      /\ Distinct(waiters)
  BY EndsOfAll DEF EndsInv, CallsExact, UnlistedWakes, Distinct
<1>1. ASSUME NEW k \in Kinds, WaitCall(t, k) PROVE Goal
  BY <1>0, <1>1 DEF WaitCall, CallToWait, Goto, Only, Ends, Searching, Kinds
<1>2. CASE WaitEnlist(t)
  <2>1. ToSet(waiters') = ToSet(waiters) \cup {t}
    BY <1>2, EnlistedList DEF WaitEnlist, Enlist
  <2>2. ToSet(waiters)' = ToSet(waiters')
    BY DEF ToSet
  <2> QED BY <1>0, <1>2, <2>1, <2>2 DEF WaitEnlist, Enlist, Goto, Only, Ends, Searching
<1>3. CASE WaitGiveUp(t)
  BY <1>0, <1>3, FlagsApart DEF WaitGiveUp, Goto, Only, Ends, Searching
<1>4. CASE WaitLeave(t)
  <2>1. ToSet(Erase(waiters, t)) \subseteq ToSet(waiters)
    BY <1>0, EraseList, EraseOther
  <2>2. ToSet(waiters)' = ToSet(Erase(waiters, t))
    BY <1>4 DEF ToSet, WaitLeave, Leave
  <2> QED BY <1>0, <1>4, <2>1, <2>2 DEF WaitLeave, Leave, Goto, Only, Ends, Searching
<1>5. CASE WaitPredicate(t)
  BY <1>0, <1>5 DEF WaitPredicate, Forget, Goto, Only, Ends, Searching
<1>6. CASE Wait(t) /\ UNCHANGED condition
  BY <1>6, WaitEnds
<1>7. CASE Signal(t) \/ Broadcast(t)
  BY <1>0, <1>7 DEF Signal, Broadcast, Call, Goto, Only, Ends, Searching
<1>8. CASE Enter(t)
  BY <1>0, <1>8 DEF Enter, StartScan, Goto, Only, Ends, Searching
<1>9. CASE NobodyLeft(t)
  BY <1>0, <1>9 DEF NobodyLeft, ScanDone, Scanned, EndScan, Goto, Only, Ends, Searching
<1>10. CASE (ScanSkip(t) \/ Backoff(t) \/ Retry(t)) /\ UNCHANGED condition
  BY <1>0, <1>10
  DEF ScanSkip, Scanning, Backoff, Scanned, Retry, StartScan, Goto, Only, Ends, Searching
<1>11. CASE Outsiders(t) /\ UNCHANGED condition
  <2>1. CASE Interrupt(t)
    BY <1>0, <1>11, <2>1, FlagsApart DEF Interrupt, AfterInterrupt, Only, Ends, Searching
  <2>2. CASE Interrupted(t)
    BY <1>0, <1>11, <2>2 DEF Interrupted, AfterIsInterrupted, Only, Ends, Searching
  <2>3. CASE \E x \in Observers : Observe(x, t) \/ Observed(x, t)
    BY <1>0, <1>11, <2>3 DEF Observe, Observed, Only, Ends
  <2> QED BY <1>11, <2>1, <2>2, <2>3 DEF Outsiders
<1> QED
  BY <1>1, <1>2, <1>3, <1>4, <1>5, <1>6, <1>7, <1>8, <1>9, <1>10, <1>11 DEF Own

\* The scan of t takes w off the list, which has not been signaled before: with the
\* signal() of t done, or with more to do for it.
Struck(t, w) ==
  /\ w \in ToSet(waiters) /\ pc[w] \in {"w_sleep", "w_woken"} /\ t # w
  /\ SIGNALED \notin pending[w] /\ state[w] # SIGNALED
  /\ waking[t] # "nothing" /\ pc[t] = "r_scan"
  /\ pending'[w] = AfterNotify(pending[w], ANYTHING)
  /\ \A u \in Threads \ {w} : pending'[u] = pending[u]
  /\ \A u \in Threads \ {t} : pc'[u] = pc[u] /\ waking'[u] = waking[u]
  /\ \/ /\ waking[t] = "signal" /\ Notifiable(pending[w], ANYTHING)
        /\ pc'[t] = "idle" /\ waking'[t] = "nothing"
     \/ /\ waking[t] = "signal" => ~Notifiable(pending[w], ANYTHING)
        /\ pc'[t] = pc[t] /\ waking'[t] = waking[t]
  /\ waking' \in [Threads -> {"nothing", "signal", "broadcast"}]
  /\ UNCHANGED <<state, kind, predicate>>
  /\ ToSet(waiters)' = ToSet(waiters) \ {w}

LEMMA StrikeStep ==
  ASSUME ConditionInv, None \notin Threads,
         NEW t \in Threads, SignalNotify(t) \/ Drop(t)
  PROVE  \E w \in Threads : Struck(t, w)
<1> USE DEF ConditionInv, DropInv, WaitTypeOK, locals, monitors, condition
<1>1. PICK w \in Threads :
        /\ w \in ToSet(waiters) /\ mlock[w] = None
        /\ pending'[w] = AfterNotify(pending[w], ANYTHING)
        /\ \A u \in Threads \ {w} : pending'[u] = pending[u]
        /\ ToSet(waiters)' = ToSet(waiters) \ {w}
        /\ \/ /\ waking[t] = "signal" /\ Notifiable(pending[w], ANYTHING)
              /\ Goto(t, "idle") /\ waking' = [waking EXCEPT ![t] = "nothing"]
           \/ /\ waking[t] = "signal" => ~Notifiable(pending[w], ANYTHING)
              /\ UNCHANGED <<pc, waking>>
  <2>1. /\ cursor \in 1 .. Len(waiters) /\ waiters \in Seq(Threads)
        /\ Distinct(waiters)
    BY DEF SignalNotify, Drop, ScanNotify, Scanning, UnlistedWakes, Distinct
  <2>2. /\ waiters[cursor] \in Threads /\ waiters[cursor] \in ToSet(waiters)
        /\ mlock[waiters[cursor]] = None
    BY <2>1 DEF ToSet, SignalNotify, Drop, ScanNotify
  <2>3. /\ pending'[waiters[cursor]] = AfterNotify(pending[waiters[cursor]], ANYTHING)
        /\ \A u \in Threads \ {waiters[cursor]} : pending'[u] = pending[u]
    BY <2>2 DEF SignalNotify, Drop, ScanNotify
  <2>4. waiters' = RemoveAt(waiters, cursor)
    BY DEF SignalNotify, Drop, ScanNotify
  <2>5. ToSet(waiters)' = ToSet(waiters) \ {waiters[cursor]}
    <3>1. ToSet(RemoveAt(waiters, cursor)) = ToSet(waiters) \ {waiters[cursor]}
      BY <2>1, RemoveAtList
    <3> QED BY <2>4, <3>1 DEF ToSet
  <2>6. \/ /\ waking[t] = "signal" /\ Notifiable(pending[waiters[cursor]], ANYTHING)
           /\ Goto(t, "idle") /\ waking' = [waking EXCEPT ![t] = "nothing"]
        \/ /\ waking[t] = "signal"
                => ~Notifiable(pending[waiters[cursor]], ANYTHING)
           /\ UNCHANGED <<pc, waking>>
    BY DEF SignalNotify, Drop, ScanNotify, EndScan
  <2> QED BY <2>2, <2>3, <2>5, <2>6, Zenon
<1>2. /\ pc[t] = "r_scan" /\ flock = t /\ waking[t] # "nothing"
      /\ UNCHANGED <<state, kind, predicate>>
  BY DEF SignalNotify, Drop, ScanNotify, Scanning, LocksHeld, EndsInv, CallsExact,
         Searching
<1>3. pc[w] \in {"w_sleep", "w_woken"} /\ w # t
  BY <1>1, <1>2 DEF UnlistedWakes, LocksHeld, MonitorsHeld, Inside
<1>4. SIGNALED \notin pending[w] /\ state[w] # SIGNALED
  BY <1>1, <1>3 DEF EndsInv, ListedUnsignaled
<1>5. waking \in [Threads -> {"nothing", "signal", "broadcast"}]
  BY DEF EndsInv, CallsExact
<1>6. /\ \A u \in Threads \ {t} : pc'[u] = pc[u] /\ waking'[u] = waking[u]
      /\ \/ /\ waking[t] = "signal" /\ Notifiable(pending[w], ANYTHING)
            /\ pc'[t] = "idle" /\ waking'[t] = "nothing"
         \/ /\ waking[t] = "signal" => ~Notifiable(pending[w], ANYTHING)
            /\ pc'[t] = pc[t] /\ waking'[t] = waking[t]
      /\ waking' \in [Threads -> {"nothing", "signal", "broadcast"}]
  BY <1>1, <1>5, SMTT(30) DEF Goto
<1> HIDE DEF ConditionInv, DropInv, WaitTypeOK, locals, monitors, condition
<1> QED
  BY <1>1, <1>2, <1>3, <1>4, <1>6 DEF Struck

LEMMA EndsNext ==
  ASSUME WaitingAssumption, ConditionInv, DropInv(Outside)', [Next]_vars PROVE EndsInv'
<1>0. /\ None \notin Threads /\ EndsInv /\ waiters \in Seq(Threads)
      /\ waiters' \in Seq(Threads)
      /\ predicate \in Threads \cup {None}
      /\ waking \in [Threads -> {"nothing", "signal", "broadcast"}]
      /\ \A t \in Threads : Ends(t)
  BY EndsOfAll DEF WaitingAssumption, ConditionInv, DropInv, WaitTypeOK, EndsInv, CallsExact
<1>1. CASE UNCHANGED vars
  BY <1>0, <1>1
  DEF vars, waitVars, condition, monitors, locals, EndsInv, CallsExact, EndsExact,
      ListedUnsignaled
<1>2. ASSUME NEW t \in Threads, PredicateAcquire(t) \/ PredicateRelease(t) PROVE EndsInv'
  BY <1>0, <1>2
  DEF PredicateAcquire, PredicateRelease, waitVars, monitors, locals, EndsInv,
      CallsExact, EndsExact, ListedUnsignaled
<1>3. ASSUME NEW t \in Threads, Own(t) PROVE EndsInv'
  <2>1. Only(t) /\ Ends(t)'
    BY <1>3, OwnStep
  <2>2. waking' \in [Threads -> {"nothing", "signal", "broadcast"}]
    BY <1>0, <1>3
    DEF Own, condition, WaitCall, WaitEnlist, WaitGiveUp, WaitLeave, WaitPredicate,
        Signal, Broadcast, Enter, NobodyLeft
  <2>3. /\ predicate' \in Threads \cup {None}
        /\ predicate' = predicate \/ predicate \in {None, t}
    BY <1>0, <1>3
    DEF Own, condition, WaitCall, WaitEnlist, Enlist, WaitGiveUp, WaitLeave,
        WaitPredicate, Signal, Broadcast, Enter, NobodyLeft, Ends
  <2> QED BY <1>0, <2>1, <2>2, <2>3, OnlyStep
<1>4. ASSUME NEW t \in Threads, SignalNotify(t) \/ Drop(t) PROVE EndsInv'
  <2>1. PICK w \in Threads : Struck(t, w)
    BY <1>0, <1>4, StrikeStep
  <2>2. \A u \in Threads : Ends(u)'
    <3>1. AfterNotify(pending[w], ANYTHING) \subseteq pending[w] \cup {SIGNALED}
      BY DEF AfterNotify
    <3>2. SIGNALED \in pending'[w] => pc'[w] = "w_sleep" \/ Disturbed
      BY <1>0, <2>1 DEF Struck, Ends
    <3>3. Ends(w)'
      BY <1>0, <2>1, <3>1, <3>2, FlagsApart DEF Struck, Ends
    <3>4. Ends(t)'
      BY <1>0, <2>1 DEF Struck, Ends, Searching
    <3>5. ASSUME NEW u \in Threads \ {t, w} PROVE Ends(u)'
      BY <1>0, <2>1, <3>5 DEF Struck, Ends
    <3> QED BY <3>3, <3>4, <3>5
  <2>3. predicate' \in Threads \cup {None} /\ ToSet(waiters)' \subseteq Threads
    BY <1>0, <2>1 DEF Struck, ToSet
  <2> QED BY <2>1, <2>2, <2>3
          DEF Struck, EndsInv, CallsExact, EndsExact, ListedUnsignaled, Ends
<1> QED
  BY <1>1, <1>2, <1>3, <1>4 DEF Next, Own

LEMMA ConditionInvariant ==
  ASSUME WaitingAssumption PROVE Spec => []ConditionInv
<1>1. Init => ConditionInv
  BY ConditionInit
<1>2. ConditionInv /\ [Next]_vars => ConditionInv'
  BY DropNext, EndsNext DEF ConditionInv
<1> QED
  BY <1>1, <1>2, PTL DEF Spec

\* A waiter that the scan took off the list has something to wake up for, and the
\* list names each waiter once.
THEOREM UnlistedWaitersOfConditionWake ==
  ASSUME WaitingAssumption PROVE Spec => []UnlistedWakes
<1>1. ConditionInv => UnlistedWakes
  BY DEF ConditionInv, DropInv
<1> QED
  BY ConditionInvariant, <1>1, PTL

-----------------------------------------------------------------------------
(* ConditionImpl implements AbstractCondition. *)

Phases == [t \in Threads |-> Phase(t)]
Owes   == [t \in Threads |-> Owed(t)]

\* What a step of AbstractCondition sees of a step of t alone.
LEMMA OnlyShows ==
  ASSUME NEW t \in Threads, Only(t)
  PROVE  /\ Phases' = [Phases EXCEPT ![t] = Phase(t)']
         /\ Owes' = [Owes EXCEPT ![t] = Owed(t)']
<1>1. \A u \in Threads \ {t} : Phase(u)' = Phase(u) /\ Owed(u)' = Owed(u)
  BY DEF Only, Phase, Owed
<1> QED
  BY <1>1 DEF Phases, Owes

\* The phases, and the calls, by the location.
LEMMA PhaseAt ==
  ASSUME ConditionInv, NEW t \in Threads
  PROVE  /\ Phase(t) = "out" <=> pc[t] \notin Inside \cup {"c_predicate"}
         /\ Phase(t) \in {"out", "ended", "woken", "blocked"}
         /\ pc[t] = "c_predicate" => Phase(t) \in {"ended", "woken"}
         /\ Owed(t) = "nothing" <=> pc[t] \notin {"r_lock"} \cup Searching
         /\ Owed(t) = "one" <=> waking[t] = "signal"
         /\ Owed(t) = "all" <=> waking[t] = "broadcast"
<1>1. Ends(t) /\ state[t] \in {INVALID, SIGNALED, TIMEDOUT, INTERRUPTED}
  BY EndsOfAll DEF ConditionInv, DropInv, WaitTypeOK, States
<1>2. /\ Owed(t) = "nothing" <=> pc[t] \notin {"r_lock"} \cup Searching
      /\ Owed(t) = "one" <=> waking[t] = "signal"
      /\ Owed(t) = "all" <=> waking[t] = "broadcast"
  BY <1>1 DEF Owed, Ends
<1>3. CASE pc[t] \notin Inside \cup {"c_predicate"}
  <2>1. Phase(t) = "out" /\ pc[t] # "c_predicate"
    BY <1>3 DEF Phase
  <2> QED BY <1>2, <1>3, <2>1
<1>4. CASE pc[t] \in Inside \cup {"c_predicate"}
  <2>1. Phase(t) \in {"ended", "woken", "blocked"}
    BY <1>4 DEF Phase
  <2>2. pc[t] = "c_predicate" => state[t] \in {SIGNALED, TIMEDOUT, INTERRUPTED}
    BY <1>1 DEF Ends
  <2>3. pc[t] = "c_predicate" => Phase(t) \in {"ended", "woken"}
    BY <1>4, <2>2, FlagsApart DEF Phase
  <2> QED BY <1>2, <1>4, <2>1, <2>3
<1> QED
  BY <1>3, <1>4

-----------------------------------------------------------------------------
(* Step by step. *)

LEMMA ConditionSteps ==
  ASSUME WaitingAssumption, ConditionInv, ConditionInv', [Next]_vars
  PROVE  [Abstract!Next]_<<predicate, Phases, Owes>>
<1> DEFINE Goal == [Abstract!Next]_<<predicate, Phases, Owes>>
<1> USE DEF condition
<1>0. /\ WaitTypeOK(Outside) /\ CallsExact
      /\ Phases \in [Threads -> {"out", "ended", "woken", "blocked"}]
      /\ Owes \in [Threads -> {"nothing", "one", "all"}]
      /\ \A t \in Threads : /\ Phases[t] = Phase(t) /\ Owes[t] = Owed(t)
                            /\ Phases'[t] = Phase(t)' /\ Owes'[t] = Owed(t)'
  BY PhaseAt DEF Phases, Owes, Owed, ConditionInv, DropInv, EndsInv
<1>1. ASSUME UNCHANGED vars PROVE Goal
  BY <1>1 DEF vars, waitVars, monitors, locals, Phases, Owes, Phase, Owed
\* The client and the predicate lock.
<1>2. ASSUME NEW t \in Threads, PredicateAcquire(t) \/ PredicateRelease(t) PROVE Goal
  <2>1. Phases' = Phases /\ Owes' = Owes
    BY <1>2 DEF PredicateAcquire, PredicateRelease, waitVars, monitors, Phases, Owes,
                Phase, Owed, locals
  <2>2. pc[t] = "idle" => Phase(t) = "out" /\ Owed(t) = "nothing"
    BY PhaseAt DEF Inside, Searching
  <2>3. Abstract!Acquire(t) \/ Abstract!Release(t)
    BY <1>0, <1>2, <2>1, <2>2
    DEF PredicateAcquire, PredicateRelease, Abstract!Acquire, Abstract!Release,
        Abstract!Out, Phases, Owes
  <2> QED BY <2>3 DEF Abstract!Next
<1>3. ASSUME NEW t \in Threads, Own(t) PROVE Goal
  <2>0. /\ Phases' = [Phases EXCEPT ![t] = Phase(t)']
        /\ Owes' = [Owes EXCEPT ![t] = Owed(t)']
        /\ Only(t) /\ Ends(t)' /\ Ends(t)
    <3>1. Only(t) /\ Ends(t)'
      BY <1>3, OwnStep
    <3>2. Ends(t)
      BY EndsOfAll DEF ConditionInv, DropInv, WaitTypeOK
    <3> QED BY <3>1, <3>2, OnlyShows
  <2>1. ASSUME Phase(t)' = Phase(t), Owed(t)' = Owed(t), UNCHANGED predicate PROVE Goal
    BY <1>0, <2>0, <2>1
  <2>2. ASSUME NEW k \in Kinds, WaitCall(t, k) PROVE Goal
    BY <1>0, <2>1, <2>2 DEF WaitCall, CallToWait, Goto, Phase, Owed, Inside
  <2>3. ASSUME WaitEnlist(t) PROVE Goal
    <3>1. /\ pc[t] = "c_wait" /\ pc'[t] = "w_monitor" /\ predicate = t
          /\ predicate' = None /\ UNCHANGED <<state, pending, waking>>
      BY <1>0, <2>3 DEF WaitEnlist, Enlist, Goto, CallsExact, locals, monitors, WaitTypeOK
    <3>2. /\ Phase(t) = "out" /\ Owed(t) = "nothing" /\ Owed(t)' = "nothing"
      BY <3>1, PhaseAt DEF Inside, Searching, Owed
    <3>3. Phase(t)' \in {"blocked", "ended"} \cup (IF Disturbed THEN {"woken"} ELSE {})
      BY <2>0, <3>1, FlagsApart DEF Ends, Phase, Inside
    <3>4. Abstract!Block(t)
      BY <1>0, <2>0, <3>1, <3>2, <3>3, ZenonT(40)
      DEF Abstract!Block, Abstract!Out, Phases, Owes, Disturbed
    <3> QED BY <3>4 DEF Abstract!Next
  <2>4. ASSUME WaitGiveUp(t) PROVE Goal
    <3>1. /\ pc[t] = "c_wait" /\ pc'[t] = "c_predicate" /\ predicate = t
          /\ predicate' = None /\ UNCHANGED waking /\ state'[t] = TIMEDOUT
      BY <1>0, <2>4 DEF WaitGiveUp, Goto, CallsExact, WaitTypeOK
    <3>2. /\ Phase(t) = "out" /\ Owed(t) = "nothing" /\ Owed(t)' = "nothing"
      BY <3>1, PhaseAt DEF Inside, Searching, Owed
    <3>3. Phase(t)' = "ended"
      BY <3>1, FlagsApart DEF Phase
    <3>4. Abstract!Block(t)
      BY <1>0, <2>0, <3>1, <3>2, <3>3, ZenonT(40) DEF Abstract!Block, Abstract!Out, Phases, Owes
    <3> QED BY <3>4 DEF Abstract!Next
  <2>5. ASSUME WaitLeave(t) PROVE Goal
    <3>1. /\ pc[t] = "w_relock" /\ pc'[t] = "c_predicate"
          /\ UNCHANGED <<state, pending, waking, predicate>>
      BY <1>0, <2>5 DEF WaitLeave, Leave, Goto, locals, WaitTypeOK
    <3> QED BY <2>1, <3>1 DEF Phase, Owed, Inside
  <2>6. ASSUME WaitPredicate(t) PROVE Goal
    <3>1. /\ pc[t] = "c_predicate" /\ pc'[t] = "idle" /\ predicate = None
          /\ predicate' = t /\ UNCHANGED waking
      BY <1>0, <2>6 DEF WaitPredicate, Forget, Goto, WaitTypeOK
    <3>2. Phase(t) \in {"ended", "woken"} /\ Phase(t)' = "out" /\ Owed(t)' = Owed(t)
      BY <3>1, PhaseAt DEF Phase, Owed, Inside
    <3>3. Abstract!Return(t)
      BY <1>0, <2>0, <3>1, <3>2, ZenonT(40) DEF Abstract!Return, Phases, Owes
    <3> QED BY <3>3 DEF Abstract!Next
  <2>7. ASSUME Wait(t), UNCHANGED condition PROVE Goal
    <3>1. /\ Phase(t)' \in {Phase(t), "ended"} /\ UNCHANGED <<predicate, waking>>
          /\ Phase(t)' # Phase(t) => Phase(t) = "blocked" /\ Disturbed
      BY <2>7, WaitEnds
    <3>2. Owed(t)' = Owed(t)
      BY <3>1 DEF Owed
    <3>3. ASSUME Phase(t)' # Phase(t) PROVE Abstract!CutShort(t)
      BY <1>0, <2>0, <3>1, <3>2, <3>3 DEF Abstract!CutShort, Phases, Owes, Disturbed
    <3> QED BY <2>1, <3>1, <3>2, <3>3 DEF Abstract!Next
  <2>8. ASSUME Signal(t) \/ Broadcast(t) PROVE Goal
    <3>1. /\ pc[t] = "idle" /\ pc'[t] = "r_lock"
          /\ UNCHANGED <<state, pending, predicate>>
          /\ \/ Signal(t) /\ waking'[t] = "signal"
             \/ Broadcast(t) /\ waking'[t] = "broadcast"
      BY <1>0, <2>8 DEF Signal, Broadcast, Call, Goto, locals, monitors, WaitTypeOK,
                        CallsExact
    <3>2. /\ Phase(t) = "out" /\ Phase(t)' = "out" /\ Owed(t) = "nothing"
          /\ Owed(t)' \in {"one", "all"}
      BY <3>1, PhaseAt DEF Inside, Searching, Phase, Owed
    <3>3. Abstract!Begin(t, "one") \/ Abstract!Begin(t, "all")
      BY <1>0, <2>0, <3>1, <3>2, ZenonT(40) DEF Abstract!Begin, Abstract!Out, Phases, Owes
    <3> QED BY <3>3 DEF Abstract!Next
  <2>9. ASSUME Enter(t) PROVE Goal
    BY <1>0, <2>1, <2>9
    DEF Enter, StartScan, Goto, Phase, Owed, Inside, WaitTypeOK, locals, monitors
  <2>10. ASSUME NobodyLeft(t) PROVE Goal
    <3>1. /\ pc[t] = "r_scan" /\ pc'[t] = "idle" /\ waiters = <<>>
          /\ waking'[t] = "nothing" /\ UNCHANGED <<state, pending, predicate>>
      BY <1>0, <2>10 DEF NobodyLeft, ScanDone, Scanned, AllBusy, EndScan, Goto, locals,
                         monitors, WaitTypeOK, CallsExact
    <3>2. /\ Phase(t)' = Phase(t) /\ Owed(t) # "nothing" /\ Owed(t)' = "nothing"
      BY <3>1, PhaseAt DEF Inside, Searching, Phase, Owed
    <3>3. \A w \in Threads : Phase(w) # "blocked"
      <4>1. ToSet(waiters) = {}
        BY <3>1 DEF ToSet
      <4>2. ASSUME NEW w \in Threads PROVE Phase(w) # "blocked"
        <5>1. pc[w] \notin {"w_monitor", "w_wait"}
          BY <4>1 DEF ConditionInv, DropInv, StillListed
        <5>2. pc[w] = "w_sleep" => SIGNALED \in pending[w] \/ INTERRUPTED \in pending[w]
          BY <1>0, <4>1, EndOfWait
          DEF ConditionInv, DropInv, UnlistedWakes, EndsInv, EndsExact, WaitTypeOK
        <5>3. pc[w] \in {"w_woken", "w_relock", "c_predicate"}
                => state[w] \in {SIGNALED, TIMEDOUT, INTERRUPTED}
          BY <1>0 DEF WaitTypeOK, States, ConditionInv, EndsInv, EndsExact
        <5> QED BY <5>1, <5>2, <5>3, FlagsApart DEF Phase, Inside
      <4> QED BY <4>2
    <3>4. Abstract!End(t)
      BY <1>0, <2>0, <3>1, <3>2, <3>3, ZenonT(40) DEF Abstract!End, Phases, Owes
    <3> QED BY <3>4 DEF Abstract!Next
  <2>11. ASSUME ScanSkip(t) \/ Backoff(t) \/ Retry(t), UNCHANGED condition PROVE Goal
    <3>1. /\ pc[t] \in Searching /\ pc'[t] \in Searching
          /\ UNCHANGED <<state, pending, predicate, waking>>
      BY <1>0, <2>11 DEF ScanSkip, Scanning, Backoff, Scanned, Retry, StartScan, Goto,
                         locals, monitors, WaitTypeOK, Searching
    <3> QED BY <2>1, <3>1 DEF Phase, Owed, Inside, Searching
  <2>12. ASSUME Outsiders(t), UNCHANGED condition PROVE Goal
    <3>1. ASSUME Interrupt(t) PROVE Goal
      <4>1. /\ pending'[t] \in {pending[t], pending[t] \cup {INTERRUPTED}} /\ Interrupts
            /\ UNCHANGED <<pc, state, waking, predicate>>
        BY <1>0, <2>12, <3>1 DEF Interrupt, AfterInterrupt, locals, WaitTypeOK
      <4>2. /\ Phase(t)' = Phase(t) \/ (Phase(t) = "blocked" /\ Phase(t)' = "ended")
            /\ Owed(t)' = Owed(t)
        <5>1. /\ SIGNALED \in pending'[t] <=> SIGNALED \in pending[t]
              /\ INTERRUPTED \in pending[t] => INTERRUPTED \in pending'[t]
          BY <4>1, FlagsApart
        <5>2. pc'[t] = pc[t] /\ state'[t] = state[t] /\ waking'[t] = waking[t]
          BY <4>1
        <5>3. Phase(t)' = Phase(t) \/ (Phase(t) = "blocked" /\ Phase(t)' = "ended")
          BY <5>1, <5>2 DEF Phase
        <5>4. Owed(t)' = Owed(t)
          BY <5>2 DEF Owed
        <5> QED BY <5>3, <5>4
      <4>3. ASSUME Phase(t)' # Phase(t) PROVE Abstract!CutShort(t)
        BY <1>0, <2>0, <4>1, <4>2, <4>3 DEF Abstract!CutShort, Phases, Owes
      <4> QED BY <2>1, <4>1, <4>2, <4>3 DEF Abstract!Next
    <3>2. ASSUME Interrupted(t) PROVE Goal
      BY <2>1, <2>12, <3>2 DEF Interrupted, locals, Phase, Owed, Inside
    <3>3. ASSUME NEW x \in Observers, Observe(x, t) \/ Observed(x, t) PROVE Goal
      BY <2>1, <2>12, <3>3 DEF Observe, Observed, locals, Phase, Owed
    <3> QED BY <2>12, <3>1, <3>2, <3>3 DEF Outsiders
  <2> HIDE DEF Goal
  <2> QED BY <1>3, <2>2, <2>3, <2>4, <2>5, <2>6, <2>7, <2>8, <2>9, <2>10, <2>11, <2>12
          DEF Own
\* The waiter w is taken off the list.
<1>4. ASSUME NEW t \in Threads, SignalNotify(t) \/ Drop(t) PROVE Goal
  <2>1. PICK w \in Threads : Struck(t, w)
    BY <1>4, StrikeStep DEF WaitingAssumption
  <2>2. \A u \in Threads \ {w} : Phase(u)' = Phase(u)
    BY <2>1 DEF Struck, Phase, Inside
  <2>3. \A u \in Threads \ {t} : Owed(u)' = Owed(u)
    BY <2>1 DEF Struck, Owed
  <2>4. /\ Phase(w) = IF state[w] = INVALID /\ INTERRUPTED \notin pending[w]
                      THEN "blocked" ELSE "ended"
        /\ Phase(w)' = IF Phase(w) = "blocked" THEN "woken" ELSE "ended"
        /\ Phase(w) = "blocked" => Notifiable(pending[w], ANYTHING)
    <3>1. Ends(w) /\ state[w] \in States /\ pending[w] \in SUBSET Flags
      BY <1>0, EndsOfAll DEF ConditionInv, DropInv, WaitTypeOK
    <3>2. Notifiable(pending[w], ANYTHING) <=> INTERRUPTED \notin pending[w]
      BY DEF Notifiable, Pending, ANYTHING, Flags, INTERRUPTED, CANCELED
    <3>3. pending'[w] = IF INTERRUPTED \in pending[w] THEN pending[w]
                        ELSE pending[w] \cup {SIGNALED}
      BY <2>1, <3>2 DEF Struck, AfterNotify
    <3>4. pc'[w] = pc[w] /\ pc[w] \in {"w_sleep", "w_woken"} /\ state'[w] = state[w]
          /\ SIGNALED \notin pending[w] /\ state[w] # SIGNALED
      BY <2>1 DEF Struck
    <3>5. /\ pc[w] = "w_sleep" => state[w] = INVALID
          /\ pc[w] = "w_woken" => state[w] \in {TIMEDOUT, INTERRUPTED}
      BY <3>1, <3>4 DEF Ends, States
    <3> QED BY <3>2, <3>3, <3>4, <3>5, FlagsApart DEF Phase, Inside
  <2>5. Phases' = [Phases EXCEPT ![w] = IF @ = "blocked" THEN "woken" ELSE "ended"]
    BY <1>0, <2>2, <2>4 DEF Phases
  <2>6. UNCHANGED predicate /\ Owed(t) \in {"one", "all"}
    BY <2>1, PhaseAt DEF Struck, Searching
  <2>7. ASSUME Owed(t)' = IF Owed(t) = "one" THEN "nothing" ELSE Owed(t) PROVE Goal
    <3>1. Owes' = [Owes EXCEPT ![t] = IF @ = "one" THEN "nothing" ELSE @]
      BY <1>0, <2>3, <2>7 DEF Owes
    <3>2. Abstract!Wake(t, w)
      BY <1>0, <2>4, <2>5, <2>6, <3>1 DEF Abstract!Wake, Abstract!Waiters, Phases, Owes
    <3> QED BY <3>2 DEF Abstract!Next
  <2>8. ASSUME Owed(t) = "one", Owed(t)' = Owed(t), ~Notifiable(pending[w], ANYTHING)
        PROVE  Goal
    <3>1. Phase(w)' = Phase(w)
      BY <2>4, <2>8
    <3> QED BY <2>2, <2>3, <2>6, <2>8, <3>1 DEF Phases, Owes
  <2>9. \/ Owed(t)' = IF Owed(t) = "one" THEN "nothing" ELSE Owed(t)
        \/ Owed(t) = "one" /\ Owed(t)' = Owed(t) /\ ~Notifiable(pending[w], ANYTHING)
    BY <2>1, <2>6, PhaseAt DEF Struck, Owed
  <2> QED BY <2>7, <2>8, <2>9
<1> HIDE DEF Goal
<1>5. ASSUME NEW t \in Threads,
             \/ PredicateAcquire(t) \/ PredicateRelease(t)
             \/ Own(t) \/ SignalNotify(t) \/ Drop(t)
      PROVE  Goal
  BY <1>2, <1>3, <1>4, <1>5
<1>6. Goal
  <2>1. ASSUME Next PROVE Goal
    <3>1. PICK t \in Threads :
            \/ PredicateAcquire(t) \/ PredicateRelease(t)
            \/ Own(t) \/ SignalNotify(t) \/ Drop(t)
      BY <2>1, Zenon DEF Next, Own
    <3> QED BY <1>5, <3>1
  <2> QED BY <1>1, <2>1
<1> QED
  BY <1>6 DEF Goal

\* No signal is lost and no wait is missed, in any environment: every behaviour of
\* a Condition is one of AbstractCondition.
THEOREM ConditionImplements ==
  ASSUME WaitingAssumption PROVE Spec => ImplementsCondition
<1>1. Init => Abstract!Init
  BY DEF Init, WaitInit, Abstract!Init, Phase, Owed, Inside
<1>2. WaitingAssumption /\ ConditionInv /\ ConditionInv' /\ [Next]_vars
        => [Abstract!Next]_<<predicate, Phases, Owes>>
  BY ConditionSteps
<1> QED
  BY <1>1, <1>2, ConditionInvariant, PTL
  DEF Spec, ImplementsCondition, Abstract!Spec, Abstract!vars, Phases, Owes

=============================================================================
