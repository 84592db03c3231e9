------------------------- MODULE SemaphoreImplProofs -------------------------
(***************************************************************************)
(* SemaphoreImpl keeps its types, its list and the number of its waiters   *)
(* in every environment: any number of threads and observers, any maximum, *)
(* any order of the list, with interruptions and timeouts or without.  A   *)
(* binary semaphore whose clients are not interrupted and do not wait with *)
(* a timeout passes its one permit on without losing or doubling it.       *)
(***************************************************************************)
EXTENDS SemaphoreImpl, WaitingProofs

Outside == {"a_lock", "r_lock"}

Waiters == {t \in Threads : pc[t] \in Inside}

SemaphoreInv ==
  /\ DropInv(Outside)
  /\ count \in Int /\ count <= MaxCount
  /\ EntriesExact

\* The permit is on its way: to whom the scan finds or to whom it has notified.
Passing(t) == Signaled(t) \/ pc[t] \in Searching

\* What is pending, or has ended a wait, is a signal.
OnlySignals ==
  \A t \in Threads :
    /\ kind[t] # "timed"
    /\ pending[t] \subseteq {SIGNALED}
    /\ pending[t] # {} => pc[t] = "w_sleep"
    /\ state[t] = SIGNALED <=> pc[t] \in {"w_woken", "w_relock"}
    /\ pc[t] \in Inside => (Signaled(t) <=> t \notin ToSet(waiters))

OnePermit ==
  /\ count \in {0, 1}
  /\ \A t, u \in Threads : Passing(t) /\ Passing(u) => t = u
  /\ \A t \in Threads : Passing(t) => count = 1
  /\ count = 1 /\ Waiters # {} => \E t \in Threads : Passing(t)
  /\ \A t \in Threads : pc[t] = "r_backoff" => Waiters # {}

LEMMA OutsideApart == Apart(Outside)
  BY DEF Apart, Outside, Inside, Searching

-----------------------------------------------------------------------------
(* In every environment. *)

\* The number of waiters follows their set.
LEMMA WaitersCounted ==
  ASSUME WaitingAssumption
  PROVE  /\ IsFiniteSet(Waiters) /\ Cardinality(Waiters) \in Nat
         /\ Cardinality(Waiters) = 0 <=> Waiters = {}
<1>1. IsFiniteSet(Waiters)
  <2>1. Waiters \in SUBSET Threads /\ IsFiniteSet(Threads)
    BY DEF Waiters, WaitingAssumption
  <2> QED BY <2>1, FS_Subset
<1> QED
  BY <1>1, FS_CardinalityType, FS_EmptySet

LEMMA SemaphoreInit ==
  ASSUME WaitingAssumption, SemaphoreAssumption, Init
  PROVE  SemaphoreInv
<1>1. DropInv(Outside)
  BY DropInitially DEF Init
<1>2. Waiters = {}
  BY DEF Init, WaitInit, Waiters, Inside
<1>3. EntriesExact
  BY <1>2, WaitersCounted DEF Init, EntriesExact, Waiters
<1> QED
  BY <1>1, <1>3 DEF Init, SemaphoreAssumption, SemaphoreInv

\* The step of a thread that does not enter or leave a wait.
LEMMA EntriesKept ==
  ASSUME SemaphoreInv, DropInv(Outside)', UNCHANGED entryCount,
         count' \in Int, count' <= MaxCount,
         \A u \in Threads : pc'[u] \in Inside <=> pc[u] \in Inside
  PROVE  SemaphoreInv'
<1>1. {u \in Threads : pc'[u] \in Inside} = {u \in Threads : pc[u] \in Inside}
  OBVIOUS
<1> QED
  BY <1>1 DEF SemaphoreInv, EntriesExact

LEMMA QuietKept ==
  ASSUME WaitingAssumption, SemaphoreInv, NEW t \in Threads, Quiet(t, Outside),
         UNCHANGED entryCount, count' \in Int, count' <= MaxCount
  PROVE  SemaphoreInv'
<1>1. DropInv(Outside)'
  BY OutsideApart, DropQuiet DEF SemaphoreInv
<1>2. \A u \in Threads : pc'[u] \in Inside <=> pc[u] \in Inside
  BY OutsideApart, QuietInside DEF SemaphoreInv, DropInv
<1> QED
  BY <1>1, <1>2, EntriesKept

\* What acquire() and tryAcquire() make of the list: the newcomer is in it.
LEMMA ListingList ==
  ASSUME WaitingAssumption, waiters \in Seq(Threads), NEW t \in Threads
  PROVE  /\ Listing(t) \in Seq(Threads)
         /\ ToSet(Listing(t)) = ToSet(waiters) \cup {t}
         /\ t \notin ToSet(waiters) /\ Distinct(waiters) => Distinct(Listing(t))
<1> DEFINE q == Append(waiters, t)
<1>1. /\ q \in Seq(Threads) /\ ToSet(q) = ToSet(waiters) \cup {t}
      /\ t \notin ToSet(waiters) /\ Distinct(waiters) => Distinct(q)
  BY AppendList
<1> HIDE DEF q
<1>2. /\ Sorted(Rank, q) \in Seq(Threads) /\ ToSet(Sorted(Rank, q)) = ToSet(q)
      /\ Distinct(q) => Distinct(Sorted(Rank, q))
  BY <1>1, SortedList DEF WaitingAssumption
<1> QED
  BY <1>1, <1>2 DEF Listing, q

\* The scan of a release() drops a waiter.
LEMMA ReleaseDrops ==
  ASSUME SemaphoreInv, NEW t \in Threads, ReleaseNotify(t) \/ ReleaseRefused(t)
  PROVE  Dropped(t)
<1> USE DEF SemaphoreInv, DropInv, WaitTypeOK, locals, monitors
<1> DEFINE w == waiters[cursor]
<1>1. Scanning(t) /\ mlock[w] = None /\ w \in Threads /\ pending[w] \in SUBSET Flags
  BY DEF ReleaseNotify, ReleaseRefused, ScanNotify, Scanning
<1>2. CASE ReleaseNotify(t)
  BY <1>1, <1>2, NotifyPends, StatusTypes DEF ReleaseNotify, ScanNotify, Dropped
<1>3. CASE ReleaseRefused(t)
  BY <1>1, <1>3, NotifyPends DEF ReleaseRefused, Dropped
<1> QED
  BY <1>2, <1>3

LEMMA SemaphoreNext ==
  ASSUME WaitingAssumption, SemaphoreAssumption, SemaphoreInv, [Next]_vars
  PROVE  SemaphoreInv'
<1> USE DEF semaphore
<1>0. /\ count \in Int /\ count <= MaxCount /\ MaxCount \in Nat
      /\ DropInv(Outside) /\ EntriesExact
      /\ "a_lock" \in Outside /\ "r_lock" \in Outside
  BY DEF SemaphoreInv, SemaphoreAssumption, Outside
<1>1. CASE UNCHANGED vars
  <2>1. DropInv(Outside)' /\ UNCHANGED <<count, entryCount, pc>>
    BY <1>0, <1>1, DropStutters DEF vars, waitVars
  <2> QED BY <1>0, <2>1, EntriesKept
<1>2. ASSUME NEW t \in Threads, Quiet(t, Outside), UNCHANGED semaphore
      PROVE  SemaphoreInv'
  BY <1>0, <1>2, QuietKept
<1>3. ASSUME NEW t \in Threads, NEW k \in Kinds, AcquireCall(t, k)
      PROVE  SemaphoreInv'
  BY <1>0, <1>2, <1>3 DEF AcquireCall, Quiet
<1>4. ASSUME NEW t \in Threads, AcquireTake(t) PROVE SemaphoreInv'
  <2>1. Quiet(t, Outside)
    BY <1>0, <1>4 DEF AcquireTake, Quiet
  <2>2. UNCHANGED entryCount /\ count' \in Int /\ count' <= MaxCount
    BY <1>0, <1>4 DEF AcquireTake
  <2> QED BY <2>1, <2>2, QuietKept
<1>5. ASSUME NEW t \in Threads, AcquireGiveUp(t) PROVE SemaphoreInv'
  BY <1>0, <1>2, <1>5 DEF AcquireGiveUp, Quiet
<1>6. ASSUME NEW t \in Threads, AcquireEnlist(t) PROVE SemaphoreInv'
  <2>1. Enlist(t, "a_lock", Listing(t)) /\ waiters \in Seq(Threads)
    BY <1>0, <1>6 DEF AcquireEnlist, DropInv, WaitTypeOK
  <2>2. DropInv(Outside)'
    <3> DEFINE q == Listing(t)
    <3>1. /\ q \in Seq(Threads) /\ ToSet(q) = ToSet(waiters) \cup {t}
          /\ t \notin ToSet(waiters) /\ Distinct(waiters) => Distinct(q)
      BY <2>1, ListingList
    <3>2. Enlist(t, "a_lock", q)
      BY <2>1
    <3> HIDE DEF q
    <3> QED BY <1>0, <3>1, <3>2, OutsideApart, DropEnlist
  <2>3. /\ t \notin Waiters
        /\ {u \in Threads : pc'[u] \in Inside} = Waiters \cup {t}
    BY <1>0, <2>1 DEF Enlist, Goto, Waiters, DropInv, WaitTypeOK, Inside
  <2>4. Cardinality(Waiters \cup {t}) = Cardinality(Waiters) + 1
    BY <2>3, WaitersCounted, FS_AddElement
  <2>5. EntriesExact'
    BY <1>0, <1>6, <2>3, <2>4 DEF EntriesExact, Waiters, AcquireEnlist
  <2> QED BY <1>0, <1>6, <2>2, <2>5 DEF AcquireEnlist, SemaphoreInv
<1>7. ASSUME NEW t \in Threads, AcquireLeave(t) PROVE SemaphoreInv'
  <2>1. Leave(t) /\ Forget(t) /\ pc[t] = "w_relock"
    BY <1>7 DEF AcquireLeave, Leave
  <2>2. DropInv(Outside)'
    <3>1. /\ state' \in [Threads -> States] /\ Goto(t, "idle")
          /\ kind' \in [Threads -> {"forever", "now", "timed"}]
      BY <1>0, <2>1 DEF Forget, DropInv, WaitTypeOK, States
    <3> QED BY <1>0, <2>1, <3>1, OutsideApart, DropLeave
  <2>3. t \in Waiters /\ {u \in Threads : pc'[u] \in Inside} = Waiters \ {t}
    BY <1>0, <2>1 DEF Forget, Goto, Waiters, DropInv, WaitTypeOK, Inside
  <2>4. Cardinality(Waiters \ {t}) = Cardinality(Waiters) - 1
    BY <2>3, WaitersCounted, FS_RemoveElement
  <2>5. EntriesExact'
    BY <1>0, <1>7, <2>3, <2>4 DEF EntriesExact, Waiters, AcquireLeave, Departed
  <2>6. count' \in Int /\ count' <= MaxCount
    BY <1>0, <1>7 DEF AcquireLeave
  <2> QED BY <2>2, <2>5, <2>6 DEF SemaphoreInv
<1>8. ASSUME NEW t \in Threads, UNCHANGED semaphore,
             Wait(t) \/ ScanOn(t) \/ Retry(t) \/ Outsiders(t)
      PROVE  SemaphoreInv'
  BY <1>2, <1>8 DEF Quiet
<1>9. ASSUME NEW t \in Threads, ReleaseCall(t) \/ ReleaseInvalid(t)
      PROVE  SemaphoreInv'
  BY <1>0, <1>2, <1>9 DEF ReleaseCall, ReleaseInvalid, Quiet
<1>10. ASSUME NEW t \in Threads, ReleaseEnter(t) PROVE SemaphoreInv'
  <2>1. Quiet(t, Outside)
    BY <1>0, <1>10 DEF ReleaseEnter, Quiet
  <2>2. UNCHANGED entryCount /\ count' \in Int /\ count' <= MaxCount
    BY <1>0, <1>10 DEF ReleaseEnter, Full
  <2> QED BY <2>1, <2>2, QuietKept
<1>11. ASSUME NEW t \in Threads, ReleaseNotify(t) \/ ReleaseRefused(t)
       PROVE  SemaphoreInv'
  <2>1. DropInv(Outside)'
    BY <1>0, <1>11, ReleaseDrops, DropStep
  <2>2. UNCHANGED <<count, entryCount>>
    BY <1>11 DEF ReleaseNotify, ReleaseRefused
  <2>3. \A u \in Threads : pc'[u] \in Inside <=> pc[u] \in Inside
    BY <1>0, <1>11 DEF ReleaseNotify, ReleaseRefused, ScanNotify, Scanning, EndScan,
                       Goto, DropInv, WaitTypeOK, Inside
  <2> QED BY <1>0, <2>1, <2>2, <2>3, EntriesKept
<1> QED
  BY <1>1, <1>3, <1>4, <1>5, <1>6, <1>7, <1>8, <1>9, <1>10, <1>11
  DEF Next, LockAcquire, LockRelease

LEMMA SemaphoreInvariant ==
  ASSUME WaitingAssumption, SemaphoreAssumption PROVE Spec => []SemaphoreInv
<1>1. Init => SemaphoreInv
  BY SemaphoreInit
<1>2. SemaphoreInv /\ [Next]_vars => SemaphoreInv'
  BY SemaphoreNext
<1> QED
  BY <1>1, <1>2, PTL DEF Spec

\* Every variable keeps its type, and the count never exceeds the maximum,
\* whatever ends a wait.
THEOREM SemaphoreTypes ==
  ASSUME WaitingAssumption, SemaphoreAssumption PROVE Spec => []TypeOK
<1>1. SemaphoreInv => TypeOK
  BY WaitersCounted DEF SemaphoreInv, DropInv, TypeOK, Outside, EntriesExact, Waiters
<1> QED
  BY SemaphoreInvariant, <1>1, PTL

\* _entryCount is the number of threads inside a wait, also of those that the
\* scan has taken off the list.
THEOREM EntriesCounted ==
  ASSUME WaitingAssumption, SemaphoreAssumption PROVE Spec => []EntriesExact
<1>1. SemaphoreInv => EntriesExact
  BY DEF SemaphoreInv
<1> QED
  BY SemaphoreInvariant, <1>1, PTL

\* A waiter that the scan took off the list has something to wake up for, and the
\* list names each waiter once.
THEOREM UnlistedWaitersWake ==
  ASSUME WaitingAssumption, SemaphoreAssumption PROVE Spec => []UnlistedWakes
<1>1. SemaphoreInv => UnlistedWakes
  BY DEF SemaphoreInv, DropInv
<1> QED
  BY SemaphoreInvariant, <1>1, PTL

-----------------------------------------------------------------------------
(* A binary semaphore without interruptions and timeouts: its one permit is *)
(* in the count while nobody waits, and on its way otherwise.  With a       *)
(* larger maximum, or when waits are cut short, a second permit can be      *)
(* added while one is on its way, and this fails.                           *)

Binary ==
  WaitingAssumption /\ SemaphoreAssumption /\ MaxCount = 1 /\ ~Interrupts /\ ~Timeouts

PermitInv == SemaphoreInv /\ OnlySignals /\ OnePermit

\* What next() and notify() do to the words that occur.
LEMMA OnlySignalStatus ==
  /\ NextState({SIGNALED}, ANYTHING) = SIGNALED
  /\ AfterNext({SIGNALED}, ANYTHING) = {}
  /\ AfterNotify({}, ANYTHING) = {SIGNALED} /\ Notifiable({}, ANYTHING)
  /\ AfterIsInterrupted({}) = {}
  /\ ~Pending({}, ANYTHING, ANYTHING)
  /\ INVALID # SIGNALED
<1>1. {SIGNALED} \cap ANYTHING = {SIGNALED} /\ {} \cap ANYTHING = {}
  BY DEF SIGNALED, ANYTHING, Flags, CANCELED, INTERRUPTED, TIMEDOUT
<1>2. NextState({SIGNALED}, ANYTHING) = SIGNALED
  BY <1>1 DEF NextState
<1>3. AfterNext({SIGNALED}, ANYTHING) = {}
  BY <1>2 DEF AfterNext, SIGNALED, INVALID
<1>4. AfterNotify({}, ANYTHING) = {SIGNALED} /\ Notifiable({}, ANYTHING)
  BY DEF AfterNotify, Notifiable, Pending
<1>5. ~Pending({}, ANYTHING, ANYTHING) /\ AfterIsInterrupted({}) = {}
  BY DEF Pending, AfterIsInterrupted
<1> QED
  BY <1>2, <1>3, <1>4, <1>5 DEF INVALID, SIGNALED

LEMMA PermitInit == ASSUME Binary, Init PROVE PermitInv
<1>1. SemaphoreInv
  BY SemaphoreInit DEF Binary
<1>2. OnlySignals
  BY OnlySignalStatus DEF Init, WaitInit, OnlySignals, Inside
<1>3. \A t \in Threads : ~Passing(t)
  BY DEF Init, WaitInit, Passing, Signaled, Inside, Searching
<1>4. OnePermit
  BY <1>3 DEF Init, WaitInit, OnePermit, Binary, SemaphoreAssumption, Waiters, Inside
<1> QED
  BY <1>1, <1>2, <1>4 DEF PermitInv

\* Everybody passes the permit who did before, and the waiters are the same.
Same ==
  /\ \A u \in Threads : Passing(u)' <=> Passing(u)
  /\ UNCHANGED <<Waiters, count>>

LEMMA SamePermit ==
  ASSUME OnePermit, Same,
         \A u \in Threads : pc'[u] = "r_backoff" => Waiters # {}
  PROVE  OnePermit'
  BY DEF OnePermit, Same

\* A thread that is not waiting goes somewhere else where it is not.
LEMMA OutsideStep ==
  ASSUME PermitInv, NEW t \in Threads, NEW l \in Outside \cup {"idle"}, Goto(t, l),
         pc[t] \in Outside \cup {"idle"},
         UNCHANGED <<waiters, pending, count>>,
         \/ UNCHANGED state /\ kind'[t] # "timed"
              /\ \A u \in Threads \ {t} : kind'[u] = kind[u]
         \/ Forget(t)
  PROVE  OnlySignals' /\ OnePermit'
<1> USE DEF PermitInv, SemaphoreInv, DropInv, WaitTypeOK
<1>1. /\ pc'[t] \notin Inside \cup Searching /\ pc[t] \notin Inside \cup Searching
      /\ \A u \in Threads \ {t} : pc'[u] = pc[u] /\ state'[u] = state[u]
      /\ state'[t] \in {state[t], INVALID}
      /\ \A u \in Threads : kind'[u] # "timed"
  BY DEF Goto, Forget, Outside, Inside, Searching, OnlySignals
<1>2. OnlySignals'
  <2>1. \A u \in Threads : Signaled(u)' <=> Signaled(u)
    BY <1>1 DEF Signaled
  <2>2. pending[t] = {} /\ state[t] # SIGNALED /\ state'[t] # SIGNALED
    BY <1>1, OnlySignalStatus DEF OnlySignals, Inside
  <2>3. pc'[t] \notin {"w_woken", "w_relock", "w_sleep"}
    BY <1>1 DEF Inside
  <2> QED BY <1>1, <2>1, <2>2, <2>3 DEF OnlySignals
<1>3. \A u \in Threads : Passing(u)' <=> Passing(u)
  BY <1>1 DEF Passing, Signaled
<1>4. Waiters' = Waiters
  BY <1>1 DEF Waiters
<1>5. \A u \in Threads : pc'[u] = "r_backoff" => Waiters # {}
  BY <1>1 DEF OnePermit, Searching
<1> QED
  BY <1>2, <1>3, <1>4, <1>5, SamePermit DEF Same

\* A thread takes a step of its wait: the permit stays with it if it is there.
LEMMA WaitStep ==
  ASSUME Binary, PermitInv, NEW t \in Threads, Wait(t), UNCHANGED semaphore
  PROVE  OnlySignals' /\ OnePermit'
<1> USE DEF PermitInv, SemaphoreInv, DropInv, WaitTypeOK, locals, monitors, semaphore
<1>0. t \in Waiters /\ "r_backoff" \notin Inside
  BY DEF Wait, WaitForLock, WaitRun, EnterMonitor, WaitSkip, WaitSleep, Wake, Expire,
         EndSleep, WaitReturn, Waiters, Inside
<1>1. \A u \in Threads \ {t} :
        pc'[u] = pc[u] /\ state'[u] = state[u] /\ pending'[u] = pending[u]
  BY DEF Wait, WaitForLock, WaitRun, EnterMonitor, WaitSkip, WaitSleep, Wake, Expire,
         EndSleep, WaitReturn, Goto
\* If t stays inside with a signal or stays without one, so does everything else.
<1>2. ASSUME pc'[t] \in Inside, Signaled(t)' <=> Signaled(t) PROVE Same
  <2>1. Waiters' = Waiters
    BY <1>0, <1>1, <1>2 DEF Waiters
  <2>2. \A u \in Threads : Passing(u)' <=> Passing(u)
    BY <1>0, <1>1, <1>2 DEF Passing, Signaled, Waiters, Inside, Searching
  <2> QED BY <2>1, <2>2 DEF Same
<1>3. UNCHANGED waiters /\ UNCHANGED kind
  BY DEF Wait, WaitForLock, WaitRun, EnterMonitor, WaitSkip, WaitSleep, Wake, Expire,
         EndSleep, WaitReturn
<1>4. CASE EnterMonitor(t) \/ WaitSleep(t) \/ WaitReturn(t)
  <2>1. /\ pc'[t] \in Inside /\ UNCHANGED <<state, pending>>
        /\ pc[t] \in {"w_woken", "w_relock"} <=> pc'[t] \in {"w_woken", "w_relock"}
        /\ pc[t] # "w_sleep"
    BY <1>4 DEF EnterMonitor, WaitSleep, WaitReturn, Goto, Inside
  <2>2. Signaled(t)' <=> Signaled(t)
    BY <1>0, <2>1 DEF Signaled, Waiters
  <2>3. OnlySignals'
    <3>1. /\ OnlySignals /\ pc[t] \in Inside
          /\ \A u \in Threads \ {t} : pc'[u] = pc[u]
      BY <1>0, <1>1 DEF Waiters
    <3>2. \A u \in Threads : Signaled(u)' <=> Signaled(u)
      BY <2>1, <2>2, <3>1 DEF Signaled
    <3> HIDE DEF PermitInv, SemaphoreInv, DropInv, WaitTypeOK
    <3>3. ASSUME NEW u \in Threads, u # t
          PROVE  /\ kind'[u] # "timed" /\ pending'[u] \subseteq {SIGNALED}
                 /\ pending'[u] # {} => pc'[u] = "w_sleep"
                 /\ state'[u] = SIGNALED <=> pc'[u] \in {"w_woken", "w_relock"}
                 /\ pc'[u] \in Inside => (Signaled(u)' <=> u \notin ToSet(waiters'))
      BY <1>3, <2>1, <3>1, <3>2, <3>3 DEF OnlySignals
    <3>4. /\ kind'[t] # "timed" /\ pending'[t] = {}
          /\ state'[t] = SIGNALED <=> pc'[t] \in {"w_woken", "w_relock"}
          /\ Signaled(t)' <=> t \notin ToSet(waiters')
      BY <1>3, <2>1, <3>1, <3>2 DEF OnlySignals
    <3> QED BY <3>3, <3>4 DEF OnlySignals
  <2> QED BY <1>0, <1>2, <2>1, <2>2, <2>3, SamePermit
<1>5. CASE WaitSkip(t)
  <2>1. pending[t] = {}
    BY <1>5 DEF WaitSkip, OnlySignals
  <2> QED BY <1>5, <2>1, OnlySignalStatus DEF WaitSkip
<1>6. CASE Wake(t)
  <2>1. pc[t] = "w_sleep" /\ pending[t] = {SIGNALED}
    <3>1. pc[t] = "w_sleep" /\ pending[t] \subseteq {SIGNALED}
      BY <1>6 DEF Wake, EndSleep, OnlySignals
    <3>2. pending[t] # {}
      BY <1>6, OnlySignalStatus DEF Wake
    <3> QED BY <3>1, <3>2
  <2>2. /\ pc' = [pc EXCEPT ![t] = "w_woken"]
        /\ state' = [state EXCEPT ![t] = SIGNALED]
        /\ pending' = [pending EXCEPT ![t] = {}]
    BY <1>6, <2>1, OnlySignalStatus DEF Wake, EndSleep, Goto
  <2>3. pc'[t] \in Inside /\ Signaled(t)' /\ Signaled(t)
    BY <2>1, <2>2 DEF Signaled, Inside
  <2>4. OnlySignals'
    BY <1>1, <1>3, <2>1, <2>2, <2>3 DEF OnlySignals, Signaled, Inside
  <2> QED BY <1>0, <1>2, <2>3, <2>4, SamePermit
<1>7. ~Expire(t)
  BY DEF Expire, OnlySignals
<1> QED
  BY <1>4, <1>5, <1>6, <1>7 DEF Wait, WaitForLock, WaitRun

\* Wherever the permit is with a thread that looks for a waiter, that thread goes
\* on looking unless nobody waits.
LEMMA ScanStep ==
  ASSUME Binary, PermitInv, NEW t \in Threads, ScanOn(t) \/ Retry(t),
         UNCHANGED semaphore
  PROVE  OnlySignals' /\ OnePermit'
<1> USE DEF PermitInv, SemaphoreInv, DropInv, WaitTypeOK, locals, monitors, semaphore
<1>1. pc[t] \in Searching /\ pc[t] \notin Inside /\ Passing(t)
  BY DEF ScanOn, ScanSkip, ScanDone, Backoff, Retry, StartScan, Scanning, Scanned,
         Searching, Inside, Passing
<1>2. UNCHANGED <<waiters, pending, state, kind>>
  BY DEF ScanOn, ScanSkip, ScanDone, Backoff, Retry, StartScan
<1>3. /\ pc'[t] \notin Inside
      /\ \A u \in Threads \ {t} : pc'[u] = pc[u]
  BY <1>1 DEF ScanOn, ScanSkip, ScanDone, Backoff, Retry, StartScan, EndScan, Goto, Inside
<1>4. Waiters' = Waiters
  BY <1>1, <1>3 DEF Waiters
<1>5. OnlySignals'
  BY <1>1, <1>2, <1>3 DEF OnlySignals, Signaled, Inside
<1>6. Waiters # {} <=> waiters # <<>>
  <2>1. ASSUME waiters # <<>> PROVE Waiters # {}
    <3>1. waiters[1] \in ToSet(waiters) /\ waiters[1] \in Threads
      BY <2>1 DEF ToSet
    <3> QED BY <3>1 DEF UnlistedWakes, Waiters
  <2>2. ASSUME NEW u \in Waiters, waiters = <<>> PROVE FALSE
    <3>1. ToSet(<<>>) = {}
      BY DEF ToSet
    <3>2. u # t /\ Passing(u)
      BY <1>1, <2>2, <3>1 DEF Waiters, OnlySignals, Passing
    <3> QED BY <1>1, <3>2 DEF OnePermit, Waiters
  <2> QED BY <2>1, <2>2
<1>7. CASE ScanSkip(t) \/ Backoff(t) \/ Retry(t)
  <2>1. pc'[t] \in Searching /\ (pc'[t] = "r_backoff" => Waiters # {})
    BY <1>1, <1>6, <1>7 DEF ScanSkip, Backoff, Retry, StartScan, Goto, Scanning, AllBusy,
                            Searching
  <2>2. \A u \in Threads : Passing(u)' <=> Passing(u)
    BY <1>1, <1>2, <1>3, <2>1 DEF Passing, Signaled
  <2>3. \A u \in Threads : pc'[u] = "r_backoff" => Waiters # {}
    BY <1>3, <2>1 DEF OnePermit
  <2> QED BY <1>4, <1>5, <2>2, <2>3, SamePermit DEF Same
<1>8. CASE ScanDone(t)
  <2>1. Waiters = {} /\ pc'[t] = "idle"
    BY <1>6, <1>8 DEF ScanDone, AllBusy, EndScan, Goto
  <2>2. \A u \in Threads : ~Passing(u)'
    BY <1>1, <1>2, <1>3, <2>1 DEF OnePermit, Passing, Signaled, Searching, Inside
  <2> QED BY <1>1, <1>4, <1>5, <2>1, <2>2 DEF OnePermit, Passing, Searching
<1> QED
  BY <1>7, <1>8 DEF ScanOn

\* notify(): the permit goes from the thread that looks to the waiter it finds.
LEMMA NotifyStep ==
  ASSUME Binary, PermitInv, NEW t \in Threads, ReleaseNotify(t)
  PROVE  OnlySignals' /\ OnePermit'
<1> USE DEF PermitInv, SemaphoreInv, DropInv, WaitTypeOK, locals, monitors, semaphore
<1>1. PICK w \in Threads :
      /\ pc[t] = "r_scan" /\ w = waiters[cursor] /\ w \in ToSet(waiters) /\ mlock[w] = None
      /\ waiters' = RemoveAt(waiters, cursor) /\ cursor \in 1 .. Len(waiters)
      /\ pending' = [pending EXCEPT ![w] = AfterNotify(@, ANYTHING)]
      /\ UNCHANGED <<state, kind, count>>
      /\ Goto(t, "idle")
  <2>1. waiters[cursor] \in Threads /\ waiters[cursor] \in ToSet(waiters)
    BY DEF ReleaseNotify, ScanNotify, Scanning, ToSet
  <2>2. /\ pc[t] = "r_scan" /\ mlock[waiters[cursor]] = None
        /\ waiters' = RemoveAt(waiters, cursor) /\ cursor \in 1 .. Len(waiters)
        /\ pending' = [pending EXCEPT ![waiters[cursor]] = AfterNotify(@, ANYTHING)]
        /\ UNCHANGED <<state, kind, count>>
        /\ Goto(t, "idle")
    BY DEF ReleaseNotify, ScanNotify, Scanning, EndScan
  <2> QED BY <2>1, <2>2, Zenon
<1>2. ToSet(waiters') = ToSet(waiters) \ {w}
  BY <1>1, RemoveAtList DEF UnlistedWakes, Distinct
<1>3. flock = t
  BY <1>1 DEF LocksHeld
<1>4. pc[w] \in Inside /\ ~Signaled(w) /\ w # t
  BY <1>1 DEF UnlistedWakes, OnlySignals, Inside
<1>5. pc[w] = "w_sleep" /\ pending[w] = {}
  <2>1. None \notin Threads
    BY DEF Binary, WaitingAssumption
  <2>2. pc[w] # "w_monitor"
    BY <1>1, <1>3, <1>4 DEF LocksHeld
  <2>3. pc[w] \notin {"w_wait", "w_relock"}
    BY <1>1, <2>1 DEF MonitorsHeld
  <2>4. pc[w] # "w_woken" /\ pending[w] = {}
    BY <1>1, <1>4 DEF Signaled, OnlySignals
  <2> QED BY <1>4, <2>2, <2>3, <2>4 DEF Inside
<1>6. pending'[w] = {SIGNALED} /\ \A u \in Threads \ {w} : pending'[u] = pending[u]
  BY <1>1, <1>5, OnlySignalStatus
<1>7. pc'[t] = "idle" /\ \A u \in Threads \ {t} : pc'[u] = pc[u]
  BY <1>1 DEF Goto
<1>0. OnlySignals /\ OnePermit
  OBVIOUS
<1> HIDE DEF PermitInv, SemaphoreInv, DropInv, WaitTypeOK
<1>8. Signaled(w)' /\ \A u \in Threads \ {w} : Signaled(u)' <=> Signaled(u)
  BY <1>1, <1>4, <1>5, <1>6, <1>7 DEF Signaled, Inside
<1>9. OnlySignals'
  BY <1>0, <1>1, <1>2, <1>4, <1>5, <1>6, <1>7, <1>8 DEF OnlySignals, Inside
<1>10. OnePermit'
  <2>1. Waiters' = Waiters
    BY <1>1, <1>7 DEF Waiters, Inside
  <2>2. Passing(t) /\ \A u \in Threads : Passing(u)' => u = w
    BY <1>0, <1>1, <1>7, <1>8
    DEF OnePermit, Passing, Searching, Signaled, Inside
  <2>3. Passing(w)' /\ count = 1 /\ count' = 1
    BY <1>0, <1>1, <1>8, <2>2 DEF OnePermit, Passing
  <2>4. \A u \in Threads : pc'[u] = "r_backoff" => Waiters' # {}
    BY <1>0, <1>1, <1>7, <2>1 DEF OnePermit
  <2> QED BY <1>1, <2>2, <2>3, <2>4 DEF OnePermit
<1> QED
  BY <1>9, <1>10

\* The waiter that has been signaled takes the permit and leaves.
LEMMA LeavePermit ==
  ASSUME Binary, PermitInv, NEW t \in Threads, AcquireLeave(t)
  PROVE  OnlySignals' /\ OnePermit'
<1> USE DEF PermitInv, SemaphoreInv, DropInv, WaitTypeOK
<1>1. /\ pc[t] = "w_relock" /\ waiters' = Erase(waiters, t)
      /\ UNCHANGED pending
      /\ Forget(t) /\ state[t] = SIGNALED /\ count' = count - 1
  BY DEF AcquireLeave, Leave, OnlySignals
<1>2. t \notin ToSet(waiters) /\ Passing(t)
  BY <1>1 DEF OnlySignals, Passing, Signaled, Inside
<1>3. UNCHANGED waiters
  BY <1>1, <1>2, EraseOther
<1>4. /\ pc'[t] = "idle" /\ state'[t] = INVALID /\ kind'[t] = "now"
      /\ \A u \in Threads \ {t} :
           pc'[u] = pc[u] /\ state'[u] = state[u] /\ kind'[u] = kind[u]
  BY <1>1 DEF Forget, Goto
<1>5. OnlySignals /\ OnePermit
  OBVIOUS
<1> HIDE DEF PermitInv, SemaphoreInv, DropInv, WaitTypeOK
<1>6. \A u \in Threads \ {t} : Signaled(u)' <=> Signaled(u)
  BY <1>1, <1>4 DEF Signaled
<1>7. OnlySignals'
  BY <1>1, <1>3, <1>4, <1>5, <1>6, OnlySignalStatus DEF OnlySignals, Inside
<1>8. count' = 0 /\ \A u \in Threads : ~Passing(u)'
  BY <1>1, <1>2, <1>4, <1>5, <1>6 DEF OnePermit, Passing, Signaled, Searching, Inside
<1> QED
  BY <1>7, <1>8 DEF OnePermit, Passing, Searching

\* A thread takes the permit from the count: nobody waits, nobody looks.
LEMMA TakePermit ==
  ASSUME Binary, PermitInv, NEW t \in Threads, AcquireTake(t)
  PROVE  OnlySignals' /\ OnePermit'
<1> USE DEF PermitInv, SemaphoreInv, DropInv, WaitTypeOK
<1>1. /\ count > 0 /\ entryCount = 0 /\ count' = count - 1
      /\ pc[t] = "a_lock" /\ flock = None /\ Forget(t)
      /\ UNCHANGED <<waiters, pending>>
  BY DEF AcquireTake, Available, Return, monitors
<1>2. Waiters = {}
  BY <1>1, WaitersCounted DEF EntriesExact, Waiters, Binary
<1>3. \A u \in Threads : ~Passing(u)
  <2>1. None \notin Threads
    BY DEF Binary, WaitingAssumption
  <2> QED
    BY <1>1, <1>2, <2>1 DEF OnePermit, Passing, Signaled, Waiters, Searching, LocksHeld
<1>4. /\ pc'[t] = "idle" /\ state'[t] = INVALID /\ kind'[t] = "now"
      /\ \A u \in Threads \ {t} :
           pc'[u] = pc[u] /\ state'[u] = state[u] /\ kind'[u] = kind[u]
  BY <1>1 DEF Forget, Goto
<1>5. OnlySignals /\ OnePermit
  OBVIOUS
<1> HIDE DEF PermitInv, SemaphoreInv, DropInv, WaitTypeOK
<1>6. \A u \in Threads : ~Signaled(u) /\ ~Signaled(u)' /\ pc'[u] \notin Inside
  BY <1>2, <1>3, <1>4 DEF Signaled, Passing, Waiters, Inside
<1>7. OnlySignals'
  BY <1>1, <1>4, <1>5, <1>6, OnlySignalStatus DEF OnlySignals, Inside
<1>8. count' = 0 /\ \A u \in Threads : ~Passing(u)'
  BY <1>1, <1>3, <1>4, <1>5, <1>6 DEF OnePermit, Passing, Searching
<1> QED
  BY <1>7, <1>8 DEF OnePermit, Passing, Searching

\* A thread that finds no permit for it enters the list, without a signal.
LEMMA EnlistPermit ==
  ASSUME Binary, PermitInv, NEW t \in Threads, AcquireEnlist(t)
  PROVE  OnlySignals' /\ OnePermit'
<1> USE DEF PermitInv, SemaphoreInv, DropInv, WaitTypeOK
<1>1. /\ pc[t] = "a_lock" /\ kind[t] # "timed" /\ waiters' = Listing(t)
      /\ UNCHANGED <<pending, state, kind, count>>
      /\ count = 0 \/ entryCount # 0
  BY DEF AcquireEnlist, Enlist, Available, OnlySignals, OnePermit, monitors, locals
<1>2. ToSet(waiters') = ToSet(waiters) \cup {t}
  BY <1>1, ListingList DEF Binary
<1>3. pc'[t] = "w_monitor" /\ \A u \in Threads \ {t} : pc'[u] = pc[u]
  BY DEF AcquireEnlist, Enlist, Goto
<1>4. count = 1 => Waiters # {}
  BY <1>1, WaitersCounted DEF EntriesExact, Waiters, Binary
<1>5. OnlySignals /\ OnePermit
  OBVIOUS
<1> HIDE DEF PermitInv, SemaphoreInv, DropInv, WaitTypeOK
<1>6. pending[t] = {} /\ state[t] # SIGNALED
  BY <1>1, <1>5 DEF OnlySignals
<1>7. \A u \in Threads : Signaled(u)' <=> Signaled(u)
  BY <1>1, <1>3, <1>6 DEF Signaled, Inside
<1>8. OnlySignals'
  BY <1>1, <1>2, <1>3, <1>5, <1>6, <1>7 DEF OnlySignals, Signaled
<1>9. \A u \in Threads : Passing(u)' <=> Passing(u)
  BY <1>1, <1>3, <1>7 DEF Passing, Searching
<1>10. t \in Waiters'
  BY <1>3 DEF Waiters, Inside
<1> QED
  BY <1>1, <1>4, <1>5, <1>8, <1>9, <1>10 DEF OnePermit

\* release() makes the permit, and starts looking with it.
LEMMA EnterPermit ==
  ASSUME Binary, PermitInv, NEW t \in Threads, ReleaseEnter(t)
  PROVE  OnlySignals' /\ OnePermit'
<1> USE DEF PermitInv, SemaphoreInv, DropInv, WaitTypeOK
<1>1. /\ count = 0 /\ count' = 1 /\ pc[t] = "r_lock"
      /\ UNCHANGED <<waiters, pending, state, kind>>
  BY DEF ReleaseEnter, Full, StartScan, monitors, locals, OnePermit, Binary
<1>2. pc'[t] = "r_scan" /\ \A u \in Threads \ {t} : pc'[u] = pc[u]
  BY DEF ReleaseEnter, StartScan, Goto
<1>3. OnlySignals /\ OnePermit
  OBVIOUS
<1> HIDE DEF PermitInv, SemaphoreInv, DropInv, WaitTypeOK
<1>4. \A u \in Threads : Signaled(u)' <=> Signaled(u)
  BY <1>1, <1>2 DEF Signaled, Inside
<1>5. OnlySignals'
  BY <1>1, <1>2, <1>3, <1>4 DEF OnlySignals, Inside
<1>6. \A u \in Threads : Passing(u)' <=> u = t
  BY <1>1, <1>2, <1>3, <1>4 DEF OnePermit, Passing, Searching
<1>7. Waiters' = Waiters
  BY <1>1, <1>2 DEF Waiters, Inside
<1> QED
  BY <1>1, <1>2, <1>3, <1>5, <1>6, <1>7 DEF OnePermit

\* Nobody outside has an effect: there are no interruptions.
LEMMA OutsidersPermit ==
  ASSUME Binary, PermitInv, NEW t \in Threads, Outsiders(t), UNCHANGED semaphore
  PROVE  OnlySignals' /\ OnePermit'
<1> USE DEF PermitInv, SemaphoreInv, DropInv, WaitTypeOK
<1>1. UNCHANGED <<waiters, state, kind, pc, count>>
  BY DEF Outsiders, Interrupt, Interrupted, Observe, Observed, locals, semaphore
<1>2. UNCHANGED pending
  <2>1. CASE Interrupt(t)
    BY <2>1 DEF Interrupt, Binary
  <2>2. CASE Interrupted(t)
    <3>1. pending[t] = {}
      BY <2>2 DEF Interrupted, OnlySignals
    <3> QED BY <2>2, <3>1, OnlySignalStatus DEF Interrupted
  <2> QED
    BY <2>1, <2>2 DEF Outsiders, Observe, Observed
<1> QED
  BY <1>1, <1>2 DEF OnlySignals, OnePermit, Passing, Signaled, Waiters

LEMMA PermitNext == ASSUME Binary, PermitInv, [Next]_vars PROVE PermitInv'
<1> DEFINE Goal == OnlySignals' /\ OnePermit'
<1>0. SemaphoreInv'
  BY SemaphoreNext DEF Binary, PermitInv
<1>1. CASE UNCHANGED vars
  <2>1. Goal
    BY <1>1 DEF vars, semaphore, waitVars, locals, monitors, PermitInv, OnlySignals,
                OnePermit, Passing, Signaled, Waiters
  <2> QED BY <1>0, <2>1 DEF PermitInv
<1>2. ASSUME NEW t \in Threads, NEW k \in Kinds, AcquireCall(t, k) PROVE Goal
  <2>1. /\ pc[t] = "idle" /\ Goto(t, "a_lock") /\ UNCHANGED <<waiters, pending, count, state>>
        /\ kind' = [kind EXCEPT ![t] = k] /\ k # "timed"
    BY <1>2 DEF AcquireCall, CallToWait, monitors, semaphore, Kinds, Binary
  <2>2. kind'[t] # "timed" /\ \A u \in Threads \ {t} : kind'[u] = kind[u]
    BY <2>1 DEF PermitInv, SemaphoreInv, DropInv, WaitTypeOK
  <2> QED BY <2>1, <2>2, OutsideStep DEF Outside
<1>3. ASSUME NEW t \in Threads, AcquireGiveUp(t) \/ ReleaseInvalid(t) PROVE Goal
  <2>1. /\ pc[t] \in Outside /\ Goto(t, "idle") /\ Forget(t)
        /\ UNCHANGED <<waiters, pending, count>>
    BY <1>3 DEF AcquireGiveUp, ReleaseInvalid, Return, Forget, monitors, semaphore, Outside
  <2> QED BY <2>1, OutsideStep
<1>4. ASSUME NEW t \in Threads, ReleaseCall(t) PROVE Goal
  <2>1. /\ pc[t] = "idle" /\ Goto(t, "r_lock") /\ kind[t] # "timed"
        /\ UNCHANGED <<waiters, pending, count, state, kind>>
    BY <1>4 DEF ReleaseCall, Call, monitors, locals, semaphore, PermitInv, OnlySignals
  <2> QED BY <2>1, OutsideStep DEF Outside
<1>5. ASSUME NEW t \in Threads, ReleaseRefused(t) PROVE Goal
  <2>1. waiters[cursor] \in Threads
    BY <1>5 DEF ReleaseRefused, Scanning, PermitInv, SemaphoreInv, DropInv, WaitTypeOK
  <2>2. pending[waiters[cursor]] \subseteq {SIGNALED}
    BY <2>1 DEF PermitInv, OnlySignals
  <2>3. ~Pending(pending[waiters[cursor]], ANYTHING, {INTERRUPTED})
    BY <2>2 DEF Pending, SIGNALED, INTERRUPTED
  <2> QED BY <1>5, <2>3 DEF ReleaseRefused, Notifiable
<1>6. ASSUME NEW t \in Threads, Wait(t) /\ UNCHANGED semaphore PROVE Goal
  BY <1>6, WaitStep
<1>7. ASSUME NEW t \in Threads, (ScanOn(t) \/ Retry(t)) /\ UNCHANGED semaphore PROVE Goal
  BY <1>7, ScanStep
<1>8. ASSUME NEW t \in Threads, Outsiders(t) /\ UNCHANGED semaphore PROVE Goal
  BY <1>8, OutsidersPermit
<1>9. ASSUME NEW t \in Threads,
             AcquireTake(t) \/ AcquireEnlist(t) \/ AcquireLeave(t)
      PROVE  Goal
  BY <1>9, TakePermit, EnlistPermit, LeavePermit
<1>10. ASSUME NEW t \in Threads, ReleaseEnter(t) \/ ReleaseNotify(t) PROVE Goal
  BY <1>10, EnterPermit, NotifyStep
<1> HIDE DEF Goal
<1>11. ASSUME Next PROVE Goal
  BY <1>2, <1>3, <1>4, <1>5, <1>6, <1>7, <1>8, <1>9, <1>10, <1>11
  DEF Next, LockAcquire, LockRelease
<1> QED
  BY <1>0, <1>1, <1>11 DEF PermitInv, Goal

LEMMA PermitInvariant == ASSUME Binary PROVE Spec => []PermitInv
<1>1. Init => PermitInv
  BY PermitInit
<1>2. PermitInv /\ [Next]_vars => PermitInv'
  BY PermitNext
<1> QED
  BY <1>1, <1>2, PTL DEF Spec

\* Who has been notified finds the permit it was notified of: the count stays up
\* for it, whoever comes and goes until it has got _lock back.
THEOREM PermitKept == ASSUME Binary PROVE Spec => []PermitsCovered
<1>1. PermitInv => PermitsCovered
  <2> SUFFICES ASSUME PermitInv PROVE PermitsCovered
    OBVIOUS
  <2> DEFINE S == {t \in Threads : Signaled(t)}
  <2>1. OnePermit
    BY DEF PermitInv
  <2>2. CASE S = {}
    BY <2>1, <2>2, FS_EmptySet DEF PermitsCovered, OnePermit
  <2>3. ASSUME NEW t \in S PROVE PermitsCovered
    <3>1. S = {t} /\ count = 1
      BY <2>1, <2>3 DEF OnePermit, Passing
    <3>2. Cardinality({t}) = 1
      BY FS_Singleton
    <3> QED BY <3>1, <3>2 DEF PermitsCovered
  <2> QED BY <2>2, <2>3
<1> QED
  BY PermitInvariant, <1>1, PTL

\* Nobody sleeps on while there is a permit and nothing else goes on.
THEOREM SleepersWithoutPermit ==
  ASSUME Binary PROVE Spec => []SleepsOnlyWithoutPermit
<1>1. PermitInv => SleepsOnlyWithoutPermit
  BY DEF PermitInv, OnePermit, Passing, SleepsOnlyWithoutPermit, Waiters, Searching, Inside
<1> QED
  BY PermitInvariant, <1>1, PTL

=============================================================================
