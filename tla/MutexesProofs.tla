--------------------------- MODULE MutexesProofs ---------------------------
(***************************************************************************)
(* The two mutexes keep their types, their list of waiters and their       *)
(* internal locks in every environment: any number of threads and          *)
(* observers, any order of the list, any depth, with interruptions and     *)
(* timeouts or without.  As long as no client is interrupted and none      *)
(* waits with a timeout each is exclusive, and no notification is lost or  *)
(* left over.                                                              *)
(*                                                                         *)
(* First MutexImpl, then RecursiveMutexImpl, then what follows for both.   *)
(***************************************************************************)
EXTENDS Mutexes, WaitingProofs

Outside == {"a_lock", "r_lock"}

MutexInv ==
  /\ WaitInv(Outside)
  /\ owner \in Threads \cup {None}
  /\ has \subseteq Threads

LEMMA OutsideApart == Apart(Outside)
  BY DEF Apart, Outside, Inside, Searching

LEMMA MutexInit == WaitingAssumption /\ Init => MutexInv
  BY WaitInitially DEF Init, MutexInv

\* The mutex sees only its own steps: every other is one of module Waiting.
LEMMA MutexNext ==
  ASSUME WaitingAssumption, MutexInv, [Next]_vars
  PROVE  MutexInv'
<1> USE DEF MutexInv
<1> DEFINE Owners == owner' \in Threads \cup {None} /\ has' \subseteq Threads
<1>1. CASE UNCHANGED vars
  BY <1>1, WaitStutters DEF vars, mutex
\* A quiet step that leaves owner and has what they have to be.
<1>2. ASSUME NEW t \in Threads, Quiet(t, Outside), Owners PROVE MutexInv'
  <2>1. WaitInv(Outside)'
    BY <1>2, OutsideApart, QuietStep
  <2> QED BY <1>2, <2>1
<1>3. UNCHANGED mutex => Owners
  BY DEF mutex
<1>4. "a_lock" \in Outside /\ "r_lock" \in Outside
  BY DEF Outside
<1>5. ASSUME NEW t \in Threads, NEW k \in Kinds, AcquireCall(t, k) PROVE MutexInv'
  BY <1>2, <1>3, <1>4, <1>5 DEF AcquireCall, Quiet
<1>6. ASSUME NEW t \in Threads, LockAcquire(t) PROVE MutexInv'
  <2>1. CASE AcquireAgain(t) \/ AcquireGiveUp(t)
    BY <1>2, <1>3, <1>4, <2>1 DEF AcquireAgain, AcquireGiveUp, Quiet
  <2>2. CASE AcquireFree(t)
    <3>1. Return(t, "a_lock") /\ Owners
      BY <2>2 DEF AcquireFree
    <3> QED BY <1>2, <1>4, <3>1 DEF Quiet
  <2>3. CASE AcquireEnlist(t)
    <3>1. WaitInv(Outside)'
      BY <1>4, <2>3, OutsideApart, EnlistStep DEF AcquireEnlist, WaitingAssumption
    <3> QED BY <1>3, <2>3, <3>1 DEF AcquireEnlist
  <2> QED BY <1>6, <2>1, <2>2, <2>3 DEF LockAcquire
<1>7. ASSUME NEW t \in Threads, AcquireLeave(t) PROVE MutexInv'
  <2>1. WaitInv(Outside)'
    BY <1>7, LeaveStep DEF AcquireLeave
  <2>2. Owners
    BY <1>7 DEF AcquireLeave, mutex
  <2> QED BY <2>1, <2>2
<1>8. ASSUME NEW t \in Threads, UNCHANGED mutex,
             \/ Wait(t) \/ ScanOn(t) \/ Retry(t) \/ Outsiders(t)
             \/ ScanNotify(t, waiters)
      PROVE  MutexInv'
  BY <1>2, <1>3, <1>8 DEF Quiet
<1>9. ASSUME NEW t \in Threads, ReleaseCall(t) \/ LockRelease(t) PROVE MutexInv'
  <2>1. CASE ReleaseCall(t)
    BY <1>2, <1>3, <1>4, <2>1 DEF ReleaseCall, Quiet
  <2>2. CASE ReleaseInvalid(t)
    BY <1>2, <1>3, <1>4, <2>2 DEF ReleaseInvalid, Quiet
  <2>3. CASE ReleaseEnter(t)
    <3>1. StartScan(t, "r_lock") /\ Owners
      BY <2>3 DEF ReleaseEnter
    <3> QED BY <1>2, <1>4, <3>1 DEF Quiet
  <2> QED BY <1>9, <2>1, <2>2, <2>3 DEF LockRelease
<1> HIDE DEF MutexInv
<1> QED
  BY <1>1, <1>5, <1>6, <1>7, <1>8, <1>9 DEF Next, ReleaseNotify

-----------------------------------------------------------------------------
(* Without interruptions and timeouts: release() clears _owner and so makes *)
(* a grant; there is none while there is an owner, and one as long as       *)
(* nobody owns the mutex that somebody waits for.                           *)

OwnerInv ==
  /\ GrantInv(Outside)
  /\ \A t \in Threads : Granting(t) => owner = None
  /\ (owner = None /\ waiters # <<>>) => \E t \in Threads : Granting(t)
  /\ MutualExclusion

LEMMA OwnerInit == Calm /\ Init => OwnerInv
<1> SUFFICES ASSUME Calm, Init PROVE OwnerInv
  OBVIOUS
<1>1. GrantInv(Outside) /\ \A t \in Threads : ~Granting(t)
  BY GrantInitially DEF Init
<1> QED
  BY <1>1 DEF Init, WaitInit, OwnerInv, MutualExclusion

\* The steps that leave the mutex and the grant as they are.
LEMMA OwnerKept ==
  ASSUME Calm, OwnerInv, UNCHANGED mutex, NEW t \in Threads, Keeping(t, Outside)
  PROVE  OwnerInv'
<1>1. GrantInv(Outside)' /\ SameGrant /\ UNCHANGED waiters
  BY OutsideApart, KeepingStep DEF OwnerInv
<1> QED
  BY <1>1 DEF mutex, OwnerInv, SameGrant, MutualExclusion

LEMMA OwnerNext ==
  ASSUME Calm, MutexInv, OwnerInv, [Next]_vars
  PROVE  OwnerInv'
<1> USE DEF OwnerInv, mutex
<1>0. None \notin Threads /\ has \subseteq Threads /\ Apart(Outside)
  BY OutsideApart DEF Calm, WaitingAssumption, MutexInv
<1>1. CASE UNCHANGED vars
  BY <1>1, GrantStutters DEF vars, waitVars, SameGrant, MutualExclusion
<1>2. "a_lock" \in Outside /\ "r_lock" \in Outside
  BY DEF Outside
<1>3. ASSUME NEW t \in Threads, NEW k \in Kinds, AcquireCall(t, k) PROVE OwnerInv'
  BY <1>2, <1>3, OwnerKept DEF AcquireCall, Keeping
<1>4. ASSUME NEW t \in Threads, LockAcquire(t) PROVE OwnerInv'
  <2>1. CASE AcquireAgain(t) \/ AcquireGiveUp(t)
    BY <1>2, <2>1, OwnerKept DEF AcquireAgain, AcquireGiveUp, Keeping
  <2>2. CASE AcquireFree(t)
    <3>1. /\ owner = None /\ waiters = <<>> /\ flock = None /\ Keeping(t, Outside)
          /\ owner' = t /\ has' = has \cup {t}
      BY <1>2, <2>2 DEF AcquireFree, Free, Return, Keeping
    <3>2. GrantInv(Outside)' /\ SameGrant
      BY <1>0, <3>1, KeepingStep
    <3>3. \A u \in Threads : ~Granting(u)'
      BY <3>1, <3>2, EmptyNoGrant DEF SameGrant
    <3>4. has = {}
      BY <1>0, <3>1 DEF MutualExclusion
    <3> QED BY <1>0, <3>1, <3>2, <3>3, <3>4 DEF MutualExclusion
  <2>3. CASE AcquireEnlist(t)
    <3>1. ~Free /\ UNCHANGED mutex /\ Enlist(t, "a_lock", Insert(Rank, waiters, t))
      BY <2>3 DEF AcquireEnlist
    <3>2. GrantInv(Outside)' /\ SameGrant
      BY <1>0, <1>2, <3>1, EnlistGrant DEF Calm, WaitingAssumption
    <3> QED BY <3>1, <3>2 DEF Free, SameGrant, MutualExclusion
  <2> QED BY <1>4, <2>1, <2>2, <2>3 DEF LockAcquire
<1>5. ASSUME NEW t \in Threads, AcquireLeave(t) PROVE OwnerInv'
  <2>1. Leave(t) /\ Forget(t)
    BY <1>5 DEF AcquireLeave
  <2>2. /\ GrantInv(Outside)' /\ state[t] = SIGNALED /\ Granting(t)
        /\ \A u \in Threads : ~Granting(u)'
    BY <2>1, LeaveGrant
  <2>3. owner' = t /\ has' = has \cup {t} /\ has = {}
    BY <1>0, <1>5, <2>2 DEF AcquireLeave, MutualExclusion
  <2> QED BY <1>0, <2>2, <2>3 DEF MutualExclusion
<1>6. ASSUME NEW t \in Threads, UNCHANGED mutex,
             \/ Wait(t) \/ ScanSkip(t) \/ Backoff(t) \/ Retry(t) \/ Outsiders(t)
      PROVE  OwnerInv'
  BY <1>6, OwnerKept DEF Keeping
<1>7. ASSUME NEW t \in Threads, ReleaseCall(t) \/ LockRelease(t) PROVE OwnerInv'
  <2>1. CASE ReleaseCall(t) \/ ReleaseInvalid(t)
    BY <1>2, <2>1, OwnerKept DEF ReleaseCall, ReleaseInvalid, Keeping
  <2>2. CASE ReleaseEnter(t)
    <3>1. owner = t /\ StartScan(t, "r_lock") /\ owner' = None /\ has' = has \ {t}
      BY <2>2 DEF ReleaseEnter
    <3>2. \A u \in Threads : ~Granting(u)
      BY <1>0, <3>1
    <3>3. GrantInv(Outside)' /\ \A u \in Threads : Granting(u)' <=> u = t
      BY <1>0, <1>2, <3>1, <3>2, StartGrant
    <3>4. has' = {}
      BY <1>0, <3>1 DEF MutualExclusion
    <3> QED BY <3>1, <3>3, <3>4 DEF MutualExclusion
  <2> QED BY <1>7, <2>1, <2>2 DEF LockRelease
<1>8. ASSUME NEW t \in Threads, ReleaseNotify(t) PROVE OwnerInv'
  <2>1. ScanNotify(t, waiters) /\ UNCHANGED mutex
    BY <1>8 DEF ReleaseNotify
  <2>2. /\ GrantInv(Outside)' /\ Granting(t)
        /\ \E w \in Threads : \A u \in Threads : Granting(u)' <=> u = w
    BY <1>0, <2>1, NotifyGrant
  <2> QED BY <2>1, <2>2 DEF MutualExclusion
<1>9. ASSUME NEW t \in Threads, ScanDone(t), UNCHANGED mutex PROVE OwnerInv'
  <2>1. /\ GrantInv(Outside)' /\ waiters' = <<>>
        /\ \A u \in Threads : ~Granting(u)'
    BY <1>0, <1>9, DoneGrant
  <2> QED BY <1>9, <2>1 DEF MutualExclusion
<1> HIDE DEF OwnerInv
<1> QED
  BY <1>1, <1>3, <1>4, <1>5, <1>6, <1>7, <1>8, <1>9 DEF Next, ScanOn

-----------------------------------------------------------------------------
(* RecursiveMutexImpl, with the same variables but for the number of entries *)
(* in place of who has the mutex.                                            *)

\* It waits as MutexImpl does.
LEMMA RecursiveStatus ==
  /\ Recursive!Flags = Flags /\ Recursive!States = States /\ Recursive!ANYTHING = ANYTHING
  /\ Recursive!SIGNALED = SIGNALED /\ Recursive!TIMEDOUT = TIMEDOUT /\ Recursive!INVALID = INVALID
  /\ \A p, m : Recursive!AfterNotify(p, m) = AfterNotify(p, m)
  /\ \A p, m : Recursive!AfterInterrupt(p, m) = AfterInterrupt(p, m)
  /\ \A p, m : Recursive!AfterNext(p, m) = AfterNext(p, m)
  /\ \A p, m : Recursive!NextState(p, m) = NextState(p, m)
  /\ \A p, m : Recursive!Notifiable(p, m) <=> Notifiable(p, m)
  /\ \A p : Recursive!AfterIsInterrupted(p) = AfterIsInterrupted(p)
  /\ \A p, m, i : Recursive!Pending(p, m, i) <=> Pending(p, m, i)
  BY DEF Recursive!AfterNotify, AfterNotify, Recursive!AfterInterrupt, AfterInterrupt,
    Recursive!AfterNext, AfterNext, Recursive!NextState, NextState,
    Recursive!AfterIsInterrupted, AfterIsInterrupted, Recursive!Pending, Pending,
    Recursive!ANYTHING, ANYTHING, Recursive!Notifiable, Notifiable,
    Recursive!Interruptible, Interruptible, Recursive!Flags, Flags, Recursive!States, States,
    Recursive!SIGNALED, SIGNALED, Recursive!INTERRUPTED, INTERRUPTED, Recursive!TIMEDOUT, TIMEDOUT,
    Recursive!CANCELED, CANCELED, Recursive!INVALID, INVALID

LEMMA RecursiveLists ==
  /\ \A q, t : Recursive!Erase(q, t) = Erase(q, t)
  /\ \A t : Recursive!Insert(Recursive!FifoRank, waiters, t) = Insert(FifoRank, waiters, t)
<1>1. \A q, t : Recursive!Erase(q, t) = Erase(q, t)
  BY DEF Recursive!Erase, Erase, Recursive!RemoveFirst, RemoveFirst, Recursive!RemoveAt, RemoveAt,
     Recursive!SelectInSeq, SelectInSeq, Recursive!Min, Min
<1>2. \A t : Recursive!Insert(Recursive!FifoRank, waiters, t) = Insert(FifoRank, waiters, t)
  BY DEF Recursive!Insert, Insert, Recursive!InsertAt, InsertAt, Recursive!Cardinality, Cardinality,
    Recursive!FifoRank, FifoRank
<1> QED BY <1>1, <1>2

LEMMA RecursiveGoto ==
  /\ \A t, l : Recursive!Goto(t, l) <=> Goto(t, l)
  /\ \A t, u : Recursive!Lock(t, u) = Lock(t, u)
  /\ \A t : Recursive!Unlock(t) = Unlock(t)
  BY DEF Recursive!Goto, Goto, Recursive!Lock, Lock, Recursive!Unlock, Unlock

LEMMA RecursiveForget == \A t : Recursive!Forget(t) <=> Forget(t)
  BY RecursiveGoto, RecursiveStatus DEF Recursive!Forget, Forget

LEMMA RecursiveCalls ==
  /\ \A t, k, l : Recursive!CallToWait(t, k, l) <=> CallToWait(t, k, l)
  /\ \A t, l : Recursive!Call(t, l) <=> Call(t, l)
  /\ \A t, l : Recursive!Return(t, l) <=> Return(t, l)
  BY RecursiveGoto, RecursiveForget
  DEF Recursive!CallToWait, CallToWait, Recursive!Call, Call, Recursive!Return, Return,
    Recursive!monitors, monitors, Recursive!locals, locals

LEMMA RecursiveEnlist == \A t, l, q : Recursive!Enlist(t, l, q) <=> Enlist(t, l, q)
  BY RecursiveGoto
  DEF Recursive!Enlist, Enlist, Recursive!monitors, monitors, Recursive!locals, locals

LEMMA RecursiveLeave == \A t : Recursive!Leave(t) <=> Leave(t)
  BY RecursiveGoto, RecursiveLists DEF Recursive!Leave, Leave

LEMMA RecursiveScan ==
  /\ \A t, l : Recursive!StartScan(t, l) <=> StartScan(t, l)
  /\ \A t : Recursive!EndScan(t) <=> EndScan(t)
  BY RecursiveGoto
  DEF Recursive!StartScan, StartScan, Recursive!EndScan, EndScan,
    Recursive!monitors, monitors, Recursive!locals, locals

LEMMA RecursiveWait == \A t : Recursive!Wait(t) <=> Wait(t)
<1>1. /\ \A t : Recursive!EnterMonitor(t) <=> EnterMonitor(t)
      /\ \A t : Recursive!WaitReturn(t) <=> WaitReturn(t)
  BY RecursiveGoto
  DEF Recursive!EnterMonitor, EnterMonitor, Recursive!WaitReturn, WaitReturn,
    Recursive!locals, locals
<1>2. /\ \A t : Recursive!WaitSkip(t) <=> WaitSkip(t)
      /\ \A t : Recursive!WaitSleep(t) <=> WaitSleep(t)
  BY RecursiveGoto, RecursiveStatus
  DEF Recursive!WaitSkip, WaitSkip, Recursive!WaitSleep, WaitSleep, Recursive!locals, locals
<1>3. \A t, p : Recursive!EndSleep(t, p) <=> EndSleep(t, p)
  BY RecursiveGoto, RecursiveStatus DEF Recursive!EndSleep, EndSleep
<1>4. /\ \A t : Recursive!Wake(t) <=> Wake(t)
      /\ \A t : Recursive!Expire(t) <=> Expire(t)
  BY <1>3, RecursiveStatus DEF Recursive!Wake, Wake, Recursive!Expire, Expire
<1> QED
  BY <1>1, <1>2, <1>4 DEF Recursive!Wait, Wait, Recursive!WaitForLock, WaitForLock,
     Recursive!WaitRun, WaitRun

LEMMA RecursiveSearch ==
  /\ \A t, q : Recursive!ScanNotify(t, q) <=> ScanNotify(t, q)
  /\ \A t : Recursive!ScanOn(t) <=> ScanOn(t)
  /\ \A t : Recursive!Retry(t) <=> Retry(t)
<1>1. \A t : Recursive!Scanning(t) <=> Scanning(t)
  BY DEF Recursive!Scanning, Scanning
<1>2. \A t, q : Recursive!ScanNotify(t, q) <=> ScanNotify(t, q)
  BY <1>1, RecursiveScan, RecursiveStatus
  DEF Recursive!ScanNotify, ScanNotify, Recursive!locals, locals
<1>3. \A t : Recursive!ScanSkip(t) <=> ScanSkip(t)
  BY <1>1 DEF Recursive!ScanSkip, ScanSkip, Recursive!monitors, monitors,
     Recursive!locals, locals
<1>4. \A t : Recursive!ScanDone(t) \/ Recursive!Backoff(t) <=> ScanDone(t) \/ Backoff(t)
  BY RecursiveGoto, RecursiveScan
  DEF Recursive!ScanDone, ScanDone, Recursive!Backoff, Backoff, Recursive!Scanned, Scanned,
    Recursive!AllBusy, AllBusy, Recursive!monitors, monitors, Recursive!locals, locals
<1>5. \A t : Recursive!Retry(t) <=> Retry(t)
  BY RecursiveScan DEF Recursive!Retry, Retry
<1> QED
  BY <1>2, <1>3, <1>4, <1>5 DEF Recursive!ScanOn, ScanOn

LEMMA RecursiveOutsiders == \A t : Recursive!Outsiders(t) <=> Outsiders(t)
<1>1. /\ \A t : Recursive!Interrupt(t) <=> Interrupt(t)
      /\ \A t : Recursive!Interrupted(t) <=> Interrupted(t)
  BY RecursiveStatus
  DEF Recursive!Interrupt, Interrupt, Recursive!Interrupted, Interrupted, Recursive!locals, locals
<1>2. /\ \A x, t : Recursive!Observe(x, t) <=> Observe(x, t)
      /\ \A x, t : Recursive!Observed(x, t) <=> Observed(x, t)
  BY RecursiveGoto
  DEF Recursive!Observe, Observe, Recursive!Observed, Observed, Recursive!locals, locals
<1> QED
  BY <1>1, <1>2 DEF Recursive!Outsiders, Outsiders

LEMMA RecursiveStarts == Recursive!WaitInit <=> WaitInit
  BY RecursiveStatus DEF Recursive!WaitInit, WaitInit

LEMMA RecursiveVars == Recursive!waitVars = waitVars /\ Recursive!Kinds = Kinds
  BY DEF Recursive!waitVars, waitVars, Recursive!Kinds, Kinds, Recursive!monitors, monitors,
     Recursive!locals, locals

LEMMA FifoOrder == FifoRank \in [Threads -> Nat]
  BY DEF FifoRank

RecursiveInv ==
  /\ WaitInv(Outside)
  /\ owner \in Threads \cup {None}
  /\ count \in Nat /\ entries \in [Threads -> Int]
  /\ owner # None => count > 0

LEMMA OutsideLocks == "a_lock" \in Outside /\ "r_lock" \in Outside
  BY DEF Outside

LEMMA RecursiveInit == WaitingAssumption /\ Recursive!Init => RecursiveInv
  BY WaitInitially, RecursiveStarts DEF Recursive!Init, RecursiveInv

\* Whatever it does to the mutex, a step is one of module Waiting.
LEMMA RecursiveNext ==
  ASSUME WaitingAssumption, RecursiveInv, [Recursive!Next]_(Recursive!vars)
  PROVE  RecursiveInv'
<1> DEFINE Counted == /\ owner' \in Threads \cup {None}
                      /\ count' \in Nat /\ entries' \in [Threads -> Int]
                      /\ owner' # None => count' > 0
<1> USE DEF RecursiveInv
<1>1. CASE UNCHANGED Recursive!vars
  BY <1>1, WaitStutters, RecursiveVars DEF Recursive!vars, Recursive!recursive,
     Recursive!waitVars, waitVars, Recursive!monitors, monitors, Recursive!locals, locals
<1>2. ASSUME NEW t \in Threads, Quiet(t, Outside), Counted PROVE RecursiveInv'
  <2>1. WaitInv(Outside)'
    BY <1>2, OutsideApart, QuietStep
  <2> QED BY <1>2, <2>1
<1>3. UNCHANGED Recursive!recursive => Counted
  BY DEF Recursive!recursive
<1>4. ASSUME NEW t \in Threads, Recursive!Enter(t) PROVE Counted
  <2>1. entries[t] + 1 \in Int /\ count + 1 \in Nat /\ count + 1 > 0
    OBVIOUS
  <2> QED BY <1>4, <2>1 DEF Recursive!Enter
<1>5. ASSUME NEW t \in Threads, NEW k \in Kinds, Recursive!AcquireCall(t, k)
      PROVE  RecursiveInv'
  BY <1>2, <1>3, <1>5, OutsideLocks, RecursiveCalls DEF Recursive!AcquireCall, Quiet
<1>6. ASSUME NEW t \in Threads, Recursive!LockAcquire(t) PROVE RecursiveInv'
  <2>1. CASE Recursive!AcquireEnter(t)
    BY <1>2, <1>4, <2>1, OutsideLocks, RecursiveCalls DEF Recursive!AcquireEnter, Quiet
  <2>2. CASE Recursive!AcquireGiveUp(t)
    BY <1>2, <1>3, <2>2, OutsideLocks, RecursiveCalls DEF Recursive!AcquireGiveUp, Quiet
  <2>3. CASE Recursive!AcquireEnlist(t)
    <3>1. Enlist(t, "a_lock", Insert(FifoRank, waiters, t)) /\ Counted
      BY <1>3, <2>3, RecursiveEnlist, RecursiveLists DEF Recursive!AcquireEnlist
    <3>2. WaitInv(Outside)'
      BY <3>1, OutsideLocks, OutsideApart, FifoOrder, EnlistStep
    <3> QED BY <3>1, <3>2
  <2> QED BY <1>6, <2>1, <2>2, <2>3 DEF Recursive!LockAcquire
<1>7. ASSUME NEW t \in Threads, Recursive!AcquireLeave(t) PROVE RecursiveInv'
  <2>1. WaitInv(Outside)'
    BY <1>7, LeaveStep, RecursiveLeave, RecursiveForget DEF Recursive!AcquireLeave
  <2>2. Counted
    BY <1>3, <1>4, <1>7 DEF Recursive!AcquireLeave
  <2> QED BY <2>1, <2>2
<1>8. ASSUME NEW t \in Threads, UNCHANGED Recursive!recursive,
             \/ Wait(t) \/ ScanOn(t) \/ Retry(t) \/ Outsiders(t)
             \/ ScanNotify(t, waiters)
      PROVE  RecursiveInv'
  BY <1>2, <1>3, <1>8 DEF Quiet
<1>9. ASSUME NEW t \in Threads, Recursive!ReleaseCall(t) \/ Recursive!LockRelease(t)
      PROVE  RecursiveInv'
  <2>1. CASE Recursive!ReleaseCall(t)
    BY <1>2, <1>3, <2>1, OutsideLocks, RecursiveCalls DEF Recursive!ReleaseCall, Quiet
  <2>2. CASE Recursive!ReleaseInvalid(t)
    BY <1>2, <1>3, <2>2, OutsideLocks, RecursiveCalls DEF Recursive!ReleaseInvalid, Quiet
  <2>3. CASE Recursive!ReleaseInner(t) \/ Recursive!ReleaseLast(t)
    <3>1. owner = t /\ owner # None /\ Recursive!Depart(t)
      BY <2>3 DEF Recursive!ReleaseInner, Recursive!ReleaseLast, WaitingAssumption
    <3>2. count > 0 /\ entries[t] - 1 \in Int
      BY <3>1
    <3>3. \/ UNCHANGED owner /\ count' # 0
          \/ owner' = None
      BY <2>3, <3>1 DEF Recursive!ReleaseInner, Recursive!ReleaseLast, Recursive!Depart,
         Recursive!Outermost
    <3>4. Counted
      BY <3>1, <3>2, <3>3 DEF Recursive!Depart
    <3>5. Quiet(t, Outside)
      BY <2>3, OutsideLocks, RecursiveCalls, RecursiveScan
      DEF Recursive!ReleaseInner, Recursive!ReleaseLast, Quiet
    <3> QED BY <1>2, <3>4, <3>5
  <2> QED BY <1>9, <2>1, <2>2, <2>3 DEF Recursive!LockRelease
<1> HIDE DEF RecursiveInv
<1> QED
  BY <1>1, <1>5, <1>6, <1>7, <1>8, <1>9, RecursiveVars, RecursiveWait, RecursiveSearch,
     RecursiveOutsiders DEF Recursive!Next, Recursive!ReleaseNotify

-----------------------------------------------------------------------------
(* Without interruptions and timeouts. *)

\* What the variables of the mutex are to each other and to the grant.
EntryInv ==
  /\ GrantInv(Outside)
  /\ owner \in Threads \cup {None}
  /\ count \in Nat /\ entries \in [Threads -> Nat]
  /\ \A t \in Threads : t # owner => entries[t] = 0
  /\ IF owner = None THEN count = 0 ELSE count > 0 /\ entries[owner] = count
  /\ \A t \in Threads : Granting(t) => owner = None
  /\ (owner = None /\ waiters # <<>>) => \E t \in Threads : Granting(t)

LEMMA EntryInit == Calm /\ Recursive!Init => EntryInv
<1> SUFFICES ASSUME Calm, Recursive!Init PROVE EntryInv
  OBVIOUS
<1>1. GrantInv(Outside) /\ \A t \in Threads : ~Granting(t)
  BY GrantInitially, RecursiveStarts DEF Recursive!Init
<1> QED
  BY <1>1, RecursiveStarts DEF Recursive!Init, WaitInit, EntryInv

LEMMA EntryKept ==
  ASSUME Calm, EntryInv, UNCHANGED Recursive!recursive,
         NEW t \in Threads, Keeping(t, Outside)
  PROVE  EntryInv'
<1>1. GrantInv(Outside)' /\ SameGrant /\ UNCHANGED waiters
  BY OutsideApart, KeepingStep DEF EntryInv
<1> QED
  BY <1>1 DEF Recursive!recursive, EntryInv, SameGrant

LEMMA EntryNext ==
  ASSUME Calm, EntryInv, [Recursive!Next]_(Recursive!vars)
  PROVE  EntryInv'
<1> USE DEF EntryInv, Recursive!recursive
<1>0. None \notin Threads /\ Apart(Outside)
  BY OutsideApart DEF Calm, WaitingAssumption
<1>1. CASE UNCHANGED Recursive!vars
  BY <1>1, GrantStutters DEF Recursive!vars, Recursive!waitVars, waitVars, SameGrant,
     Recursive!monitors, monitors, Recursive!locals, locals
\* The first entry of a thread, which takes the grant if there is one.
<1>2. ASSUME NEW t \in Threads, Recursive!Enter(t), owner = None,
             GrantInv(Outside)', \A u \in Threads : ~Granting(u)'
      PROVE  EntryInv'
  BY <1>0, <1>2 DEF Recursive!Enter
<1>3. ASSUME NEW t \in Threads, NEW k \in Kinds, Recursive!AcquireCall(t, k) PROVE EntryInv'
  BY <1>3, EntryKept, OutsideLocks, RecursiveCalls DEF Recursive!AcquireCall, Keeping
<1>4. ASSUME NEW t \in Threads, Recursive!LockAcquire(t) PROVE EntryInv'
  <2>1. CASE Recursive!AcquireEnter(t)
    <3>1. /\ Keeping(t, Outside) /\ Recursive!Enter(t) /\ flock = None
          /\ owner = t \/ (owner = None /\ waiters = <<>>)
      BY <2>1, OutsideLocks, RecursiveCalls DEF Recursive!AcquireEnter, Recursive!Free, Return, Keeping
    <3>2. GrantInv(Outside)' /\ SameGrant
      BY <1>0, <3>1, KeepingStep
    <3>3. CASE owner = t
      <4>1. \A u \in Threads : ~Granting(u)'
        BY <1>0, <3>2, <3>3 DEF SameGrant
      <4> QED BY <1>0, <3>1, <3>2, <3>3, <4>1 DEF Recursive!Enter
    <3>4. CASE owner = None /\ waiters = <<>>
      <4>1. \A u \in Threads : ~Granting(u)'
        BY <3>1, <3>2, <3>4, EmptyNoGrant DEF SameGrant
      <4> QED BY <1>2, <3>1, <3>2, <3>4, <4>1
    <3> QED BY <3>1, <3>3, <3>4
  <2>2. CASE Recursive!AcquireGiveUp(t)
    BY <2>2, EntryKept, OutsideLocks, RecursiveCalls DEF Recursive!AcquireGiveUp, Keeping
  <2>3. CASE Recursive!AcquireEnlist(t)
    <3>1. ~Recursive!Free /\ UNCHANGED Recursive!recursive /\ Enlist(t, "a_lock", Insert(FifoRank, waiters, t))
      BY <2>3, RecursiveEnlist, RecursiveLists DEF Recursive!AcquireEnlist
    <3>2. GrantInv(Outside)' /\ SameGrant
      BY <1>0, <3>1, OutsideLocks, FifoOrder, EnlistGrant
    <3> QED BY <3>1, <3>2 DEF Recursive!Free, SameGrant
  <2> QED BY <1>4, <2>1, <2>2, <2>3 DEF Recursive!LockAcquire
<1>5. ASSUME NEW t \in Threads, Recursive!AcquireLeave(t) PROVE EntryInv'
  <2>1. Leave(t) /\ Forget(t)
    BY <1>5, RecursiveLeave, RecursiveForget DEF Recursive!AcquireLeave
  <2>2. /\ GrantInv(Outside)' /\ state[t] = SIGNALED /\ Granting(t)
        /\ \A u \in Threads : ~Granting(u)'
    BY <2>1, LeaveGrant
  <2>3. Recursive!Enter(t) /\ owner = None
    BY <1>5, <2>2, RecursiveStatus DEF Recursive!AcquireLeave
  <2> QED BY <1>2, <2>2, <2>3
<1>6. ASSUME NEW t \in Threads, UNCHANGED Recursive!recursive,
             \/ Wait(t) \/ ScanSkip(t) \/ Backoff(t) \/ Retry(t) \/ Outsiders(t)
      PROVE  EntryInv'
  BY <1>6, EntryKept DEF Keeping
<1>7. ASSUME NEW t \in Threads, Recursive!ReleaseCall(t) PROVE EntryInv'
  BY <1>7, EntryKept, OutsideLocks, RecursiveCalls DEF Recursive!ReleaseCall, Keeping
<1>8. ASSUME NEW t \in Threads, Recursive!LockRelease(t) PROVE EntryInv'
  <2>1. CASE Recursive!ReleaseInvalid(t)
    BY <2>1, EntryKept, OutsideLocks, RecursiveCalls DEF Recursive!ReleaseInvalid, Keeping
  <2>2. CASE Recursive!ReleaseInner(t)
    <3>1. /\ owner = t /\ Keeping(t, Outside) /\ Recursive!Depart(t) /\ UNCHANGED owner
          /\ count > 1
      BY <1>0, <2>2, OutsideLocks, RecursiveCalls DEF Recursive!ReleaseInner, Recursive!Outermost, Keeping
    <3>2. GrantInv(Outside)' /\ SameGrant
      BY <1>0, <3>1, KeepingStep
    <3> QED BY <1>0, <3>1, <3>2 DEF Recursive!Depart, SameGrant
  <2>3. CASE Recursive!ReleaseLast(t)
    <3>1. /\ owner = t /\ StartScan(t, "r_lock") /\ Recursive!Depart(t) /\ owner' = None
          /\ count = 1
      BY <2>3, RecursiveScan DEF Recursive!ReleaseLast, Recursive!Outermost
    <3>2. \A u \in Threads : ~Granting(u)
      BY <1>0, <3>1
    <3>3. GrantInv(Outside)' /\ \A u \in Threads : Granting(u)' <=> u = t
      BY <1>0, <3>1, <3>2, OutsideLocks, StartGrant
    <3> QED BY <1>0, <3>1, <3>3 DEF Recursive!Depart
  <2> QED BY <1>8, <2>1, <2>2, <2>3 DEF Recursive!LockRelease
<1>9. ASSUME NEW t \in Threads, Recursive!ReleaseNotify(t) PROVE EntryInv'
  <2>1. ScanNotify(t, waiters) /\ UNCHANGED Recursive!recursive
    BY <1>9, RecursiveSearch DEF Recursive!ReleaseNotify
  <2>2. /\ GrantInv(Outside)' /\ Granting(t)
        /\ \E w \in Threads : \A u \in Threads : Granting(u)' <=> u = w
    BY <1>0, <2>1, NotifyGrant
  <2> QED BY <2>1, <2>2
<1>10. ASSUME NEW t \in Threads, ScanDone(t), UNCHANGED Recursive!recursive PROVE EntryInv'
  <2>1. /\ GrantInv(Outside)' /\ waiters' = <<>>
        /\ \A u \in Threads : ~Granting(u)'
    BY <1>0, <1>10, DoneGrant
  <2> QED BY <1>10, <2>1
<1> HIDE DEF EntryInv
<1> QED
  BY <1>1, <1>3, <1>4, <1>5, <1>6, <1>7, <1>8, <1>9, <1>10, RecursiveVars, RecursiveWait, RecursiveSearch,
     RecursiveOutsiders DEF Recursive!Next, ScanOn

-----------------------------------------------------------------------------
(* Both. *)

MutexesInv ==
  /\ class \in Classes
  /\ class = "MutexImpl" =>
       MutexInv /\ count = 0 /\ entries = [t \in Threads |-> 0]
  /\ class = "RecursiveMutexImpl" => RecursiveInv /\ has = {}

LEMMA MutexesNextKinds ==
  ASSUME MutexesInv, [MutexesNext]_allVars
  PROVE  /\ class' = class
         /\ class = "MutexImpl" => [Next]_vars /\ UNCHANGED <<count, entries>>
         /\ class = "RecursiveMutexImpl" =>
              [Recursive!Next]_(Recursive!vars) /\ UNCHANGED has
<1>1. CASE UNCHANGED allVars
  BY <1>1 DEF allVars, vars, mutex, waitVars, monitors, locals, Recursive!vars,
     Recursive!recursive, Recursive!waitVars, Recursive!monitors, Recursive!locals
<1>2. CASE OfPlain(Next)
  BY <1>2 DEF OfPlain
<1>3. CASE OfRecursive(Recursive!Next)
  BY <1>3 DEF OfRecursive
<1> QED
  BY <1>1, <1>2, <1>3 DEF MutexesNext

LEMMA MutexesStart == WaitingAssumption /\ MutexesInit => MutexesInv
  BY MutexInit, RecursiveInit DEF MutexesInit, MutexesInv, Classes, Init, Recursive!Init

LEMMA MutexesStep ==
  ASSUME WaitingAssumption, MutexesInv, [MutexesNext]_allVars
  PROVE  MutexesInv'
<1>1. CASE class = "MutexImpl"
  BY <1>1, MutexesNextKinds, MutexNext DEF MutexesInv
<1>2. CASE class = "RecursiveMutexImpl"
  BY <1>2, MutexesNextKinds, RecursiveNext DEF MutexesInv
<1> QED
  BY <1>1, <1>2 DEF MutexesInv, Classes

LEMMA MutexesInvariant == ASSUME WaitingAssumption PROVE MutexesSpec => []MutexesInv
<1>1. MutexesInit => MutexesInv
  BY MutexesStart
<1>2. MutexesInv /\ [MutexesNext]_allVars => MutexesInv'
  BY MutexesStep
<1> QED
  BY <1>1, <1>2, PTL DEF MutexesSpec

\* Whichever mutex it is, its list and its locks are those of module Waiting.
LEMMA MutexesWait == MutexesInv => WaitInv(Outside)
  BY DEF MutexesInv, Classes, MutexInv, RecursiveInv

\* Every variable keeps its type: the list stays a list of threads, the owner is a thread
\* or nobody, and the count of the recursive mutex does not fall below zero, whatever ends
\* a wait.
THEOREM TypeCorrect == ASSUME WaitingAssumption PROVE MutexesSpec => []MutexesTypeOK
<1>1. MutexesInv => MutexesTypeOK
  <2> SUFFICES ASSUME MutexesInv PROVE MutexesTypeOK
    OBVIOUS
  <2>1. WaitTypeOK({"a_lock", "r_lock"}) /\ Recursive!WaitTypeOK({"a_lock", "r_lock"})
    BY MutexesWait, RecursiveStatus, RecursiveVars
    DEF WaitInv, Outside, Recursive!WaitTypeOK, WaitTypeOK, Recursive!Inside, Inside,
      Recursive!Searching, Searching
  <2>2. /\ owner \in Threads \cup {None} /\ has \subseteq Threads
        /\ count \in Nat /\ entries \in [Threads -> Int]
    BY DEF MutexesInv, Classes, MutexInv, RecursiveInv
  <2> QED
    BY <2>1, <2>2 DEF MutexesTypeOK, TypeOK, Recursive!TypeOK, MutexesInv
<1> QED
  BY MutexesInvariant, <1>1, PTL

\* The list is exactly the threads inside acquire() or tryAcquire(), each once, whatever
\* ended the wait (MutexImpl.h:172-178, RecursiveMutexImpl.cxx:112-118).
THEOREM WaitersExact == ASSUME WaitingAssumption PROVE MutexesSpec => []WaitersInside
<1>1. MutexesInv => WaitersInside
  BY MutexesWait DEF WaitInv
<1> QED
  BY MutexesInvariant, <1>1, PTL

\* _lock and the Monitors' locks are held where the code holds them, by whom it
\* has hold them.
THEOREM LocksExact == ASSUME WaitingAssumption PROVE MutexesSpec => []LocksHeld
<1>1. MutexesInv => LocksHeld
  BY MutexesWait DEF WaitInv
<1> QED
  BY MutexesInvariant, <1>1, PTL

-----------------------------------------------------------------------------
(* Both, without interruptions and timeouts. *)

CalmInv ==
  /\ class = "MutexImpl" => OwnerInv
  /\ class = "RecursiveMutexImpl" => EntryInv

LEMMA CalmInvariant == ASSUME Calm PROVE MutexesSpec => [](MutexesInv /\ CalmInv)
<1>1. MutexesInit => CalmInv
  BY OwnerInit, EntryInit DEF MutexesInit, CalmInv
<1>2. MutexesInv /\ CalmInv /\ [MutexesNext]_allVars => CalmInv'
  BY MutexesNextKinds, OwnerNext, EntryNext DEF MutexesInv, CalmInv
<1>3. WaitingAssumption
  BY DEF Calm
<1> QED
  BY <1>1, <1>2, <1>3, MutexesInvariant, PTL DEF MutexesSpec

\* The grant of either mutex.
LEMMA CalmGrant ==
  ASSUME MutexesInv, CalmInv
  PROVE  /\ GrantInv(Outside)
         /\ \A t \in Threads : Granting(t) => owner = None /\ count = 0
         /\ (owner = None /\ waiters # <<>>) => \E t \in Threads : Granting(t)
  BY DEF MutexesInv, Classes, CalmInv, OwnerInv, EntryInv

\* A thread that was told it holds the mutex is its owner until it releases it
\* (MutexImpl.h:127, "exclusive lock"), among any number of threads.
THEOREM Exclusive == ASSUME Calm PROVE MutexesSpec => []MutualExclusion
<1>1. MutexesInv /\ CalmInv => MutualExclusion
  BY DEF MutexesInv, Classes, CalmInv, OwnerInv, MutualExclusion
<1> QED
  BY CalmInvariant, <1>1, PTL

\* Only one thread is in the recursive mutex, for as many release()s as acquire()s.
THEOREM OnlyOwner == ASSUME Calm PROVE MutexesSpec => []OnlyOwnerEntered
<1>1. MutexesInv /\ CalmInv => OnlyOwnerEntered
  <2> SUFFICES ASSUME MutexesInv, CalmInv PROVE OnlyOwnerEntered
    OBVIOUS
  <2>1. CASE class = "MutexImpl"
    BY <2>1 DEF MutexesInv, MutexInv, OnlyOwnerEntered
  <2>2. CASE class = "RecursiveMutexImpl"
    BY <2>2 DEF CalmInv, EntryInv, OnlyOwnerEntered
  <2> QED BY <2>1, <2>2 DEF MutexesInv, Classes
<1> QED
  BY CalmInvariant, <1>1, PTL

\* The assertions of acquire() and tryAcquire(): a thread that comes back with a signal
\* finds the mutex free, and the count of a recursive one zero.
THEOREM ComesBackFree == ASSUME Calm PROVE MutexesSpec => []AssertFree
<1>1. MutexesInv /\ CalmInv => AssertFree
  BY CalmGrant DEF Granting, AssertFree
<1> QED
  BY CalmInvariant, <1>1, PTL

\* While threads wait for a mutex that nobody owns, one of them has been
\* notified or somebody still looks for one (MutexImpl.h:309-311).
THEOREM WakeupKept == ASSUME Calm PROVE MutexesSpec => []NoLostWakeup
<1>1. MutexesInv /\ CalmInv => NoLostWakeup
  <2> SUFFICES ASSUME MutexesInv, CalmInv, owner = None, waiters # <<>>
               PROVE  \E t \in Threads : Signaled(t) \/ pc[t] \in Searching
    BY DEF NoLostWakeup
  <2>1. PICK t \in Threads : Granting(t)
    BY CalmGrant
  <2>2. SignalsExact
    BY CalmGrant DEF GrantInv
  <2>3. CASE pending[t] # {}
    BY <2>2, <2>3 DEF SignalsExact, Signaled, Inside
  <2>4. CASE pc[t] \in {"w_woken", "w_relock"}
    BY <2>2, <2>4 DEF SignalsExact, Signaled, Inside
  <2> QED BY <2>1, <2>3, <2>4 DEF Granting, Searching
<1> QED
  BY CalmInvariant, <1>1, PTL

\* No thread carries a notification out of the wait it was meant for.
THEOREM SignalsConsumed == ASSUME Calm PROVE MutexesSpec => []NoStaleSignal
<1>1. MutexesInv /\ CalmInv => NoStaleSignal
  BY CalmGrant DEF GrantInv, SignalsExact, NoStaleSignal, Inside
<1> QED
  BY CalmInvariant, <1>1, PTL

=============================================================================
