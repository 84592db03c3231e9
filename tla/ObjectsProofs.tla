---------------------------- MODULE ObjectsProofs ----------------------------
(***************************************************************************)
(* The classes of module MCObjects, for any number of threads: who has a   *)
(* lock has it alone, nobody is forgotten, and a Guard's lock is held.     *)
(* Each class has an inductive invariant of its own.                       *)
(***************************************************************************)
EXTENDS MCObjects, SequenceTheorems, FiniteSetTheorems, TLAPS

LEMMA LockAssumptions ==
  /\ IsFiniteSet(Threads) /\ None \notin Threads /\ MaxDepth \in Nat
  /\ Cuts \subseteq {"timedout", "interrupted"}
BY ConditionsAssumption, ObjectsAssumption DEF Spin!LocksAssumption

-----------------------------------------------------------------------------
(* The fast locks. *)

Users == {t \in Threads : entries[t] > 0}

LockTypes(Labels) ==
  /\ at \in [Threads -> {"idle"} \cup Labels]
  /\ entries \in [Threads -> 0 .. MaxDepth]
  /\ value \in Int /\ depth \in Nat /\ barged \in BOOLEAN
  /\ holder \in Threads \cup {None} /\ owner \in Threads \cup {None}
  /\ \A t \in Threads : at[t] # "idle" => entries[t] < MaxDepth

\* t alone may be inside.
OnlyUser(t) == \A u \in Threads : entries[u] > 0 => u = t

Unowned == holder = None /\ owner = None /\ depth = 0

\* linux's word is one less for each thread that is inside or has failed.
Failed == {t \in Threads : at[t] \in {"undo", "refuse"}}

CountedDown ==
  /\ LockTypes({"spin", "undo", "refuse"})
  /\ Unowned /\ ~barged
  /\ value = 1 - Cardinality(Users) - Cardinality(Failed)
  /\ \A t \in Users : entries[t] = 1 /\ OnlyUser(t)

\* The word of the others tells whether somebody is inside.
OneBit ==
  /\ LockTypes({})
  /\ Unowned /\ ~barged
  /\ value \in {0, 1} /\ (value = 0 <=> Users = {})
  /\ \A t \in Users : entries[t] = 1 /\ OnlyUser(t)

\* Who is inside owns the lock, and it counts how often.
Owned ==
  IF owner = None THEN depth = 0 /\ Users = {}
  ELSE depth = entries[owner] /\ depth > 0 /\ OnlyUser(owner)

SystemOwned ==
  /\ LockTypes({})
  /\ value = 0 /\ holder = None /\ ~barged /\ Owned
  /\ object = "posix/FastLock" => depth <= 1

\* win32's debug build: between the Mutex and _locked, on both sides, there is nobody
\* but the owner.
FlagOwned ==
  /\ LockTypes({"locked?", "unlock"})
  /\ holder = None /\ ~barged
  /\ \A t \in Threads : at[t] # "idle" \/ entries[t] > 0 => owner = t
  /\ IF owner = None THEN depth = 0 /\ value = 0
     ELSE /\ depth = entries[owner] + (IF at[owner] = "idle" THEN 0 ELSE 1)
          /\ depth > 0 /\ value = entries[owner] /\ value \in {0, 1}

\* Two locks: who holds the one that others wait for is or becomes the owner.
DualOwned ==
  /\ LockTypes({"check", "checkTry", "block", "own"})
  /\ value = 0 /\ ~barged /\ Owned
  /\ owner # None => holder = owner
  /\ \A t \in Threads : at[t] = "own" => holder = t /\ owner = None
  /\ holder # None /\ owner = None => at[holder] = "own"

SimplyOwned ==
  /\ LockTypes({})
  /\ value = 0 /\ holder = None /\ ~barged /\ Owned

\* When a woken thread has met an owner it still holds that all entries are counted.
AllEntries == {e \in Threads \X (1 .. MaxDepth) : e[2] <= entries[e[1]]}

SignalOwned ==
  /\ LockTypes({"asleep", "woken"})
  /\ value = 0 /\ holder = None
  /\ ~barged => Owned
  /\ owner = None <=> depth = 0
  /\ depth = Cardinality(AllEntries)
  /\ Recursive!SleepersWoken

\* The word names the owner before and after it counts.
WordOwned ==
  /\ LockTypes({"count", "free"})
  /\ value = 0 /\ holder = None /\ ~barged
  /\ \A t \in Threads : at[t] # "idle" \/ entries[t] > 0 => owner = t
  /\ IF owner = None THEN depth = 0
     ELSE /\ depth = entries[owner]
          /\ at[owner] = "count" \/ (at[owner] = "free" <=> depth = 0)

SystemNames == {"posix/FastLock", "macos/FastLock", "linux/FastRecursiveLock",
                "solaris/FastRecursiveLock", "win32/FastRecursiveLock"}

FastInv ==
  /\ object = "linux/AtomicFastLock" => CountedDown
  /\ object \in SystemNames => SystemOwned
  /\ object = "win32/FastLock" => FlagOwned
  /\ object = "DualMutexRecursiveLock" => DualOwned
  /\ object = "SimpleRecursiveLock" => SimplyOwned
  /\ object = "ConditionRecursiveLock" => SignalOwned
  /\ object = "AtomicFastRecursiveLock" => WordOwned
  /\ object \notin (OnceNames \cup AgainNames \cup MadeNames)
                     \ {"win32/AtomicFastLock", "win9x/AtomicFastLock"} => OneBit

LEMMA OneBitStep ==
  ASSUME OneBit, Spin!Win32Next \/ Spin!Win9xNext, UNCHANGED barged
  PROVE  OneBit'
<1> USE LockAssumptions
<1>1. PICK t \in Threads :
        Spin!Win32Acquire(t) \/ Spin!Win32Release(t) \/ Spin!Win9xAcquire(t)
          \/ Spin!Win9xRelease(t)
  BY DEF Spin!Win32Next, Spin!Win9xNext
<1>2. CASE Spin!Win32Acquire(t)
  BY <1>2 DEF Spin!Win32Acquire, Spin!MayEnter, Spin!Entered, Spin!Goto, OneBit, LockTypes,
     Users, OnlyUser, Unowned
<1>3. CASE Spin!Win9xAcquire(t)
  BY <1>3 DEF Spin!Win9xAcquire, Spin!MayEnter, Spin!Entered, Spin!Goto, OneBit, LockTypes,
     Users, OnlyUser, Unowned
<1>4. CASE Spin!Win32Release(t) \/ Spin!Win9xRelease(t)
  BY <1>4 DEF Spin!Win32Release, Spin!Win9xRelease, Spin!MayLeave, Spin!Left, OneBit,
     LockTypes, Users, OnlyUser, Unowned
<1> QED BY <1>1, <1>2, <1>3, <1>4

LEMMA SystemOwnedStep ==
  ASSUME SystemOwned, UNCHANGED <<object, barged>>, object \in SystemNames,
         \/ object = "posix/FastLock" /\ System!PosixNext
         \/ object # "posix/FastLock" /\ (System!MacNext \/ System!LinuxNext
               \/ System!SolarisNext \/ System!MutexNext)
  PROVE  SystemOwned'
<1> USE LockAssumptions
<1>1. CASE object = "posix/FastLock"
  <2>1. PICK t \in Threads : System!PosixAcquire(t) \/ System!PosixRelease(t)
    BY <1>1 DEF System!PosixNext
  <2>2. CASE System!PosixAcquire(t)
    BY <1>1, <2>2 DEF System!PosixAcquire, System!MayEnter, System!Lock, System!Entered, System!Goto,
       SystemOwned, LockTypes, Users, OnlyUser, Owned
  <2>3. CASE System!PosixRelease(t)
    BY <1>1, <2>3 DEF System!PosixRelease, System!MayLeave, System!Unlock, System!Left,
       SystemOwned, LockTypes, Users, OnlyUser, Owned
  <2> QED BY <2>1, <2>2, <2>3
<1>2. CASE object # "posix/FastLock"
  <2>1. PICK t \in Threads :
          \/ /\ System!MayEnter(t) /\ System!LockAgain(t) /\ System!Entered(t)
             /\ UNCHANGED <<value, holder>>
          \/ /\ System!MayLeave(t) /\ System!UnlockOnce(t) /\ System!Left(t)
             /\ UNCHANGED <<at, value, holder>>
    BY <1>2 DEF System!MacNext, System!LinuxNext, System!SolarisNext, System!MutexNext,
       System!MacAcquire, System!MacRelease, System!LinuxAcquire, System!LinuxRelease,
       System!SolarisAcquire, System!SolarisRelease, System!MutexAcquire, System!MutexRelease
  <2>2. CASE System!MayEnter(t) /\ System!LockAgain(t) /\ System!Entered(t)
             /\ UNCHANGED <<value, holder>>
    BY <1>2, <2>2 DEF System!MayEnter, System!LockAgain, System!Entered, System!Goto,
       SystemOwned, LockTypes, Users, OnlyUser, Owned
  <2>3. CASE System!MayLeave(t) /\ System!UnlockOnce(t) /\ System!Left(t)
             /\ UNCHANGED <<at, value, holder>>
    BY <1>2, <2>3 DEF System!MayLeave, System!UnlockOnce, System!Left,
       SystemOwned, LockTypes, Users, OnlyUser, Owned
  <2> QED BY <2>1, <2>2, <2>3
<1> QED BY <1>1, <1>2

LEMMA FlagOwnedStep ==
  ASSUME FlagOwned, System!Win32Next, UNCHANGED barged
  PROVE  FlagOwned'
<1> USE LockAssumptions
<1>1. PICK t \in Threads :
        System!Win32Take(t) \/ System!Win32Enter(t) \/ System!Win32Release(t)
          \/ System!Win32Unlock(t)
  BY DEF System!Win32Next
<1>2. CASE System!Win32Take(t)
  BY <1>2 DEF System!Win32Take, System!MayEnter, System!LockAgain, System!Goto, FlagOwned, LockTypes
<1>3. CASE System!Win32Enter(t)
  BY <1>3 DEF System!Win32Enter, System!Entered, System!Goto, FlagOwned, LockTypes
<1>4. CASE System!Win32Release(t)
  BY <1>4 DEF System!Win32Release, System!MayLeave, System!Left, System!Goto, FlagOwned, LockTypes
<1>5. CASE System!Win32Unlock(t)
  BY <1>5 DEF System!Win32Unlock, System!UnlockOnce, System!Goto, FlagOwned, LockTypes
<1> QED BY <1>1, <1>2, <1>3, <1>4, <1>5

LEMMA DualOwnedStep ==
  ASSUME DualOwned, Recursive!DualNext
  PROVE  DualOwned'
<1> USE LockAssumptions
<1>1. PICK t \in Threads :
        \/ \E refused \in {"check", "checkTry"} : Recursive!DualTry(t, refused)
        \/ Recursive!DualAgain(t) \/ Recursive!DualOther(t) \/ Recursive!DualBlock(t)
        \/ Recursive!DualOwn(t) \/ Recursive!DualRelease(t)
  BY DEF Recursive!DualNext
<1>2. CASE \E refused \in {"check", "checkTry"} : Recursive!DualTry(t, refused)
  BY <1>2 DEF Recursive!DualTry, Recursive!MayEnter, Recursive!Goto, DualOwned, LockTypes,
     Users, OnlyUser, Owned
<1>3. CASE Recursive!DualAgain(t)
  BY <1>3 DEF Recursive!DualAgain, Recursive!Own, Recursive!Entered, Recursive!Goto, DualOwned,
     LockTypes, Users, OnlyUser, Owned
<1>4. CASE Recursive!DualOther(t)
  BY <1>4 DEF Recursive!DualOther, Recursive!Goto, DualOwned, LockTypes, Users, OnlyUser, Owned
<1>5. CASE Recursive!DualBlock(t)
  BY <1>5 DEF Recursive!DualBlock, Recursive!Goto, DualOwned, LockTypes, Users, OnlyUser, Owned
<1>6. CASE Recursive!DualOwn(t)
  BY <1>6 DEF Recursive!DualOwn, Recursive!Own, Recursive!Entered, Recursive!Goto, DualOwned,
     LockTypes, Users, OnlyUser, Owned
<1>7. CASE Recursive!DualRelease(t)
  BY <1>7 DEF Recursive!DualRelease, Recursive!MayLeave, Recursive!Left, DualOwned, LockTypes,
     Users, OnlyUser, Owned
<1> QED BY <1>1, <1>2, <1>3, <1>4, <1>5, <1>6, <1>7

LEMMA SimplyOwnedStep ==
  ASSUME SimplyOwned, Recursive!SimpleNext
  PROVE  SimplyOwned'
<1> USE LockAssumptions
<1>1. PICK t \in Threads : Recursive!SimpleAcquire(t) \/ Recursive!SimpleRelease(t)
  BY DEF Recursive!SimpleNext
<1>2. CASE Recursive!SimpleAcquire(t)
  BY <1>2 DEF Recursive!SimpleAcquire, Recursive!MayEnter, Recursive!Own, Recursive!Entered,
     Recursive!Goto, SimplyOwned, LockTypes, Users, OnlyUser, Owned
<1>3. CASE Recursive!SimpleRelease(t)
  BY <1>3 DEF Recursive!SimpleRelease, Recursive!MayLeave, Recursive!Left, SimplyOwned,
     LockTypes, Users, OnlyUser, Owned
<1> QED BY <1>1, <1>2, <1>3

LEMMA WordOwnedStep ==
  ASSUME WordOwned, Recursive!AtomicNext
  PROVE  WordOwned'
<1> USE LockAssumptions
<1>1. PICK t \in Threads :
        Recursive!AtomicSwap(t) \/ Recursive!AtomicCount(t) \/ Recursive!AtomicLeave(t)
          \/ Recursive!AtomicFree(t)
  BY DEF Recursive!AtomicNext
<1>2. CASE Recursive!AtomicSwap(t)
  BY <1>2 DEF Recursive!AtomicSwap, Recursive!MayEnter, Recursive!Goto, WordOwned, LockTypes
<1>3. CASE Recursive!AtomicCount(t)
  BY <1>3 DEF Recursive!AtomicCount, Recursive!Entered, Recursive!Goto, WordOwned, LockTypes
<1>4. CASE Recursive!AtomicLeave(t)
  BY <1>4 DEF Recursive!AtomicLeave, Recursive!MayLeave, Recursive!Left, Recursive!Goto,
     WordOwned, LockTypes
<1>5. CASE Recursive!AtomicFree(t)
  BY <1>5 DEF Recursive!AtomicFree, Recursive!Goto, WordOwned, LockTypes
<1> QED BY <1>1, <1>2, <1>3, <1>4, <1>5

\* The number of threads in a set, with one more and with one less.
LEMMA Numbered ==
  ASSUME NEW S \in SUBSET Threads, NEW t \in Threads
  PROVE  /\ IsFiniteSet(S) /\ Cardinality(S) \in Nat /\ (Cardinality(S) = 0 <=> S = {})
         /\ t \notin S => Cardinality(S \cup {t}) = Cardinality(S) + 1
         /\ t \in S => Cardinality(S \ {t}) = Cardinality(S) - 1
<1>1. IsFiniteSet(S)
  BY LockAssumptions, FS_Subset
<1> QED
  BY <1>1, FS_CardinalityType, FS_EmptySet, FS_AddElement, FS_RemoveElement

LEMMA CountedDownStep ==
  ASSUME CountedDown, Spin!LinuxNext, UNCHANGED barged
  PROVE  CountedDown'
<1> USE LockAssumptions
<1>1. PICK t \in Threads :
        Spin!LinuxAcquire(t) \/ Spin!LinuxUndo(t) \/ Spin!LinuxTry(t) \/ Spin!LinuxRefuse(t)
          \/ Spin!LinuxRelease(t)
  BY DEF Spin!LinuxNext
<1>2. /\ Cardinality(Users) \in Nat /\ (Cardinality(Users) = 0 <=> Users = {})
      /\ Cardinality(Failed) \in Nat
      /\ t \notin Users => Cardinality(Users \cup {t}) = Cardinality(Users) + 1
      /\ t \in Users => Cardinality(Users \ {t}) = Cardinality(Users) - 1
      /\ t \notin Failed => Cardinality(Failed \cup {t}) = Cardinality(Failed) + 1
      /\ t \in Failed => Cardinality(Failed \ {t}) = Cardinality(Failed) - 1
  BY Numbered DEF Users, Failed
<1>3. ASSUME at[t] \in {"idle", "spin"}, entries[t] < MaxDepth, value = 1,
             value' = value - 1, Spin!Entered(t), UNCHANGED <<holder, owner, depth>>
      PROVE  CountedDown'
  <2>1. Users = {} /\ t \notin Users
    BY <1>2, <1>3 DEF CountedDown
  <2>2. at' = [at EXCEPT ![t] = "idle"] /\ entries' = [entries EXCEPT ![t] = 1]
    <3>1. entries[t] + 1 = 1
      BY <2>1 DEF CountedDown, LockTypes, Users
    <3> QED BY <1>3, <3>1 DEF Spin!Entered, Spin!Goto
  <2>3. Users' = Users \cup {t} /\ Failed' = Failed
    BY <1>3, <2>2 DEF CountedDown, LockTypes, Users, Failed
  <2>4. value' = 1 - Cardinality(Users') - Cardinality(Failed')
    BY <1>2, <1>3, <2>1, <2>3 DEF CountedDown
  <2>5. \A u \in Users' : entries'[u] = 1 /\ OnlyUser(u)'
    BY <2>1, <2>2, <2>3 DEF CountedDown, LockTypes, Users, OnlyUser
  <2>6. LockTypes({"spin", "undo", "refuse"})'
    BY <1>3, <2>2 DEF CountedDown, LockTypes
  <2> QED
    BY <1>3, <2>4, <2>5, <2>6 DEF CountedDown, Unowned
<1>4. ASSUME NEW label \in {"undo", "refuse"}, at[t] \in {"idle", "spin"}, entries[t] < MaxDepth,
             value' = value - 1, Spin!Goto(t, label), UNCHANGED <<entries, holder, owner, depth>>
      PROVE  CountedDown'
  <2>1. Users' = Users /\ Failed' = Failed \cup {t} /\ t \notin Failed
    BY <1>4 DEF Spin!Goto, CountedDown, LockTypes, Users, Failed
  <2>2. value' = 1 - Cardinality(Users') - Cardinality(Failed')
    BY <1>2, <1>4, <2>1 DEF CountedDown
  <2>3. LockTypes({"spin", "undo", "refuse"})'
    BY <1>4 DEF Spin!Goto, CountedDown, LockTypes
  <2> QED
    BY <1>4, <2>1, <2>2, <2>3 DEF CountedDown, Unowned, OnlyUser
<1>5. ASSUME NEW label \in {"idle", "spin"}, at[t] \in {"undo", "refuse"},
             value' = value + 1, Spin!Goto(t, label), UNCHANGED <<entries, holder, owner, depth>>
      PROVE  CountedDown'
  <2>1. Users' = Users /\ Failed' = Failed \ {t} /\ t \in Failed
    BY <1>5 DEF Spin!Goto, CountedDown, LockTypes, Users, Failed
  <2>2. value' = 1 - Cardinality(Users') - Cardinality(Failed')
    BY <1>2, <1>5, <2>1 DEF CountedDown
  <2>3. LockTypes({"spin", "undo", "refuse"})'
    BY <1>5 DEF Spin!Goto, CountedDown, LockTypes
  <2> QED
    BY <1>5, <2>1, <2>2, <2>3 DEF CountedDown, Unowned, OnlyUser
<1>6. CASE Spin!LinuxRelease(t)
  <2>1. t \in Users /\ entries' = [entries EXCEPT ![t] = 0] /\ UNCHANGED at
    <3>1. t \in Users
      BY <1>6 DEF Spin!LinuxRelease, Spin!MayLeave, Users
    <3>2. entries[t] - 1 = 0
      BY <3>1 DEF CountedDown
    <3> QED BY <1>6, <3>1, <3>2 DEF Spin!LinuxRelease, Spin!Left
  <2>2. Users' = Users \ {t} /\ Failed' = Failed
    BY <2>1 DEF CountedDown, LockTypes, Users, Failed
  <2>3. value' = 1 - Cardinality(Users') - Cardinality(Failed')
    BY <1>2, <1>6, <2>1, <2>2 DEF CountedDown, Spin!LinuxRelease
  <2>4. LockTypes({"spin", "undo", "refuse"})' /\ Unowned'
    BY <1>6, <2>1 DEF Spin!LinuxRelease, Spin!MayLeave, CountedDown, LockTypes, Unowned
  <2>5. \A u \in Users' : entries'[u] = 1 /\ OnlyUser(u)'
    BY <2>1, <2>2 DEF CountedDown, LockTypes, Users, OnlyUser
  <2> QED
    BY <2>3, <2>4, <2>5 DEF CountedDown
<1>7. CASE Spin!LinuxAcquire(t) \/ Spin!LinuxTry(t)
  <2>1. at[t] \in {"idle", "spin"} /\ entries[t] < MaxDepth
    BY <1>7 DEF Spin!LinuxAcquire, Spin!LinuxTry, Spin!MayEnter, CountedDown, LockTypes
  <2> QED BY <1>3, <1>4, <1>7, <2>1 DEF Spin!LinuxAcquire, Spin!LinuxTry
<1>8. CASE Spin!LinuxUndo(t) \/ Spin!LinuxRefuse(t)
  BY <1>5, <1>8 DEF Spin!LinuxUndo, Spin!LinuxRefuse
<1> QED BY <1>1, <1>6, <1>7, <1>8

\* One entry more, and one less.
LEMMA EntriesNumbered ==
  ASSUME entries \in [Threads -> 0 .. MaxDepth], NEW t \in Threads
  PROVE  /\ IsFiniteSet(AllEntries) /\ Cardinality(AllEntries) \in Nat
         /\ Cardinality(AllEntries) = 0 <=> Users = {}
         /\ entries[t] < MaxDepth /\ entries' = [entries EXCEPT ![t] = @ + 1]
              => Cardinality(AllEntries') = Cardinality(AllEntries) + 1
         /\ entries[t] > 0 /\ entries' = [entries EXCEPT ![t] = @ - 1]
              => Cardinality(AllEntries') = Cardinality(AllEntries) - 1
<1> USE LockAssumptions
<1>1. IsFiniteSet(Threads \X (1 .. MaxDepth))
  <2>1. IsFiniteSet(1 .. MaxDepth)
    <3>1. 1 \in Int /\ MaxDepth \in Int
      OBVIOUS
    <3> QED BY <3>1, FS_Interval
  <2> QED BY <2>1, FS_Product
<1>2. IsFiniteSet(AllEntries)
  BY <1>1, FS_Subset DEF AllEntries
<1>3. Cardinality(AllEntries) \in Nat /\ (Cardinality(AllEntries) = 0 <=> AllEntries = {})
  BY <1>2, FS_CardinalityType, FS_EmptySet
<1>4. AllEntries = {} <=> Users = {}
  <2>1. ASSUME NEW u \in Users PROVE AllEntries # {}
    <3>1. <<u, 1>> \in AllEntries
      BY <2>1 DEF Users, AllEntries
    <3> QED BY <3>1
  <2>2. ASSUME NEW e \in AllEntries PROVE Users # {}
    <3>1. e[1] \in Users
      BY <2>2 DEF Users, AllEntries
    <3> QED BY <3>1
  <2> QED BY <2>1, <2>2
<1>5. ASSUME entries[t] < MaxDepth, entries' = [entries EXCEPT ![t] = @ + 1]
      PROVE  Cardinality(AllEntries') = Cardinality(AllEntries) + 1
  <2> DEFINE e == <<t, entries[t] + 1>>
  <2>1. e \notin AllEntries
    BY DEF AllEntries
  <2>2. AllEntries' = AllEntries \cup {e}
    BY <1>5 DEF AllEntries
  <2> QED BY <1>2, <2>1, <2>2, FS_AddElement
<1>6. ASSUME entries[t] > 0, entries' = [entries EXCEPT ![t] = @ - 1]
      PROVE  Cardinality(AllEntries') = Cardinality(AllEntries) - 1
  <2> DEFINE e == <<t, entries[t]>>
  <2>1. e \in AllEntries
    BY <1>6 DEF AllEntries
  <2>2. AllEntries' = AllEntries \ {e}
    BY <1>6 DEF AllEntries
  <2> QED BY <1>2, <2>1, <2>2, FS_RemoveElement
<1> QED BY <1>2, <1>3, <1>4, <1>5, <1>6

LEMMA SignalOwnedStep ==
  ASSUME SignalOwned, Recursive!ConditionNext
  PROVE  SignalOwned'
<1> USE LockAssumptions
<1> DEFINE Labels == {"asleep", "woken"}
<1>1. PICK t \in Threads :
        Recursive!ConditionAcquire(t) \/ Recursive!ConditionSleep(t)
          \/ Recursive!ConditionWake(t) \/ Recursive!ConditionRelease(t)
  BY DEF Recursive!ConditionNext
<1>2. /\ Cardinality(AllEntries) \in Nat /\ (Cardinality(AllEntries) = 0 <=> Users = {})
      /\ entries[t] < MaxDepth /\ entries' = [entries EXCEPT ![t] = @ + 1]
           => Cardinality(AllEntries') = Cardinality(AllEntries) + 1
      /\ entries[t] > 0 /\ entries' = [entries EXCEPT ![t] = @ - 1]
           => Cardinality(AllEntries') = Cardinality(AllEntries) - 1
  BY EntriesNumbered DEF SignalOwned, LockTypes
<1>3. ASSUME at[t] \in {"idle", "woken"}, entries[t] < MaxDepth,
             (owner \in {None, t} /\ barged' = barged) \/ barged' = (barged \/ owner # None),
             owner' = t, depth' = depth + 1, Recursive!Entered(t), UNCHANGED <<value, holder>>
      PROVE  SignalOwned'
  <2>1. entries' = [entries EXCEPT ![t] = @ + 1] /\ at' = [at EXCEPT ![t] = "idle"]
    BY <1>3 DEF Recursive!Entered, Recursive!Goto
  <2>2. LockTypes(Labels)'
    <3>1. barged' \in BOOLEAN
      BY <1>3 DEF SignalOwned, LockTypes
    <3> QED BY <1>3, <2>1, <3>1 DEF SignalOwned, LockTypes
  <2>3. ~barged' => Owned'
    <3>1. ~barged' => ~barged /\ owner \in {None, t}
      BY <1>3
    <3>2. ~barged' => Owned /\ entries'[t] = entries[t] + 1
      BY <2>1, <3>1 DEF SignalOwned, LockTypes
    <3>3. \A u \in Threads \ {t} : entries'[u] = entries[u]
      BY <2>1 DEF SignalOwned, LockTypes
    <3> QED BY <1>3, <3>1, <3>2, <3>3 DEF SignalOwned, LockTypes, Owned, Users, OnlyUser
  <2>4. depth' = Cardinality(AllEntries') /\ depth' > 0 /\ owner' # None
    BY <1>2, <1>3, <2>1 DEF SignalOwned, LockTypes
  <2> QED
    BY <1>3, <2>2, <2>3, <2>4 DEF SignalOwned, Recursive!SleepersWoken
<1>4. CASE Recursive!ConditionAcquire(t) \/ Recursive!ConditionWake(t)
  <2>1. LockTypes(Labels)
    BY DEF SignalOwned
  <2>2. CASE Recursive!ConditionAcquire(t)
    BY <1>3, <2>2 DEF Recursive!ConditionAcquire, Recursive!MayEnter, Recursive!Own
  <2>3. CASE Recursive!ConditionWake(t)
    <3>1. entries[t] < MaxDepth
      BY <2>3, <2>1 DEF Recursive!ConditionWake, LockTypes
    <3> QED BY <1>3, <2>3, <3>1 DEF Recursive!ConditionWake, Recursive!Own
  <2> QED BY <1>4, <2>2, <2>3
<1>5. CASE Recursive!ConditionSleep(t)
  <2>1. LockTypes(Labels)' /\ owner \notin {None, t}
    BY <1>5 DEF Recursive!ConditionSleep, Recursive!MayEnter, Recursive!Goto, SignalOwned, LockTypes
  <2>2. (~barged' => Owned') /\ AllEntries' = AllEntries
    BY <1>5 DEF Recursive!ConditionSleep, SignalOwned, Owned, Users, OnlyUser, AllEntries
  <2> QED
    BY <1>5, <2>1, <2>2 DEF Recursive!ConditionSleep, SignalOwned, Recursive!SleepersWoken
<1>6. CASE Recursive!ConditionRelease(t)
  <2>1. /\ entries[t] > 0 /\ entries' = [entries EXCEPT ![t] = @ - 1]
        /\ at[t] = "idle" /\ depth' = depth - 1 /\ UNCHANGED <<value, holder, barged>>
    BY <1>6 DEF Recursive!ConditionRelease, Recursive!MayLeave, Recursive!Left
  <2>2. depth' = Cardinality(AllEntries') /\ depth > 0 /\ depth \in Nat /\ owner # None
    BY <1>2, <2>1 DEF SignalOwned, LockTypes, Users
  <2>3. \/ depth = 1 /\ owner' = None /\ Recursive!Wakes
        \/ depth > 1 /\ UNCHANGED <<owner, at>>
    BY <1>6, <2>2 DEF Recursive!ConditionRelease
  <2>4. /\ LockTypes(Labels)'
        /\ depth = 1 => ((\E u \in Threads : at'[u] = "asleep") => \E u \in Threads : at'[u] = "woken")
    BY <2>1, <2>2, <2>3 DEF Recursive!Wakes, Recursive!Goto, SignalOwned, LockTypes
  <2>5. ~barged' => Owned'
    BY <2>1, <2>2, <2>3 DEF SignalOwned, LockTypes, Owned, Users, OnlyUser
  <2> QED
    BY <2>1, <2>2, <2>3, <2>4, <2>5 DEF SignalOwned, Recursive!SleepersWoken
<1> QED BY <1>1, <1>4, <1>5, <1>6

\* The lock is the same object with the same value as long as another class is used.
LEMMA FastKept ==
  ASSUME FastInv, UNCHANGED <<object, fast>>
  PROVE  FastInv'
BY DEF FastInv, fast, CountedDown, SystemOwned, FlagOwned, DualOwned, SimplyOwned, SignalOwned,
   WordOwned, OneBit, LockTypes, Unowned, Users, Failed, OnlyUser, Owned, AllEntries,
   Recursive!SleepersWoken

LEMMA FastStart ==
  ASSUME Init
  PROVE  FastInv
<1> USE LockAssumptions
<1>1. /\ at = [t \in Threads |-> "idle"] /\ entries = [t \in Threads |-> 0]
      /\ value = FreeValue /\ holder = None /\ owner = None /\ depth = 0 /\ barged = FALSE
  BY DEF Init, Spin!Init, Spin!LockInit
<1>2. Users = {} /\ Failed = {} /\ Cardinality({}) = 0 /\ AllEntries = {}
  BY <1>1, FS_EmptySet DEF Users, Failed, AllEntries
<1>3. value \in {0, 1} /\ (value = 1 <=> object = "linux/AtomicFastLock")
  BY <1>1 DEF FreeValue
<1>4. ASSUME NEW Labels PROVE LockTypes(Labels)
  <2>1. at \in [Threads -> {"idle"} \cup Labels] /\ \A t \in Threads : at[t] = "idle"
    BY <1>1
  <2>2. entries \in [Threads -> 0 .. MaxDepth]
    BY <1>1
  <2>3. value \in Int /\ depth \in Nat
    BY <1>1, <1>3
  <2>4. barged \in BOOLEAN
    BY <1>1, Zenon
  <2> QED BY <1>1, <2>1, <2>2, <2>3, <2>4 DEF LockTypes
<1>5. object = "linux/AtomicFastLock" => CountedDown
  <2>1. LockTypes({"spin", "undo", "refuse"})
    BY <1>4
  <2> QED BY <1>1, <1>2, <1>3, <2>1 DEF CountedDown, Unowned
<1>6. object # "linux/AtomicFastLock"
        => /\ OneBit /\ SystemOwned /\ FlagOwned /\ DualOwned /\ SimplyOwned /\ SignalOwned
           /\ WordOwned
  <2>1. /\ LockTypes({}) /\ LockTypes({"locked?", "unlock"}) /\ LockTypes({"asleep", "woken"})
        /\ LockTypes({"check", "checkTry", "block", "own"}) /\ LockTypes({"count", "free"})
    BY <1>4
  <2>2. \A t \in Threads : at[t] = "idle" /\ entries[t] = 0
    BY <1>1
  <2>3. object # "linux/AtomicFastLock" => value = 0
    BY <1>3
  <2>4. object # "linux/AtomicFastLock" => OneBit /\ SystemOwned /\ SimplyOwned /\ DualOwned
    BY <1>1, <1>2, <2>1, <2>2, <2>3
    DEF OneBit, SystemOwned, SimplyOwned, DualOwned, Owned, Unowned, Users
  <2>5. object # "linux/AtomicFastLock" => FlagOwned /\ WordOwned
    BY <1>1, <2>1, <2>2, <2>3 DEF FlagOwned, WordOwned
  <2>6. object # "linux/AtomicFastLock" => SignalOwned
    BY <1>1, <1>2, <2>1, <2>2, <2>3 DEF SignalOwned, Owned, Recursive!SleepersWoken
  <2> QED BY <2>4, <2>5, <2>6
<1> QED BY <1>5, <1>6 DEF FastInv, SystemNames, OnceNames, SpinNames

LEMMA FastNext ==
  ASSUME FastInv, [Next]_vars
  PROVE  FastInv'
<1> USE DEF SpinNames, OnceNames, AgainNames, MadeNames, SystemNames
<1>1. CASE UNCHANGED <<object, fast>>
  BY <1>1, FastKept
<1>2. CASE LocksNext /\ UNCHANGED <<object, barged>>
  <2>1. CASE object = "linux/AtomicFastLock"
    BY <1>2, <2>1, CountedDownStep DEF LocksNext, FastInv
  <2>2. CASE object \in {"win32/AtomicFastLock", "win9x/AtomicFastLock"}
    BY <1>2, <2>2, OneBitStep DEF LocksNext, FastInv
  <2>3. CASE object \in SystemNames
    BY <1>2, <2>3, SystemOwnedStep DEF LocksNext, FastInv
  <2>4. CASE object = "win32/FastLock"
    BY <1>2, <2>4, FlagOwnedStep DEF LocksNext, FastInv
  <2> QED BY <1>2, <2>1, <2>2, <2>3, <2>4 DEF LocksNext
<1>3. CASE RecursiveNext /\ UNCHANGED object
  BY <1>3, DualOwnedStep, SimplyOwnedStep, SignalOwnedStep, WordOwnedStep
  DEF RecursiveNext, FastInv
<1> QED BY <1>1, <1>2, <1>3 DEF Next, vars

\* Who is inside is the only one, and the lock has nothing left over from its users.
LEMMA FastMeans ==
  ASSUME FastInv
  PROVE  /\ LockAssertions
         /\ barged \/ Spin!Alone
         /\ object \in OnceNames => \A t \in Threads : entries[t] <= 1
<1> USE LockAssumptions
<1> USE DEF LockAssertions, Spin!Unused, Spin!AsNew, FreeValue, Spin!Alone, OnceNames, SpinNames,
        AgainNames, MadeNames, SystemNames, LockTypes
<1> DEFINE Goal == /\ LockAssertions /\ (barged \/ Spin!Alone)
                   /\ object \in OnceNames => \A t \in Threads : entries[t] <= 1
<1>1. CASE object = "linux/AtomicFastLock"
  <2>1. CountedDown
    BY <1>1 DEF FastInv
  <2>2. (\A t \in Threads : at[t] = "idle" /\ entries[t] = 0) => value = 1
    <3>1. Spin!Unused => Users = {} /\ Failed = {}
      BY DEF Users, Failed
    <3>2. Cardinality({}) = 0
      BY FS_EmptySet
    <3>3. value = 1 - Cardinality(Users) - Cardinality(Failed)
      BY <2>1 DEF CountedDown
    <3>4. Spin!Unused => value = 1
      BY <3>1, <3>2, <3>3
    <3> QED BY <3>4
  <2> QED BY <1>1, <2>1, <2>2 DEF CountedDown, Unowned, OnlyUser, Users
<1>2. CASE object \in SystemNames
  <2>1. SystemOwned
    BY <1>2 DEF FastInv
  <2> QED BY <1>2, <2>1 DEF SystemOwned, Owned, OnlyUser, Users
<1>3. CASE object = "win32/FastLock"
  <2>1. FlagOwned
    BY <1>3 DEF FastInv
  <2> QED BY <1>3, <2>1 DEF FlagOwned
<1>4. CASE object = "DualMutexRecursiveLock"
  <2>1. DualOwned
    BY <1>4 DEF FastInv
  <2> QED BY <1>4, <2>1 DEF DualOwned, Owned, OnlyUser, Users
<1>5. CASE object = "SimpleRecursiveLock"
  <2>1. SimplyOwned
    BY <1>5 DEF FastInv
  <2> QED BY <1>5, <2>1 DEF SimplyOwned, Owned, OnlyUser, Users
<1>6. CASE object = "ConditionRecursiveLock"
  <2>1. SignalOwned
    BY <1>6 DEF FastInv
  <2>2. Spin!Unused => depth = 0 /\ owner = None
    <3>1. Spin!Unused => AllEntries = {}
      BY <2>1 DEF SignalOwned, AllEntries
    <3> QED BY <2>1, <3>1, FS_EmptySet DEF SignalOwned
  <2> QED BY <1>6, <2>1, <2>2 DEF SignalOwned, Owned, OnlyUser, Users
<1>7. CASE object = "AtomicFastRecursiveLock"
  <2>1. WordOwned
    BY <1>7 DEF FastInv
  <2> QED BY <1>7, <2>1 DEF WordOwned
<1>8. CASE object \notin SystemNames
             \cup {"linux/AtomicFastLock", "win32/FastLock", "DualMutexRecursiveLock",
                   "SimpleRecursiveLock", "ConditionRecursiveLock", "AtomicFastRecursiveLock"}
  <2>1. OneBit
    BY <1>8 DEF FastInv
  <2> QED BY <1>8, <2>1 DEF OneBit, Unowned, OnlyUser, Users
<1> QED BY <1>1, <1>2, <1>3, <1>4, <1>5, <1>6, <1>7, <1>8

\* A fast lock that nobody uses is as it was made, which its destructor asserts, and who becomes
\* the owner of a DualMutexRecursiveLock finds no other, which acquire() asserts.
THEOREM LocksAssert == Spec => []LockAssertions
<1>1. Init => FastInv
  BY FastStart
<1>2. FastInv /\ [Next]_vars => FastInv'
  BY FastNext
<1>3. FastInv => LockAssertions
  BY FastMeans
<1> QED BY <1>1, <1>2, <1>3, PTL DEF Spec

-----------------------------------------------------------------------------
(* The threads at the conditions of a queue, a read/write lock or a barrier. *)

\* What the operations of one class say of a wait is what those of another say.
LEMMA BiasedWords ==
  \A t, o, c, S :
    /\ Biased!WaitOn(t, o, c) <=> WaitOn(t, o, c)
    /\ Biased!Finish(t, S) <=> Finish(t, S)
    /\ Biased!CutShort(t, c) <=> CutShort(t, c)
    /\ Biased!ToSignal(t, c) = ToSignal(t, c)
    /\ Biased!ToBroadcast(t, c) = ToBroadcast(t, c)
BY DEF Biased!WaitOn, Biased!Begins, Biased!Finish, Biased!GoOn, Biased!Reached, Biased!LeftOver,
   Biased!CutShort, Biased!ToSignal, Biased!ToBroadcast, Biased!Asleep, Biased!Leaving,
   WaitOn, Begins, Finish, GoOn, Reached, LeftOver, CutShort, ToSignal, ToBroadcast, Asleep, Leaving

\* What is the number of elements of a set for one is it for another.
LEMMA SameCardinality ==
  \A S : Biased!Cardinality(S) = Cardinality(S) /\ Bounded!Cardinality(S) = Cardinality(S)
BY DEF Biased!Cardinality, Bounded!Cardinality, Cardinality

LEMMA CondTypes ==
  ASSUME NEW Ops, NEW Names, CondTypeOK(Ops, Names), NEW t \in Threads,
         \/ \E o \in Ops, c \in Names : WaitOn(t, o, c)
         \/ \E S \in SUBSET Threads : Finish(t, S)
         \/ \E how \in Cuts : CutShort(t, how)
  PROVE  CondTypeOK(Ops, Names)'
<1>1. CASE \E o \in Ops, c \in Names : WaitOn(t, o, c)
  <2>1. PICK o \in Ops, c \in Names : WaitOn(t, o, c)
    BY <1>1
  <2> QED BY <2>1 DEF WaitOn, CondTypeOK
<1>2. CASE \E S \in SUBSET Threads : Finish(t, S)
  <2>1. PICK S \in SUBSET Threads : Finish(t, S)
    BY <1>2
  <2>2. Reached(S) \in [Threads -> {"none", "asleep", "signaled"} \cup Cuts]
    BY DEF Reached, CondTypeOK
  <2>3. LeftOver(S) \subseteq Threads
    BY DEF LeftOver, CondTypeOK
  <2>4. lost' \in BOOLEAN
    BY <2>1, Zenon DEF Finish, GoOn
  <2> QED BY <2>1, <2>2, <2>3, <2>4 DEF Finish, GoOn, CondTypeOK
<1>3. CASE \E how \in Cuts : CutShort(t, how)
  BY <1>3 DEF CutShort, CondTypeOK
<1> QED BY <1>1, <1>2, <1>3

\* Until a signal is lost nobody carries one that was left over.
NoneLeftOver == ~lost => stale = {}

\* What t leaves behind when its operation is over and it has reached S, and when it waits on c.
LEMMA Finished ==
  ASSUME NEW Ops, NEW Names, CondTypeOK(Ops, Names), NEW t \in Threads,
         NEW S \in SUBSET Threads, Finish(t, S)
  PROVE  /\ op' = [op EXCEPT ![t] = "none"] /\ on' = [on EXCEPT ![t] = "none"]
         /\ wait'[t] = "none"
         /\ \A u \in Threads \ {t} :
              wait'[u] = IF u \in S /\ wait[u] = "asleep" THEN "signaled" ELSE wait[u]
         /\ (\A u \in S : wait[u] = "asleep") => stale' = stale
         /\ ~lost' => ~lost /\ \A u \in S : wait[u] = "asleep"
BY DEF Finish, GoOn, Reached, LeftOver, CondTypeOK

LEMMA Waited ==
  ASSUME NEW Ops, NEW Names, CondTypeOK(Ops, Names), NEW t \in Threads, NEW o, NEW c,
         WaitOn(t, o, c)
  PROVE  /\ op' = [op EXCEPT ![t] = o] /\ on' = [on EXCEPT ![t] = c]
         /\ wait'[t] \in {"asleep", "signaled"} /\ lost' = lost
         /\ stale = {} => wait'[t] = "asleep"
         /\ \A u \in Threads \ {t} : wait'[u] = wait[u]
         /\ stale' \subseteq stale
BY DEF WaitOn, CondTypeOK

\* Whom a signal and a broadcast reach.
LEMMA Reaches ==
  ASSUME NEW t \in Threads, NEW c
  PROVE  /\ \A S \in ToSignal(t, c) :
              /\ S \subseteq Threads /\ \A u \in S : on[u] = c
              /\ S = {} => Asleep(c) \subseteq {t}
              /\ \A u, v \in S : u = v
         /\ \A S \in ToBroadcast(t, c) :
              S \subseteq Threads /\ Asleep(c) \subseteq S /\ \A u \in S : on[u] = c
<1>1. Asleep(c) \subseteq Threads /\ Leaving(c) \subseteq Threads
      /\ (\A u \in Asleep(c) \cup Leaving(c) : on[u] = c)
  BY DEF Asleep, Leaving
<1>2. ASSUME NEW S \in ToSignal(t, c)
      PROVE  (S = {} /\ Asleep(c) \subseteq {t}) \/ \E u \in (Asleep(c) \cup Leaving(c)) \ {t} : S = {u}
  BY <1>2 DEF ToSignal
<1>3. ASSUME NEW S \in ToBroadcast(t, c)
      PROVE  \E L \in SUBSET (Leaving(c) \ {t}) : S = Asleep(c) \cup L
  BY <1>3 DEF ToBroadcast
<1>4. ASSUME NEW S \in ToSignal(t, c)
      PROVE  /\ S \subseteq Threads /\ \A u \in S : on[u] = c
             /\ S = {} => Asleep(c) \subseteq {t}
             /\ \A u, v \in S : u = v
  BY <1>1, <1>2, <1>4
<1>5. ASSUME NEW S \in ToBroadcast(t, c)
      PROVE  S \subseteq Threads /\ Asleep(c) \subseteq S /\ \A u \in S : on[u] = c
  <2>1. PICK L \in SUBSET (Leaving(c) \ {t}) : S = Asleep(c) \cup L
    BY <1>3, <1>5
  <2> QED BY <1>1, <2>1
<1> QED BY <1>4, <1>5

LEMMA NoneLeftOverStep ==
  ASSUME NEW Ops, NEW Names, CondTypeOK(Ops, Names), NoneLeftOver, NEW t \in Threads,
         \/ \E o \in Ops, c \in Names : WaitOn(t, o, c)
         \/ \E S \in SUBSET Threads : Finish(t, S)
         \/ \E how \in Cuts : CutShort(t, how)
  PROVE  NoneLeftOver'
<1> USE LockAssumptions
<1>1. CASE \E o \in Ops, c \in Names : WaitOn(t, o, c)
  <2>1. PICK o \in Ops, c \in Names : WaitOn(t, o, c)
    BY <1>1
  <2> QED BY <2>1, Waited DEF NoneLeftOver
<1>2. ASSUME NEW S \in SUBSET Threads, Finish(t, S)
      PROVE  NoneLeftOver'
  BY <1>2, Finished DEF NoneLeftOver
<1>3. CASE \E how \in Cuts : CutShort(t, how)
  BY <1>3 DEF CutShort, NoneLeftOver
<1> QED BY <1>1, <1>2, <1>3

-----------------------------------------------------------------------------
(* The read/write locks. *)

Readers    == {t \in Threads : inside[t] = "read"}
Writers    == {t \in Threads : inside[t] = "write"}
Calling(o) == {t \in Threads : op[t] = o}

\* Both count the readers that are inside; who still wants to enter is outside.
InsideCounted ==
  /\ inside \in [Threads -> {"none", "read", "write"}]
  /\ activeReaders = Cardinality(Readers)
  /\ WritersAlone
  /\ \A t \in Threads : op[t] # "none" => Outside(t)

\* Each operation waits on a condition of its own.
BiasedWaits ==
  \A t \in Threads :
    /\ op[t] = "read" => on[t] = "condRead"
    /\ op[t] = "write" => on[t] = "condWrite"
    /\ op[t] \notin {"read", "write"} => on[t] = "none"
    /\ on[t] = "none" <=> wait[t] = "none"

\* Who still owes a signal at a lock that nobody is in owes it to somebody.
Expecting(c) == {t \in Threads : on[t] = c /\ c # "none"}

OnTheWay(t) ==
  wait[t] \in {"signaled", "timedout"} \/ (op[t] = "wake" /\ Expecting(wakes[t]) # {})

SignalOwed ==
  (/\ ~lost /\ ~missed
   /\ \A t \in Threads : Outside(t)
   /\ \E t \in Threads : wait[t] = "asleep")
    => \E t \in Threads : OnTheWay(t)

BiasedInv ==
  /\ CondTypeOK({"read", "write", "wake"}, {"condRead", "condWrite"})
  /\ wakes \in [Threads -> {"none", "condRead", "condWrite"}] /\ missed \in BOOLEAN
  /\ activeWriters \in 0 .. 1 /\ (activeWriters = 0 <=> Writers = {})
  /\ NoneLeftOver /\ InsideCounted /\ BiasedWaits
  /\ Biased!WaitingCounted
  /\ SignalOwed

\* Of the FairReadWriteLock a writer that is inside has _lock, and then there is no reader.
FairInv ==
  /\ CondTypeOK({"write"}, {"cond"})
  /\ locked \in Threads \cup {None}
  /\ InsideCounted
  /\ \A t \in Threads : inside[t] = "write" <=> locked = t
  /\ locked # None => activeReaders = 0

RWInv ==
  /\ object = "BiasedReadWriteLock" => BiasedInv
  /\ object = "FairReadWriteLock" => FairInv
  /\ object \notin {"BiasedReadWriteLock", "FairReadWriteLock"}
       => inside = [t \in Threads |-> "none"]

\* The counts of a lock as threads come and go.
LEMMA EntersAsReader ==
  ASSUME InsideCounted, NEW t \in Threads, Outside(t), Writers = {}, Step(t, "read"),
         activeReaders' = activeReaders + 1,
         op'[t] = "none", \A u \in Threads \ {t} : op'[u] = op[u]
  PROVE  InsideCounted' /\ Writers' = {}
<1>1. inside'[t] = "read" /\ \A u \in Threads \ {t} : inside'[u] = inside[u]
  BY DEF Step, InsideCounted
<1>2. Readers' = Readers \cup {t} /\ t \notin Readers /\ Readers \in SUBSET Threads
  BY <1>1 DEF Readers, Outside
<1>3. activeReaders' = Cardinality(Readers')
  BY <1>2, Numbered DEF InsideCounted
<1>4. Writers' = {}
  BY <1>1 DEF Writers
<1>5. inside' \in [Threads -> {"none", "read", "write"}]
  BY DEF Step, InsideCounted
<1> QED BY <1>1, <1>3, <1>4, <1>5 DEF InsideCounted, WritersAlone, Outside, Writers

LEMMA EntersAsWriter ==
  ASSUME InsideCounted, NEW t \in Threads, Writers = {}, activeReaders = 0, Step(t, "write"),
         UNCHANGED activeReaders,
         op'[t] = "none", \A u \in Threads \ {t} : op'[u] = op[u]
  PROVE  InsideCounted' /\ Writers' = {t}
<1>1. inside'[t] = "write" /\ \A u \in Threads \ {t} : inside'[u] = inside[u]
  BY DEF Step, InsideCounted
<1>2. Readers = {}
  BY LockAssumptions, FS_Subset, FS_EmptySet DEF InsideCounted, Readers
<1>3. Readers' = {} /\ Writers' = {t}
  BY <1>1, <1>2 DEF Readers, Writers
<1>4. \A u \in Threads \ {t} : inside'[u] = "none"
  BY <1>1, <1>2 DEF Readers, Writers, InsideCounted
<1>5. inside' \in [Threads -> {"none", "read", "write"}]
  BY DEF Step, InsideCounted
<1>6. activeReaders' = Cardinality(Readers')
  BY <1>2, <1>3 DEF InsideCounted
<1>7. WritersAlone' /\ \A u \in Threads : op'[u] # "none" => Outside(u)'
  BY <1>1, <1>4 DEF WritersAlone, Outside
<1> QED BY <1>3, <1>5, <1>6, <1>7 DEF InsideCounted

LEMMA LeavesInside ==
  ASSUME InsideCounted, NEW t \in Threads, ~Outside(t), Step(t, "none"),
         activeReaders' = IF inside[t] = "read" THEN activeReaders - 1 ELSE activeReaders,
         \A u \in Threads \ {t} : op'[u] = op[u]
  PROVE  InsideCounted' /\ Writers' = Writers \ {t}
<1>1. inside'[t] = "none" /\ \A u \in Threads \ {t} : inside'[u] = inside[u]
  BY DEF Step, InsideCounted
<1>2. Readers' = Readers \ {t} /\ Readers \in SUBSET Threads /\ (inside[t] = "read" <=> t \in Readers)
  BY <1>1 DEF Readers
<1>3. activeReaders' = Cardinality(Readers')
  <2>1. CASE inside[t] = "read"
    BY <1>2, <2>1, Numbered DEF InsideCounted
  <2>2. CASE inside[t] # "read"
    <3>1. Readers' = Readers
      BY <1>2, <2>2
    <3> QED BY <2>2, <3>1 DEF InsideCounted
  <2> QED BY <2>1, <2>2
<1>4. Writers' = Writers \ {t}
  BY <1>1 DEF Writers
<1>5. inside' \in [Threads -> {"none", "read", "write"}]
  BY DEF Step, InsideCounted
<1> QED BY <1>1, <1>3, <1>4, <1>5 DEF InsideCounted, WritersAlone, Outside

LEMMA StaysInside ==
  ASSUME InsideCounted, NEW t \in Threads, UNCHANGED <<inside, activeReaders>>,
         op'[t] # "none" => Outside(t), \A u \in Threads \ {t} : op'[u] = op[u]
  PROVE  InsideCounted' /\ Writers' = Writers
<1>1. Readers' = Readers /\ Writers' = Writers
  BY DEF Readers, Writers
<1> QED BY <1>1 DEF InsideCounted, WritersAlone, Outside

LEMMA FairWords ==
  \A t, o, c, S :
    /\ Fair!WaitOn(t, o, c) <=> WaitOn(t, o, c)
    /\ Fair!Finish(t, S) <=> Finish(t, S)
    /\ Fair!CutShort(t, c) <=> CutShort(t, c)
    /\ Fair!ToSignal(t, c) = ToSignal(t, c)
BY DEF Fair!WaitOn, Fair!Begins, Fair!Finish, Fair!GoOn, Fair!Reached, Fair!LeftOver,
   Fair!CutShort, Fair!ToSignal, Fair!Asleep, Fair!Leaving,
   WaitOn, Begins, Finish, GoOn, Reached, LeftOver, CutShort, ToSignal, Asleep, Leaving

LEMMA FairStep ==
  ASSUME FairInv, Fair!Next
  PROVE  FairInv'
<1> USE LockAssumptions
<1>1. PICK t \in Threads :
        \/ Fair!ReadEnter(t) \/ Fair!ReadLeave(t) \/ Fair!WriteWait(t) \/ Fair!WriteEnter(t)
        \/ Fair!WriteInterrupted(t) \/ Fair!WriteLeave(t)
        \/ \E how \in Cuts : CutShort(t, how) /\ UNCHANGED <<inside, activeReaders, locked>>
  BY FairWords DEF Fair!Next
<1>2. CondTypeOK({"write"}, {"cond"}) /\ InsideCounted
  BY DEF FairInv
<1>3. Writers = {u \in Threads : locked = u} /\ (Writers = {} <=> locked = None)
  BY DEF FairInv, Writers
<1>4. CASE Fair!ReadEnter(t)
  <2>1. /\ Step(t, "read") /\ Outside(t) /\ activeReaders' = activeReaders + 1 /\ locked = None
        /\ op[t] = "none" /\ UNCHANGED <<op, on, wait, stale, timed, lost, locked>>
    BY <1>4 DEF Fair!ReadEnter, Fair!Step, Step, Fair!Outside, Outside, Fair!Begins,
       Fair!condVars, Fair!waits
  <2>2. InsideCounted' /\ Writers' = {}
    BY <1>2, <1>3, <2>1, EntersAsReader
  <2>3. CondTypeOK({"write"}, {"cond"})'
    BY <1>2, <2>1 DEF CondTypeOK
  <2> QED BY <2>1, <2>2, <2>3 DEF FairInv, Writers
<1>5. CASE Fair!ReadLeave(t)
  <2>1. PICK S \in SUBSET Threads : Finish(t, S)
    <3>1. PICK S \in IF activeReaders = 1 THEN ToSignal(t, "cond") ELSE {{}} : Finish(t, S)
      BY <1>5, FairWords DEF Fair!ReadLeave
    <3>2. \A R \in ToSignal(t, "cond") : R \subseteq Threads
      BY DEF ToSignal, Asleep, Leaving
    <3> QED BY <3>1, <3>2
  <2>2. /\ Step(t, "none") /\ inside[t] = "read" /\ locked = None /\ UNCHANGED locked
        /\ activeReaders' = activeReaders - 1
    BY <1>5 DEF Fair!ReadLeave, Fair!Step, Step
  <2>3. op' = [op EXCEPT ![t] = "none"] /\ CondTypeOK({"write"}, {"cond"})'
    BY <1>2, <2>1, Finished, CondTypes
  <2>4. InsideCounted' /\ Writers' = Writers \ {t}
    BY <1>2, <2>2, <2>3, LeavesInside DEF Outside, CondTypeOK
  <2> QED BY <1>3, <2>2, <2>3, <2>4 DEF FairInv, Writers
<1>6. CASE Fair!WriteWait(t)
  <2>1. WaitOn(t, "write", "cond") /\ UNCHANGED <<inside, activeReaders, locked>> /\ Outside(t)
    BY <1>2, <1>6, FairWords DEF Fair!WriteWait, Fair!Tries, Fair!Outside, Fair!Begins, Outside,
       InsideCounted
  <2>2. op' = [op EXCEPT ![t] = "write"] /\ CondTypeOK({"write"}, {"cond"})'
    BY <1>2, <2>1, Waited, CondTypes
  <2>3. InsideCounted' /\ Writers' = Writers
    BY <1>2, <2>1, <2>2, StaysInside DEF CondTypeOK
  <2> QED BY <2>1, <2>2, <2>3 DEF FairInv
<1>7. CASE Fair!WriteEnter(t)
  <2>1. /\ Finish(t, {}) /\ Step(t, "write") /\ locked = None /\ locked' = t
        /\ activeReaders = 0 /\ UNCHANGED activeReaders
    BY <1>7, FairWords DEF Fair!WriteEnter, Fair!Step, Step
  <2>2. op' = [op EXCEPT ![t] = "none"] /\ CondTypeOK({"write"}, {"cond"})'
    BY <1>2, <2>1, Finished, CondTypes
  <2>3. InsideCounted' /\ Writers' = {t}
    BY <1>2, <1>3, <2>1, <2>2, EntersAsWriter DEF CondTypeOK
  <2> QED BY <2>1, <2>2, <2>3 DEF FairInv, Writers
<1>8. CASE Fair!WriteInterrupted(t)
  <2>1. Finish(t, {}) /\ UNCHANGED <<inside, activeReaders, locked>>
    BY <1>8, FairWords DEF Fair!WriteInterrupted
  <2>2. op' = [op EXCEPT ![t] = "none"] /\ CondTypeOK({"write"}, {"cond"})'
    BY <1>2, <2>1, Finished, CondTypes
  <2>3. InsideCounted' /\ Writers' = Writers
    BY <1>2, <2>1, <2>2, StaysInside DEF CondTypeOK
  <2> QED BY <2>1, <2>2, <2>3 DEF FairInv
<1>9. CASE Fair!WriteLeave(t)
  <2>1. /\ Step(t, "none") /\ inside[t] = "write" /\ locked' = None
        /\ UNCHANGED <<activeReaders, op, on, wait, stale, timed, lost>>
    BY <1>9 DEF Fair!WriteLeave, Fair!Step, Step, Fair!condVars, Fair!waits
  <2>2. InsideCounted' /\ Writers' = Writers \ {t}
    BY <1>2, <2>1, LeavesInside DEF Outside
  <2>3. CondTypeOK({"write"}, {"cond"})'
    BY <1>2, <2>1 DEF CondTypeOK
  <2>4. Writers' = {}
    BY <1>3, <2>1, <2>2 DEF Writers
  <2> QED BY <2>1, <2>2, <2>3, <2>4 DEF FairInv, Writers
<1>10. CASE \E how \in Cuts : CutShort(t, how) /\ UNCHANGED <<inside, activeReaders, locked>>
  <2>1. UNCHANGED <<op, inside, activeReaders, locked>> /\ CondTypeOK({"write"}, {"cond"})'
    BY <1>2, <1>10, CondTypes DEF CutShort
  <2>2. InsideCounted' /\ Writers' = Writers
    BY <1>2, <2>1, StaysInside DEF InsideCounted
  <2> QED BY <2>1, <2>2 DEF FairInv
<1> QED BY <1>1, <1>4, <1>5, <1>6, <1>7, <1>8, <1>9, <1>10

\* The steps of the biased lock: where the threads wait, how many call and who owes a signal.
BiasedWaiting(t) ==
  \/ WaitOn(t, "read", "condRead")
  \/ WaitOn(t, "write", "condWrite")
  \/ \E how \in Cuts : CutShort(t, how)

Owing(t) ==
  /\ op[t] = "none"
  /\ \E o \in {"none", "wake"} : op' = [op EXCEPT ![t] = o]
  /\ UNCHANGED <<on, wait, stale, timed, lost>>

LEMMA BiasedWaitsStep ==
  ASSUME CondTypeOK({"read", "write", "wake"}, {"condRead", "condWrite"}), BiasedWaits,
         NEW t \in Threads,
         BiasedWaiting(t) \/ (\E S \in SUBSET Threads : Finish(t, S)) \/ Owing(t)
  PROVE  BiasedWaits'
<1> USE LockAssumptions
<1> DEFINE Ops == {"read", "write", "wake"}
           Names == {"condRead", "condWrite"}
<1>1. ASSUME NEW S \in SUBSET Threads, Finish(t, S) PROVE BiasedWaits'
  <2>1. /\ op' = [op EXCEPT ![t] = "none"] /\ on' = [on EXCEPT ![t] = "none"]
        /\ wait'[t] = "none"
        /\ \A u \in Threads \ {t} :
             wait'[u] = IF u \in S /\ wait[u] = "asleep" THEN "signaled" ELSE wait[u]
    BY <1>1, Finished
  <2> QED BY <2>1 DEF BiasedWaits, CondTypeOK
<1>2. ASSUME NEW o \in {"read", "write"}, NEW c \in Names, o = "read" <=> c = "condRead",
             WaitOn(t, o, c)
      PROVE  BiasedWaits'
  <2>1. /\ op' = [op EXCEPT ![t] = o] /\ on' = [on EXCEPT ![t] = c]
        /\ wait'[t] \in {"asleep", "signaled"}
        /\ \A u \in Threads \ {t} : wait'[u] = wait[u]
    BY <1>2, Waited
  <2> QED BY <1>2, <2>1 DEF BiasedWaits, CondTypeOK
<1>3. CASE \E how \in Cuts : CutShort(t, how)
  BY <1>3 DEF CutShort, BiasedWaits, CondTypeOK
<1>4. CASE Owing(t)
  BY <1>4 DEF Owing, BiasedWaits, CondTypeOK
<1> QED BY <1>1, <1>2, <1>3, <1>4 DEF BiasedWaiting

LEMMA CallingStep ==
  ASSUME NEW Ops, op \in [Threads -> Ops], NEW t \in Threads, NEW o, NEW r,
         op' = [op EXCEPT ![t] = o]
  PROVE  /\ Cardinality(Calling(r)) \in Nat
         /\ Cardinality(Calling(r)) = 0 <=> Calling(r) = {}
         /\ (o = r <=> op[t] = r) => Cardinality(Calling(r)') = Cardinality(Calling(r))
         /\ o = r /\ op[t] # r => Cardinality(Calling(r)') = Cardinality(Calling(r)) + 1
         /\ o # r /\ op[t] = r => Cardinality(Calling(r)') = Cardinality(Calling(r)) - 1
<1>1. /\ Calling(r) \in SUBSET Threads
      /\ (o = r <=> op[t] = r) => Calling(r)' = Calling(r)
      /\ o = r => Calling(r)' = Calling(r) \cup {t}
      /\ o # r => Calling(r)' = Calling(r) \ {t}
      /\ t \in Calling(r) <=> op[t] = r
  BY DEF Calling
<1>2. /\ Cardinality(Calling(r)) \in Nat
      /\ Cardinality(Calling(r)) = 0 <=> Calling(r) = {}
      /\ t \notin Calling(r) => Cardinality(Calling(r) \cup {t}) = Cardinality(Calling(r)) + 1
      /\ t \in Calling(r) => Cardinality(Calling(r) \ {t}) = Cardinality(Calling(r)) - 1
  BY <1>1, Numbered
<1> HIDE DEF Calling
<1>3. (o = r <=> op[t] = r) => Cardinality(Calling(r)') = Cardinality(Calling(r))
  BY <1>1
<1>4. o = r /\ op[t] # r => Cardinality(Calling(r)') = Cardinality(Calling(r)) + 1
  BY <1>1, <1>2
<1>5. o # r /\ op[t] = r => Cardinality(Calling(r)') = Cardinality(Calling(r)) - 1
  BY <1>1, <1>2
<1> QED BY <1>2, <1>3, <1>4, <1>5

LEMMA BiasedStep ==
  ASSUME BiasedInv, Biased!Next
  PROVE  BiasedInv'
<1> USE LockAssumptions
<1> DEFINE Ops == {"read", "write", "wake"}
           Names == {"condRead", "condWrite"}
           Same == UNCHANGED <<inside, activeReaders, activeWriters, wakes>>
<1>1. PICK t \in Threads :
        \/ Biased!ReadWait(t) \/ Biased!ReadEnter(t) \/ Biased!ReadInterrupted(t)
        \/ Biased!WriteWait(t) \/ Biased!WriteEnter(t) \/ Biased!WriteInterrupted(t)
        \/ Biased!AfterRead(t) \/ Biased!AfterWrite(t) \/ Biased!Signal(t)
        \/ \E how \in Cuts :
             CutShort(t, how) /\ Same /\ UNCHANGED <<waitingReaders, waitingWriters, missed>>
  BY BiasedWords DEF Biased!Next, Biased!active, Biased!waiting
<1>2. /\ CondTypeOK(Ops, Names) /\ InsideCounted /\ NoneLeftOver /\ BiasedWaits
      /\ op \in [Threads -> Ops \cup {"none"}]
  BY DEF BiasedInv, CondTypeOK
<1>3. /\ waitingReaders \in Nat /\ (waitingReaders > 0 <=> Calling("read") # {})
       /\ waitingWriters \in Nat /\ (waitingWriters > 0 <=> Calling("write") # {})
  <2>1. /\ waitingReaders = Cardinality(Calling("read"))
        /\ waitingWriters = Cardinality(Calling("write"))
    BY SameCardinality DEF BiasedInv, Biased!WaitingCounted, Calling
  <2>2. Calling("read") \in SUBSET Threads /\ Calling("write") \in SUBSET Threads
    BY DEF Calling
  <2>3. /\ Cardinality(Calling("read")) \in Nat
        /\ Cardinality(Calling("read")) = 0 <=> Calling("read") = {}
    BY <2>2, Numbered
  <2>4. /\ Cardinality(Calling("write")) \in Nat
        /\ Cardinality(Calling("write")) = 0 <=> Calling("write") = {}
    BY <2>2, Numbered
  <2> QED BY <2>1, <2>3, <2>4
<1>4. ASSUME NEW o, op' = [op EXCEPT ![t] = o],
             waitingReaders'
               = IF o = "read" /\ op[t] # "read" THEN waitingReaders + 1
                 ELSE IF o # "read" /\ op[t] = "read" THEN waitingReaders - 1
                 ELSE waitingReaders,
             waitingWriters'
               = IF o = "write" /\ op[t] # "write" THEN waitingWriters + 1
                 ELSE IF o # "write" /\ op[t] = "write" THEN waitingWriters - 1
                 ELSE waitingWriters
      PROVE  Biased!WaitingCounted'
  <2>1. waitingReaders' = Cardinality(Calling("read")')
    <3>1. waitingReaders = Cardinality(Calling("read"))
      BY SameCardinality DEF BiasedInv, Biased!WaitingCounted, Calling
    <3> QED BY <1>2, <1>4, <3>1, CallingStep
  <2>2. waitingWriters' = Cardinality(Calling("write")')
    <3>1. waitingWriters = Cardinality(Calling("write"))
      BY SameCardinality DEF BiasedInv, Biased!WaitingCounted, Calling
    <3> QED BY <1>2, <1>4, <3>1, CallingStep
  <2> QED BY <2>1, <2>2, SameCardinality DEF Biased!WaitingCounted, Calling
\* A wait begins while somebody is inside;
<1>5. ASSUME NEW o \in {"read", "write"}, NEW c \in Names, o = "read" <=> c = "condRead",
             WaitOn(t, o, c), Same, UNCHANGED missed, Outside(t), op[t] \in {"none", o},
             activeWriters # 0 \/ activeReaders # 0,
             waitingReaders' = IF op[t] = "none" /\ o = "read" THEN waitingReaders + 1
                               ELSE waitingReaders,
             waitingWriters' = IF op[t] = "none" /\ o = "write" THEN waitingWriters + 1
                               ELSE waitingWriters
      PROVE  BiasedInv'
  <2>1. op' = [op EXCEPT ![t] = o] /\ CondTypeOK(Ops, Names)' /\ NoneLeftOver'
    BY <1>2, <1>5, Waited, CondTypes, NoneLeftOverStep
  <2>2. BiasedWaits'
    BY <1>2, <1>5, BiasedWaitsStep DEF BiasedWaiting
  <2>3. InsideCounted' /\ Writers' = Writers
    BY <1>2, <1>5, <2>1, StaysInside
  <2>4. Biased!WaitingCounted'
    BY <1>2, <1>4, <1>5, <1>3, <2>1
  <2>5. \E u \in Threads : ~Outside(u)'
    <3>1. Writers # {} \/ Readers # {}
      BY <1>2, <1>5, FS_EmptySet DEF BiasedInv, InsideCounted
    <3> QED BY <1>5, <3>1 DEF Writers, Readers, Outside
  <2> QED BY <1>5, <2>1, <2>2, <2>3, <2>4, <2>5 DEF BiasedInv, SignalOwed
\* it ends inside, or with an exception.
<1>6. ASSUME Finish(t, {}), UNCHANGED wakes, op[t] \in {"none", "read", "write"},
             waitingReaders' = IF op[t] = "read" THEN waitingReaders - 1 ELSE waitingReaders,
             waitingWriters' = IF op[t] = "write" THEN waitingWriters - 1 ELSE waitingWriters
      PROVE  /\ op' = [op EXCEPT ![t] = "none"] /\ CondTypeOK(Ops, Names)' /\ NoneLeftOver'
             /\ BiasedWaits' /\ Biased!WaitingCounted'
             /\ wakes' \in [Threads -> {"none", "condRead", "condWrite"}]
  <2>1. op' = [op EXCEPT ![t] = "none"] /\ CondTypeOK(Ops, Names)' /\ NoneLeftOver'
    BY <1>2, <1>6, Finished, CondTypes, NoneLeftOverStep
  <2>2. BiasedWaits'
    BY <1>2, <1>6, BiasedWaitsStep
  <2>3. Biased!WaitingCounted'
    BY <1>2, <1>4, <1>6, <1>3, <2>1
  <2> QED BY <1>6, <2>1, <2>2, <2>3 DEF BiasedInv
<1>7. CASE Biased!ReadWait(t)
  <2>1. /\ WaitOn(t, "read", "condRead") /\ Same /\ Outside(t) /\ op[t] \in {"none", "read"}
        /\ activeWriters # 0 /\ UNCHANGED <<waitingWriters, missed>>
        /\ waitingReaders' = IF op[t] = "none" THEN waitingReaders + 1 ELSE waitingReaders
    BY <1>2, <1>7, BiasedWords DEF Biased!ReadWait, Biased!Tries, Biased!Begins, Biased!Outside,
       Biased!AllowReader, Biased!active, Outside, InsideCounted
  <2> QED BY <1>5, <2>1
<1>8. CASE Biased!WriteWait(t)
  <2>1. /\ WaitOn(t, "write", "condWrite") /\ Same /\ Outside(t) /\ op[t] \in {"none", "write"}
        /\ (activeWriters # 0 \/ activeReaders # 0) /\ UNCHANGED <<waitingReaders, missed>>
        /\ waitingWriters' = IF op[t] = "none" THEN waitingWriters + 1 ELSE waitingWriters
    BY <1>2, <1>8, BiasedWords DEF Biased!WriteWait, Biased!Tries, Biased!Begins, Biased!Outside,
       Biased!AllowWriter, Biased!active, Outside, InsideCounted
  <2> QED BY <1>5, <2>1
<1>9. CASE Biased!ReadEnter(t)
  <2>1. /\ Finish(t, {}) /\ Step(t, "read") /\ Outside(t) /\ op[t] \in {"none", "read"}
        /\ activeWriters = 0 /\ activeReaders' = activeReaders + 1
        /\ UNCHANGED <<activeWriters, waitingWriters, wakes, missed>>
        /\ waitingReaders' = IF op[t] = "read" THEN waitingReaders - 1 ELSE waitingReaders
    BY <1>2, <1>9, BiasedWords DEF Biased!ReadEnter, Biased!Tries, Biased!Begins, Biased!Outside,
       Biased!AllowReader, Biased!Step, Step, Outside, InsideCounted
  <2>2. /\ op' = [op EXCEPT ![t] = "none"] /\ CondTypeOK(Ops, Names)' /\ NoneLeftOver'
        /\ BiasedWaits' /\ Biased!WaitingCounted'
        /\ wakes' \in [Threads -> {"none", "condRead", "condWrite"}]
    BY <1>6, <2>1
  <2>3. InsideCounted' /\ Writers' = {}
    BY <1>2, <2>1, <2>2, EntersAsReader DEF BiasedInv
  <2>4. ~Outside(t)'
    BY <2>1 DEF Step, Outside, BiasedInv, InsideCounted
  <2> QED BY <2>1, <2>2, <2>3, <2>4 DEF BiasedInv, SignalOwed
<1>10. CASE Biased!WriteEnter(t)
  <2>1. /\ Finish(t, {}) /\ Step(t, "write") /\ Outside(t) /\ op[t] \in {"none", "write"}
        /\ activeWriters = 0 /\ activeWriters' = activeWriters + 1 /\ activeReaders = 0
        /\ UNCHANGED <<activeReaders, waitingReaders, wakes, missed>>
        /\ waitingWriters' = IF op[t] = "write" THEN waitingWriters - 1 ELSE waitingWriters
    BY <1>2, <1>10, BiasedWords DEF Biased!WriteEnter, Biased!Tries, Biased!Begins, Biased!Outside,
       Biased!AllowWriter, Biased!Step, Step, Outside, InsideCounted
  <2>2. /\ op' = [op EXCEPT ![t] = "none"] /\ CondTypeOK(Ops, Names)' /\ NoneLeftOver'
        /\ BiasedWaits' /\ Biased!WaitingCounted'
        /\ wakes' \in [Threads -> {"none", "condRead", "condWrite"}]
    BY <1>6, <2>1
  <2>3. InsideCounted' /\ Writers' = {t}
    BY <1>2, <2>1, <2>2, EntersAsWriter DEF BiasedInv
  <2>4. ~Outside(t)'
    BY <2>1 DEF Step, Outside, BiasedInv, InsideCounted
  <2> QED BY <2>1, <2>2, <2>3, <2>4 DEF BiasedInv, SignalOwed
<1>11. CASE Biased!ReadInterrupted(t) \/ Biased!WriteInterrupted(t)
  <2>1. /\ Finish(t, {}) /\ Same /\ wait[t] = "interrupted" /\ op[t] \in {"read", "write"}
        /\ waitingReaders' = IF op[t] = "read" THEN waitingReaders - 1 ELSE waitingReaders
        /\ waitingWriters' = IF op[t] = "write" THEN waitingWriters - 1 ELSE waitingWriters
    BY <1>11, BiasedWords DEF Biased!ReadInterrupted, Biased!WriteInterrupted, Biased!active
  <2>2. /\ op' = [op EXCEPT ![t] = "none"] /\ CondTypeOK(Ops, Names)' /\ NoneLeftOver'
        /\ BiasedWaits' /\ Biased!WaitingCounted'
        /\ wakes' \in [Threads -> {"none", "condRead", "condWrite"}]
    BY <1>6, <2>1
  <2>3. InsideCounted' /\ Writers' = Writers
    BY <1>2, <2>1, <2>2, StaysInside
  <2>4. missed' = (missed \/ \E u \in Threads : wakes[u] = on[t])
    BY <1>2, <1>11 DEF Biased!ReadInterrupted, Biased!WriteInterrupted, Biased!LeavesOwed, BiasedWaits
  <2>5. missed' \in BOOLEAN
    BY <2>4, Zenon
  <2>6. /\ on' = [on EXCEPT ![t] = "none"] /\ wait'[t] = "none" /\ (~lost' => ~lost)
        /\ \A u \in Threads \ {t} : wait'[u] = wait[u]
    BY <1>2, <2>1, Finished
  <2>7. ASSUME ~lost', ~missed', \A u \in Threads : Outside(u)', NEW w \in Threads, wait'[w] = "asleep"
        PROVE  \E u \in Threads : OnTheWay(u)'
    <3>1. w # t /\ wait[w] = "asleep" /\ (\A u \in Threads : Outside(u)) /\ ~lost /\ ~missed
      BY <2>1, <2>4, <2>6, <2>7 DEF Outside
    <3>2. PICK u \in Threads : OnTheWay(u)
      BY <3>1 DEF BiasedInv, SignalOwed
    <3>3. u # t
      BY <2>1, <3>2 DEF OnTheWay
    <3>4. Expecting(wakes[u])' = Expecting(wakes[u])
      BY <1>2, <2>1, <2>4, <2>6, <2>7 DEF Expecting, CondTypeOK
    <3> QED BY <1>2, <2>2, <2>6, <3>2, <3>3, <3>4 DEF OnTheWay
  <2>8. SignalOwed'
    BY <2>7 DEF SignalOwed
  <2> QED BY <2>1, <2>2, <2>3, <2>5, <2>8 DEF BiasedInv
\* Who leaves decides by the numbers of those that wait.
<1>12. CASE Biased!AfterRead(t) \/ Biased!AfterWrite(t)
  <2>1. /\ Step(t, "none") /\ ~Outside(t) /\ Owing(t)
        /\ UNCHANGED <<waitingReaders, waitingWriters, missed>>
        /\ wakes' = [wakes EXCEPT ![t] = Biased!ToWake]
        /\ op' = [op EXCEPT ![t] = IF Biased!ToWake = "none" THEN "none" ELSE "wake"]
        /\ activeReaders' = IF inside[t] = "read" THEN activeReaders - 1 ELSE activeReaders
        /\ activeWriters' = IF inside[t] = "write" THEN activeWriters - 1 ELSE activeWriters
    BY <1>2, <1>12 DEF Biased!AfterRead, Biased!AfterWrite, Biased!Owes, Biased!Step, Step, Outside,
       Owing, Biased!waits, Biased!waiting, InsideCounted
  <2>2. CondTypeOK(Ops, Names)' /\ NoneLeftOver' /\ BiasedWaits'
    BY <1>2, <2>1, BiasedWaitsStep DEF Owing, CondTypeOK, NoneLeftOver
  <2>3. InsideCounted' /\ Writers' = Writers \ {t}
    BY <1>2, <2>1, LeavesInside
  <2>4. Biased!WaitingCounted'
    <3>1. PICK o \in {"none", "wake"} : op' = [op EXCEPT ![t] = o]
      BY <2>1 DEF Owing
    <3>2. op[t] = "none" /\ UNCHANGED <<waitingReaders, waitingWriters>>
      BY <2>1 DEF Owing
    <3> QED BY <1>4, <1>3, <3>1, <3>2
  <2>5. activeWriters' \in 0 .. 1 /\ (activeWriters' = 0 <=> Writers' = {})
    <3>1. inside[t] = "write" => Writers = {t}
      BY <1>2 DEF InsideCounted, WritersAlone, Writers, Outside
    <3>2. inside[t] # "write" => t \notin Writers
      BY DEF Writers
    <3> QED BY <2>1, <2>3, <3>1, <3>2 DEF BiasedInv
  <2>6. wakes' \in [Threads -> {"none", "condRead", "condWrite"}]
    <3>1. Biased!ToWake \in {"none", "condRead", "condWrite"}
      BY DEF Biased!ToWake
    <3> QED BY <2>1, <3>1 DEF BiasedInv
  <2>7. ASSUME NEW w \in Threads, wait'[w] = "asleep"
        PROVE  OnTheWay(t)'
    <3>1. w # t /\ op[w] \in {"read", "write"} /\ UNCHANGED <<on, wait>>
      BY <1>2, <2>1, <2>7 DEF Owing, BiasedWaits
    <3>2. waitingWriters > 0 \/ (waitingWriters = 0 /\ waitingReaders > 0)
      <4>1. Calling("read") # {} \/ Calling("write") # {}
        BY <3>1 DEF Calling
      <4> QED BY <1>3, <4>1
    <3>3. PICK r \in {"read", "write"}, c \in Names :
            (r = "read" <=> c = "condRead") /\ Biased!ToWake = c /\ Calling(r) # {}
      BY <1>3, <3>2 DEF Biased!ToWake
    <3>4. PICK v \in Threads : op[v] = r /\ on[v] = c
      BY <1>2, <3>3 DEF Calling, BiasedWaits
    <3>5. v \in Expecting(c)' /\ op'[t] = "wake" /\ wakes'[t] = c
      BY <1>2, <2>1, <3>1, <3>3, <3>4 DEF Expecting, BiasedInv
    <3>6. Expecting(wakes[t])' = Expecting(c)'
      BY <3>5 DEF Expecting
    <3> QED BY <3>5, <3>6 DEF OnTheWay
  <2>8. SignalOwed'
    BY <2>7 DEF SignalOwed
  <2> QED BY <2>1, <2>2, <2>3, <2>4, <2>5, <2>6, <2>8 DEF BiasedInv

\* A signal that is owed wakes somebody, or there is nobody at its condition any more.
<1>13. CASE Biased!Signal(t)
  <2>1. PICK S \in ToSignal(t, wakes[t]) :
          /\ Finish(t, S)
          /\ missed' = (missed \/ (S = {} /\ \E u \in Threads :
                                      on[u] = wakes[t] /\ wait[u] = "interrupted"))
    BY <1>13, BiasedWords DEF Biased!Signal
  <2>2. /\ op[t] = "wake" /\ wakes' = [wakes EXCEPT ![t] = "none"]
        /\ UNCHANGED <<inside, activeReaders, activeWriters, waitingReaders, waitingWriters>>
    BY <1>13 DEF Biased!Signal, Biased!active, Biased!waiting
  <2>3. /\ S \in SUBSET Threads
        /\ S = {} => Asleep(wakes[t]) \subseteq {t}
    BY <1>2, <2>1, Reaches
  <2>4. /\ op' = [op EXCEPT ![t] = "none"] /\ on' = [on EXCEPT ![t] = "none"]
        /\ ~lost' => ~lost /\ \A u \in S : wait[u] = "asleep"
        /\ \A u \in Threads \ {t} :
             wait'[u] = IF u \in S /\ wait[u] = "asleep" THEN "signaled" ELSE wait[u]
        /\ CondTypeOK(Ops, Names)'
    BY <1>2, <2>1, <2>3, Finished, CondTypes
  <2>5. NoneLeftOver'
    BY <1>2, <2>1, <2>3, NoneLeftOverStep DEF Asleep
  <2>6. BiasedWaits'
    BY <1>2, <2>1, <2>3, BiasedWaitsStep
  <2>7. InsideCounted' /\ Writers' = Writers
    BY <1>2, <2>2, <2>4, StaysInside
  <2>8. Biased!WaitingCounted'
    BY <1>4, <1>3, <2>2, <2>4
  <2>9. wakes' \in [Threads -> {"none", "condRead", "condWrite"}]
    BY <2>2 DEF BiasedInv
  <2>10. ASSUME ~lost', ~missed', \A u \in Threads : Outside(u)', NEW w \in Threads,
                wait'[w] = "asleep"
         PROVE  \E u \in Threads : OnTheWay(u)'
    <3>1. /\ w # t /\ wait[w] = "asleep" /\ (\A u \in Threads : Outside(u)) /\ ~lost /\ ~missed
          /\ wait[t] = "none" /\ on[t] = "none"
      <4>1. wait[t] = "none" /\ on[t] = "none" /\ wait'[t] = "none"
        BY <1>2, <2>1, <2>2, <2>3, Finished DEF BiasedWaits
      <4>2. w # t /\ wait[w] = "asleep"
        BY <2>4, <2>10, <4>1
      <4>3. ~lost /\ \A u \in Threads : Outside(u)
        BY <2>2, <2>4, <2>10 DEF Outside
      <4>4. ~missed
        BY <2>1, <2>10, Zenon
      <4> QED BY <4>1, <4>2, <4>3, <4>4
    <3>2. CASE S # {}
      <4>1. PICK u \in S : u \in Threads /\ wait[u] = "asleep" /\ u # t
        BY <2>3, <2>4, <2>10, <3>1, <3>2
      <4> QED BY <2>4, <4>1 DEF OnTheWay
    <3>3. CASE S = {}
      <4>1. \A u \in Threads \ {t} : wait'[u] = wait[u] /\ op'[u] = op[u] /\ on'[u] = on[u]
        BY <1>2, <2>4, <3>3 DEF CondTypeOK
      <4>2. CASE Expecting(wakes[t]) # {}
        <5>1. PICK u \in Threads : on[u] = wakes[t] /\ wakes[t] # "none"
          BY <4>2 DEF Expecting
        <5>2. wakes[t] # "none" /\ u # t
          BY <3>1, <5>1
        <5>3. wait[u] \in {"signaled", "timedout"}
          BY <1>2, <2>1, <2>3, <2>10, <3>1, <3>3, <5>1, <5>2 DEF Asleep, BiasedWaits, CondTypeOK
        <5> QED BY <4>1, <5>2, <5>3 DEF OnTheWay
      <4>3. CASE Expecting(wakes[t]) = {}
        <5>1. PICK u \in Threads : OnTheWay(u)
          BY <3>1 DEF BiasedInv, SignalOwed
        <5>2. u # t
          BY <3>1, <4>3, <5>1 DEF OnTheWay
        <5>3. wakes'[u] = wakes[u]
          BY <2>2, <5>2 DEF BiasedInv
        <5>4. \A c : Expecting(c)' = Expecting(c)
          BY <2>4, <3>1, <4>1 DEF Expecting, CondTypeOK
        <5>5. OnTheWay(u)'
          BY <1>2, <4>1, <5>1, <5>2, <5>3, <5>4 DEF OnTheWay, Expecting, BiasedInv
        <5> QED BY <5>5
      <4> QED BY <4>2, <4>3
    <3> QED BY <3>2, <3>3
  <2>11. SignalOwed'
    BY <2>10 DEF SignalOwed
  <2>12. missed' \in BOOLEAN
    BY <2>1, Zenon
  <2> QED BY <2>2, <2>4, <2>5, <2>6, <2>7, <2>8, <2>9, <2>11, <2>12 DEF BiasedInv
<1>14. CASE \E how \in Cuts :
              CutShort(t, how) /\ Same /\ UNCHANGED <<waitingReaders, waitingWriters, missed>>
  <2>1. /\ UNCHANGED <<op, on, lost, missed>> /\ Same /\ UNCHANGED <<waitingReaders, waitingWriters>>
        /\ wait[t] = "asleep" /\ wait'[t] # "asleep" /\ \A u \in Threads \ {t} : wait'[u] = wait[u]
        /\ CondTypeOK(Ops, Names)' /\ NoneLeftOver'
    BY <1>2, <1>14, CondTypes, NoneLeftOverStep DEF CutShort, CondTypeOK
  <2>2. BiasedWaits'
    BY <1>2, <1>14, BiasedWaitsStep DEF BiasedWaiting
  <2>3. InsideCounted' /\ Writers' = Writers
    BY <1>2, <2>1, StaysInside DEF InsideCounted
  <2>4. Biased!WaitingCounted'
    BY <2>1 DEF BiasedInv, Biased!WaitingCounted
  <2>5. \A u \in Threads : OnTheWay(u) => OnTheWay(u)'
    BY <1>2, <2>1 DEF OnTheWay, Expecting, BiasedWaits
  <2>6. SignalOwed'
    BY <2>1, <2>5 DEF SignalOwed, BiasedInv, Outside
  <2> QED BY <2>1, <2>2, <2>3, <2>4, <2>6 DEF BiasedInv
<1> QED BY <1>1, <1>7, <1>8, <1>9, <1>10, <1>11, <1>12, <1>13, <1>14

LEMMA NobodyWaits ==
  ASSUME CondInit, NEW Ops, NEW Names
  PROVE  /\ CondTypeOK(Ops, Names) /\ NoneLeftOver
         /\ \A t \in Threads : op[t] = "none" /\ on[t] = "none" /\ wait[t] = "none"
<1>1. \A t \in Threads : op[t] = "none" /\ on[t] = "none" /\ wait[t] = "none"
  BY DEF CondInit
<1>2. NoneLeftOver
  BY LockAssumptions DEF CondInit, NoneLeftOver
<1>3. op \in [Threads -> Ops \cup {"none"}] /\ on \in [Threads -> Names \cup {"none"}]
  BY DEF CondInit
<1>4. wait \in [Threads -> {"none", "asleep", "signaled"} \cup Cuts]
  BY DEF CondInit
<1>5. lost \in BOOLEAN
  BY Zenon DEF CondInit
<1> QED BY <1>1, <1>2, <1>3, <1>4, <1>5 DEF CondInit, CondTypeOK

LEMMA RWStart ==
  ASSUME Init
  PROVE  RWInv
<1> USE LockAssumptions
<1> DEFINE Ops == {"read", "write", "wake"}
           Names == {"condRead", "condWrite"}
<1>1. CondInit
  BY DEF Init, Bounded!Init, Bounded!QueueInit, Bounded!CondInit, CondInit
<1>2. /\ inside = [t \in Threads |-> "none"] /\ activeReaders = 0
      /\ activeWriters = 0 /\ waitingReaders = 0 /\ waitingWriters = 0
      /\ wakes = [t \in Threads |-> "none"] /\ missed = FALSE /\ locked = None
  BY DEF Init, Biased!Init, Biased!RWInit, Fair!Init, Fair!RWInit
<1>3. \A t \in Threads : op[t] = "none" /\ on[t] = "none" /\ wait[t] = "none"
  BY <1>1, NobodyWaits
<1>4. Readers = {} /\ Writers = {} /\ Calling("read") = {} /\ Calling("write") = {}
  BY <1>2, <1>3 DEF Readers, Writers, Calling
<1>5. InsideCounted
  BY <1>2, <1>3, <1>4, FS_EmptySet DEF InsideCounted, WritersAlone, Outside
<1>6. BiasedInv
  <2>1. CondTypeOK(Ops, Names) /\ NoneLeftOver
    BY <1>1, NobodyWaits
  <2>2. BiasedWaits /\ SignalOwed
    BY <1>3 DEF BiasedWaits, SignalOwed
  <2>3. Biased!WaitingCounted
    BY <1>2, <1>4, FS_EmptySet, SameCardinality DEF Biased!WaitingCounted, Calling
  <2>4. missed \in BOOLEAN
    BY <1>2, Zenon
  <2> QED BY <1>2, <1>4, <1>5, <2>1, <2>2, <2>3, <2>4 DEF BiasedInv
<1>7. FairInv
  <2>1. CondTypeOK({"write"}, {"cond"})
    BY <1>1, NobodyWaits
  <2> QED BY <1>2, <1>5, <2>1 DEF FairInv
<1> QED BY <1>2, <1>6, <1>7 DEF RWInv

LEMMA RWNext ==
  ASSUME RWInv, [Next]_vars
  PROVE  RWInv'
<1>1. CASE object = "BiasedReadWriteLock" /\ UNCHANGED object /\ Biased!Next
  BY <1>1, BiasedStep DEF RWInv
<1>2. CASE object = "FairReadWriteLock" /\ UNCHANGED object /\ Fair!Next
  BY <1>2, FairStep DEF RWInv
<1>3. CASE object \notin {"BiasedReadWriteLock", "FairReadWriteLock"} /\ UNCHANGED <<object, inside>>
  BY <1>3 DEF RWInv
<1>4. CASE UNCHANGED <<object, condVars, rwlocks>>
  <2> USE DEF rwlocks, biased, condVars, waits
  <2>1. BiasedInv => BiasedInv'
    BY <1>4 DEF BiasedInv, CondTypeOK, NoneLeftOver, InsideCounted, WritersAlone, Outside, Readers,
       Writers, BiasedWaits, Biased!WaitingCounted, SignalOwed, OnTheWay, Expecting
  <2>2. FairInv => FairInv'
    BY <1>4 DEF FairInv, CondTypeOK, InsideCounted, WritersAlone, Outside, Readers
  <2> QED BY <1>4, <2>1, <2>2 DEF RWInv
<1> QED
  BY <1>1, <1>2, <1>3, <1>4
  DEF Next, vars, queueVars, rwlocks, LocksNext, RecursiveNext, QueueNames, OnceNames, SpinNames,
      AgainNames, MadeNames

\* A writer is alone in a read/write lock, and a fast lock has one user at a time, whoever has been
\* woken, has overtaken others or has given up in the meantime.
THEOREM EveryHolderAlone == Spec => []HoldersAlone
<1>1. Init => FastInv /\ RWInv
  BY FastStart, RWStart
<1>2. (FastInv /\ RWInv) /\ [Next]_vars => (FastInv /\ RWInv)'
  BY FastNext, RWNext
<1>3. FastInv /\ RWInv => HoldersAlone
  BY FastMeans DEF HoldersAlone, RWInv, BiasedInv, FairInv, InsideCounted, WritersAlone, Outside
<1> QED BY <1>1, <1>2, <1>3, PTL DEF Spec

-----------------------------------------------------------------------------
(* The barrier. *)

\* What a round still misses: before it is complete _count says it; after it _count is zero, and
\* with the next arrivals below zero.
Countdown ==
  \/ came < Count /\ count = Count - came
  \/ came = 0 /\ count = 0
  \/ came \in 1 .. MaxLate /\ count = Word - came

\* Who is asleep is so in the present round, and at a broken barrier only if it was deserted; who
\* has been woken was so when its round was complete or when the barrier broke, if no signal has
\* been lost.
RoundsKept ==
  \A t \in Threads :
    /\ wait[t] = "asleep" => since[t] = rounds /\ (broken => deserted)
    /\ wait[t] = "signaled" /\ ~lost /\ ~ResetsAnytime => broken \/ rounds > since[t]

BarrierInv ==
  /\ CondTypeOK({"wait"}, {"arrived"})
  /\ \A t \in Threads : (on[t] = "none" <=> wait[t] = "none") /\ (op[t] = "none" <=> wait[t] = "none")
  /\ NoneLeftOver
  /\ broken \in BOOLEAN /\ deserted \in BOOLEAN /\ came \in Nat
  /\ count \in 0 .. Count \cup Word - MaxLate .. Word - 1
  /\ ~broken => Countdown
  /\ came <= Count + MaxLate
  /\ generation \in 0 .. MaxRounds /\ rounds \in Nat
  /\ since \in [Threads -> Nat] /\ myGeneration \in [Threads -> 0 .. MaxRounds]
  /\ RoundsKept

MeetingInv ==
  /\ object = "Barrier" => BarrierInv
  /\ object # "Barrier" => broken = FALSE

LEMMA MeetingWords ==
  \A t, o, c, S :
    /\ Meeting!WaitOn(t, o, c) <=> WaitOn(t, o, c)
    /\ Meeting!Finish(t, S) <=> Finish(t, S)
    /\ Meeting!CutShort(t, c) <=> CutShort(t, c)
    /\ Meeting!ToBroadcast(t, c) = ToBroadcast(t, c)
BY DEF Meeting!WaitOn, Meeting!Begins, Meeting!Finish, Meeting!GoOn, Meeting!Reached,
   Meeting!LeftOver, Meeting!CutShort, Meeting!ToBroadcast, Meeting!Asleep, Meeting!Leaving,
   WaitOn, Begins, Finish, GoOn, Reached, LeftOver, CutShort, ToBroadcast, Asleep, Leaving

LEMMA BarrierConstants ==
  /\ Count \in Nat \ {0} /\ MaxLate \in Nat /\ MaxRounds \in Nat
  /\ Word \in Nat /\ Word > Count + MaxLate + 1 /\ ResetsAnytime \in BOOLEAN
BY ObjectsAssumption DEF Meeting!BarrierAssumption

\* _count as an unsigned int.
LEMMA CountsDown ==
  ASSUME count \in 0 .. Word - 1
  PROVE  Meeting!Decremented = IF count = 0 THEN Word - 1 ELSE count - 1
<1>1. \A n \in Nat : n < Word => (n + Word - 1) % Word = IF n = 0 THEN Word - 1 ELSE n - 1
  BY BarrierConstants
<1> QED BY <1>1, BarrierConstants DEF Meeting!Decremented

\* The threads at the barrier as one of them comes, goes or is cut short.
BarrierWaits ==
  \A t \in Threads : (on[t] = "none" <=> wait[t] = "none") /\ (op[t] = "none" <=> wait[t] = "none")

LEMMA BarrierWaitsStep ==
  ASSUME CondTypeOK({"wait"}, {"arrived"}), BarrierWaits, NoneLeftOver, NEW t \in Threads,
         \/ WaitOn(t, "wait", "arrived")
         \/ \E S \in SUBSET Threads : Finish(t, S)
         \/ \E how \in Cuts : CutShort(t, how)
  PROVE  CondTypeOK({"wait"}, {"arrived"})' /\ BarrierWaits' /\ NoneLeftOver'
<1> USE LockAssumptions
<1>1. CondTypeOK({"wait"}, {"arrived"})' /\ NoneLeftOver'
  <2>1. WaitOn(t, "wait", "arrived") => \E o \in {"wait"}, c \in {"arrived"} : WaitOn(t, o, c)
    OBVIOUS
  <2>2. CondTypeOK({"wait"}, {"arrived"})'
    BY <2>1, CondTypes
  <2>3. NoneLeftOver'
    BY <2>1, NoneLeftOverStep
  <2> QED BY <2>2, <2>3
<1>2. CASE WaitOn(t, "wait", "arrived")
  <2>1. /\ op' = [op EXCEPT ![t] = "wait"] /\ on' = [on EXCEPT ![t] = "arrived"]
        /\ wait'[t] \in {"asleep", "signaled"}
        /\ \A u \in Threads \ {t} : wait'[u] = wait[u]
    BY <1>2, Waited
  <2> QED BY <1>1, <2>1 DEF BarrierWaits, CondTypeOK
<1>3. ASSUME NEW S \in SUBSET Threads, Finish(t, S) PROVE BarrierWaits'
  <2>1. /\ op' = [op EXCEPT ![t] = "none"] /\ on' = [on EXCEPT ![t] = "none"]
        /\ wait'[t] = "none"
        /\ \A u \in Threads \ {t} :
             wait'[u] = IF u \in S /\ wait[u] = "asleep" THEN "signaled" ELSE wait[u]
    BY <1>3, Finished
  <2> QED BY <2>1 DEF BarrierWaits, CondTypeOK
<1>4. CASE \E how \in Cuts : CutShort(t, how)
  BY <1>1, <1>4 DEF CutShort, BarrierWaits, CondTypeOK
<1> QED BY <1>1, <1>2, <1>3, <1>4

LEMMA BarrierStep ==
  ASSUME BarrierInv, Meeting!Next
  PROVE  BarrierInv'
<1> USE LockAssumptions, BarrierConstants
<1> DEFINE Goal == BarrierInv'
           Places == <<count, generation, myGeneration, came, rounds, since>>
<1>1. PICK t \in Threads :
        \/ Meeting!ArriveInterrupted(t) \/ Meeting!ArriveLast(t) \/ Meeting!ArriveWait(t)
        \/ Meeting!ReturnWoken(t) \/ Meeting!ReturnInterrupted(t) \/ Meeting!ReturnTimedOut(t)
        \/ Meeting!Shatter(t) \/ Meeting!Reset(t)
        \/ \E how \in Cuts : CutShort(t, how) /\ UNCHANGED <<broken, deserted, Places>>
  BY MeetingWords DEF Meeting!Next, Meeting!barrier
<1>2. CondTypeOK({"wait"}, {"arrived"}) /\ BarrierWaits /\ NoneLeftOver /\ RoundsKept
  BY DEF BarrierInv, BarrierWaits
<1>3. Meeting!Decremented = IF count = 0 THEN Word - 1 ELSE count - 1
  BY CountsDown DEF BarrierInv
\* Who breaks the barrier by arriving or by shatter() wakes all that sleep;
<1>4. ASSUME NEW S \in ToBroadcast(t, "arrived"), Finish(t, S)
      PROVE  /\ CondTypeOK({"wait"}, {"arrived"})' /\ BarrierWaits' /\ NoneLeftOver'
             /\ (~lost' => ~lost) /\ wait'[t] = "none"
             /\ \A u \in Threads \ {t} :
                  wait'[u] = IF wait[u] = "asleep" THEN "signaled" ELSE wait[u]
  <2>1. S \in SUBSET Threads /\ Asleep("arrived") \subseteq S
    BY <1>4, Reaches
  <2>2. CondTypeOK({"wait"}, {"arrived"})' /\ BarrierWaits' /\ NoneLeftOver'
    BY <1>2, <1>4, <2>1, BarrierWaitsStep
  <2>3. /\ (~lost' => ~lost) /\ wait'[t] = "none"
        /\ \A u \in Threads \ {t} :
             wait'[u] = IF u \in S /\ wait[u] = "asleep" THEN "signaled" ELSE wait[u]
    BY <1>2, <1>4, <2>1, Finished
  <2>4. \A u \in Threads : wait[u] = "asleep" => u \in S
    BY <1>2, <2>1 DEF BarrierWaits, CondTypeOK, Asleep
  <2> QED BY <2>2, <2>3, <2>4
<1>5. CASE Meeting!ArriveInterrupted(t) \/ Meeting!Shatter(t)
  <2>1. PICK S \in ToBroadcast(t, "arrived") : Finish(t, S)
    BY <1>5, MeetingWords DEF Meeting!ArriveInterrupted, Meeting!Shatter
  <2>2. broken' = TRUE /\ UNCHANGED Places
    BY <1>5, Zenon DEF Meeting!ArriveInterrupted, Meeting!Shatter
  <2>3. RoundsKept'
    BY <1>2, <1>4, <2>1, <2>2 DEF RoundsKept
  <2>4. deserted' \in BOOLEAN
    BY <1>5, Zenon DEF Meeting!ArriveInterrupted, Meeting!Shatter, BarrierInv
  <2> QED BY <1>2, <1>4, <2>1, <2>2, <2>3, <2>4 DEF BarrierInv, BarrierWaits
\* and so does the last one, whose round is then complete.
<1>6. CASE Meeting!ArriveLast(t)
  <2>1. PICK S \in ToBroadcast(t, "arrived") : Finish(t, S)
    BY <1>6, MeetingWords DEF Meeting!ArriveLast
  <2>2. /\ ~broken /\ count = 1 /\ count' = 0 /\ generation < MaxRounds
        /\ UNCHANGED <<deserted, myGeneration, since>>
    BY <1>3, <1>6 DEF Meeting!ArriveLast, Meeting!IsLast, BarrierInv
  <2>3. came + 1 = Count
    BY <2>2 DEF BarrierInv, Countdown
  <2>4. \/ /\ generation' \in {generation, generation + 1} /\ rounds' = rounds + 1 /\ came' = 0
           /\ UNCHANGED broken
        \/ broken' = TRUE /\ UNCHANGED <<generation, came, rounds>>
    BY <1>6, <2>3 DEF Meeting!ArriveLast
  <2>5. RoundsKept'
    <3>1. broken' \/ rounds' = rounds + 1
      BY <2>4
    <3> QED BY <1>2, <1>4, <2>1, <2>2, <3>1 DEF RoundsKept, BarrierInv
  <2>6. ~broken' => Countdown'
    BY <2>2, <2>4 DEF Countdown
  <2>7. broken' \in BOOLEAN /\ deserted' \in BOOLEAN
    BY <2>2, <2>4, Zenon DEF BarrierInv
  <2>8. generation' \in 0 .. MaxRounds /\ rounds' \in Nat /\ came' \in Nat
        /\ came' <= Count + MaxLate
    BY <2>2, <2>4 DEF BarrierInv
  <2> QED BY <1>2, <1>4, <2>1, <2>2, <2>5, <2>6, <2>7, <2>8 DEF BarrierInv, BarrierWaits
\* The others wait for it.
<1>7. CASE Meeting!ArriveWait(t)
  <2>1. /\ WaitOn(t, "wait", "arrived") /\ ~broken
        /\ UNCHANGED <<broken, deserted, generation, rounds>>
        /\ came' = came + 1 /\ since' = [since EXCEPT ![t] = rounds]
        /\ myGeneration' = [myGeneration EXCEPT ![t] = generation]
        /\ count' = Meeting!Decremented /\ Meeting!Decremented # 0
        /\ Meeting!Decremented \in 1 .. Count \cup Word - MaxLate .. Word - 1
    BY <1>7, MeetingWords DEF Meeting!ArriveWait, Meeting!IsLast
  <2>2. CondTypeOK({"wait"}, {"arrived"})' /\ BarrierWaits' /\ NoneLeftOver'
    BY <1>2, <2>1, BarrierWaitsStep
  <2>3. Countdown' /\ came' <= Count + MaxLate /\ came' \in Nat
    BY <1>3, <2>1 DEF BarrierInv, Countdown
  <2>4. RoundsKept'
    <3>1. /\ lost' = lost /\ (~lost => wait'[t] = "asleep")
          /\ wait'[t] \in {"asleep", "signaled"}
          /\ \A u \in Threads \ {t} : wait'[u] = wait[u]
      BY <1>2, <2>1, Waited DEF NoneLeftOver
    <3> QED BY <1>2, <2>1, <3>1 DEF RoundsKept, BarrierInv
  <2> QED BY <2>1, <2>2, <2>3, <2>4 DEF BarrierInv, BarrierWaits
\* A wait that has ended concerns nobody else, and one that was cut short breaks the barrier.
<1>8. ASSUME Finish(t, {}), UNCHANGED Places, broken' \in BOOLEAN, deserted' \in BOOLEAN,
             broken => broken', deserted => deserted', ~broken /\ broken' => deserted'
      PROVE  Goal
  <2>1. CondTypeOK({"wait"}, {"arrived"})' /\ BarrierWaits' /\ NoneLeftOver'
    BY <1>2, <1>8, BarrierWaitsStep
  <2>2. /\ (~lost' => ~lost) /\ wait'[t] = "none"
        /\ \A u \in Threads \ {t} : wait'[u] = wait[u]
    BY <1>2, <1>8, Finished
  <2>3. RoundsKept'
    BY <1>2, <1>8, <2>2 DEF RoundsKept, BarrierInv
  <2>4. ~broken' => Countdown'
    BY <1>8 DEF BarrierInv, Countdown
  <2> QED BY <1>8, <2>1, <2>3, <2>4 DEF BarrierInv, BarrierWaits
<1>9. CASE Meeting!ReturnWoken(t)
  BY <1>8, <1>9, MeetingWords DEF Meeting!ReturnWoken, Meeting!barrier, BarrierInv
<1>10. CASE Meeting!ReturnInterrupted(t) \/ Meeting!ReturnTimedOut(t)
  <2>1. Finish(t, {}) /\ UNCHANGED Places
    BY <1>10, MeetingWords DEF Meeting!ReturnInterrupted, Meeting!ReturnTimedOut
  <2>2. /\ broken' \in BOOLEAN /\ deserted' \in BOOLEAN
        /\ (broken => broken') /\ (deserted => deserted') /\ (~broken /\ broken' => deserted')
    BY <1>10, Zenon DEF Meeting!ReturnInterrupted, Meeting!ReturnTimedOut
  <2> QED BY <1>8, <2>1, <2>2
<1>11. CASE Meeting!Reset(t)
  <2>1. /\ broken' = FALSE /\ deserted' = FALSE
        /\ generation' = generation + 1 /\ count' = Count /\ came' = 0
        /\ generation < MaxRounds /\ UNCHANGED <<myGeneration, rounds, since>>
        /\ ResetsAnytime \/ \A u \in Threads : op[u] = "none"
        /\ UNCHANGED <<op, on, wait, stale, timed, lost>>
    BY <1>11, Zenon DEF Meeting!Reset, Meeting!condVars, Meeting!waits
  <2>2. CondTypeOK({"wait"}, {"arrived"})' /\ BarrierWaits' /\ NoneLeftOver'
    BY <1>2, <2>1 DEF CondTypeOK, BarrierWaits, NoneLeftOver
  <2>3. RoundsKept'
    BY <1>2, <2>1 DEF RoundsKept, BarrierWaits
  <2>4. Countdown'
    BY <2>1 DEF Countdown
  <2>5. broken' \in BOOLEAN /\ deserted' \in BOOLEAN
    BY <2>1, Zenon
  <2>6. generation' \in 0 .. MaxRounds /\ rounds' \in Nat /\ came' \in Nat
        /\ came' <= Count + MaxLate /\ count' \in 0 .. Count
    BY <2>1 DEF BarrierInv
  <2> QED BY <2>1, <2>2, <2>3, <2>4, <2>5, <2>6 DEF BarrierInv, BarrierWaits
<1>12. CASE \E how \in Cuts : CutShort(t, how) /\ UNCHANGED <<broken, deserted, Places>>
  <2>1. CondTypeOK({"wait"}, {"arrived"})' /\ BarrierWaits' /\ NoneLeftOver'
    BY <1>2, <1>12, BarrierWaitsStep
  <2>2. /\ UNCHANGED lost /\ wait'[t] \in Cuts
        /\ \A u \in Threads \ {t} : wait'[u] = wait[u]
    BY <1>2, <1>12 DEF CutShort, CondTypeOK
  <2>3. RoundsKept'
    BY <1>2, <1>12, <2>2 DEF RoundsKept
  <2>4. ~broken' => Countdown'
    BY <1>12 DEF BarrierInv, Countdown
  <2> QED BY <1>12, <2>1, <2>3, <2>4 DEF BarrierInv, BarrierWaits
<1> QED BY <1>1, <1>5, <1>6, <1>7, <1>9, <1>10, <1>11, <1>12

-----------------------------------------------------------------------------
(* The queues. *)

\* Each operation waits on a condition of its own; not all queues have all of them.
QueueWaits ==
  /\ \A t \in Threads :
       /\ op[t] = "add" => on[t] = "notFull"
       /\ op[t] = "next" => on[t] = "notEmpty"
       /\ op[t] = "empty" => on[t] = "isEmpty"
       /\ op[t] = "none" => on[t] = "none"
       /\ on[t] = "none" <=> wait[t] = "none"
  /\ object = "BlockingQueue" => \A t \in Threads : on[t] \in {"none", "notEmpty"}
  /\ object = "LockedQueue" => \A t \in Threads : on[t] = "none"

\* Nobody sleeps for room that nobody has been woken to use.
RoomUsed ==
  object = "BoundedQueue" /\ ~lost /\ ~canceled /\ Asleep("notFull") # {}
    => MaxSize - size <= Cardinality(Signaled("notFull"))

QueueInv ==
  /\ QueueTypeOK /\ QueueWaits /\ NoneLeftOver
  /\ NoConsumerForgotten /\ EmptyIsSeen /\ RoomUsed

\* What a thread does at any of the queues: it waits,
QueueWait(t) ==
  /\ \/ /\ op[t] \in {"none", "add"} /\ size = MaxSize /\ object = "BoundedQueue"
        /\ WaitOn(t, "add", "notFull")
     \/ /\ op[t] \in {"none", "next"} /\ size = 0 /\ ~canceled
        /\ WaitOn(t, "next", "notEmpty")
     \/ /\ op[t] \in {"none", "empty"} /\ size > 0 /\ object # "BlockingQueue"
        /\ WaitOn(t, "empty", "isEmpty")
  /\ object # "LockedQueue"
  /\ UNCHANGED queue

\* adds or takes an element,
QueueAdd(t) ==
  /\ op[t] \in {"none", "add"} /\ size < MaxSize /\ ~canceled
  /\ \E S \in ToSignal(t, "notEmpty") : Finish(t, S)
  /\ size' = size + 1 /\ UNCHANGED canceled

QueueTake(t) ==
  /\ op[t] \in {"none", "next"} /\ size > 0
  /\ \E S \in SUBSET Threads :
       /\ Finish(t, S)
       /\ \A u \in S : on[u] \in {"notFull", "isEmpty"}
       /\ size = 1 => Asleep("isEmpty") \subseteq S
       /\ object = "BoundedQueue" /\ Asleep("notFull") # {} /\ (\A u \in S : wait[u] = "asleep")
            => S \cap Asleep("notFull") # {}
  /\ size' = size - 1 /\ UNCHANGED canceled

\* ends without, or cancels the queue.
QueueEnd(t) ==
  /\ canceled \/ op[t] \in {"none", "empty"} \/ wait[t] \in Cuts
  /\ Finish(t, {})
  /\ UNCHANGED queue

QueueCancel(t) ==
  /\ op[t] = "none"
  /\ \E S \in ToBroadcast(t, "notEmpty") : Finish(t, S)
  /\ canceled' = TRUE /\ UNCHANGED size

QueueMove(t) ==
  \/ QueueWait(t) \/ QueueAdd(t) \/ QueueTake(t) \/ QueueEnd(t) \/ QueueCancel(t)
  \/ \E how \in Cuts : CutShort(t, how) /\ UNCHANGED queue

\* Those that sleep and those that have been woken, as t waits or goes.
LEMMA SetsWaited ==
  ASSUME NEW Ops, NEW Names, CondTypeOK(Ops, Names), NoneLeftOver, NEW t \in Threads, NEW o, NEW c,
         WaitOn(t, o, c)
  PROVE  /\ lost' = lost
         /\ \A d : d # c => Asleep(d)' = Asleep(d) \ {t} /\ Signaled(d)' = Signaled(d) \ {t}
         /\ ~lost => Asleep(c)' = Asleep(c) \cup {t} /\ Signaled(c)' = Signaled(c) \ {t}
<1>1. /\ op' = [op EXCEPT ![t] = o] /\ on' = [on EXCEPT ![t] = c]
      /\ wait'[t] \in {"asleep", "signaled"} /\ lost' = lost
      /\ stale = {} => wait'[t] = "asleep"
      /\ \A u \in Threads \ {t} : wait'[u] = wait[u]
  BY Waited
<1>2. on'[t] = c /\ \A u \in Threads \ {t} : on'[u] = on[u]
  BY <1>1 DEF CondTypeOK
<1> QED BY <1>1, <1>2 DEF Asleep, Signaled, NoneLeftOver

LEMMA SetsFinished ==
  ASSUME NEW Ops, NEW Names, CondTypeOK(Ops, Names), NEW t \in Threads, NEW S \in SUBSET Threads,
         Finish(t, S)
  PROVE  /\ ~lost' => ~lost /\ \A u \in S : wait[u] = "asleep"
         /\ \A d : /\ Asleep(d)' = Asleep(d) \ (S \cup {t})
                   /\ Signaled(d)' = (Signaled(d) \cup (S \cap Asleep(d))) \ {t}
<1>1. /\ on' = [on EXCEPT ![t] = "none"] /\ wait'[t] = "none"
      /\ ~lost' => ~lost /\ \A u \in S : wait[u] = "asleep"
      /\ \A u \in Threads \ {t} :
           wait'[u] = IF u \in S /\ wait[u] = "asleep" THEN "signaled" ELSE wait[u]
  BY Finished
<1>2. \A u \in Threads \ {t} : on'[u] = on[u]
  BY <1>1 DEF CondTypeOK
<1> QED BY <1>1, <1>2 DEF Asleep, Signaled

\* At the other objects nobody waits at a condition.
WaitInv ==
  /\ object \in QueueNames => QueueInv
  /\ object \notin QueueNames \cup {"BiasedReadWriteLock", "FairReadWriteLock", "Barrier"}
       => \A t \in Threads : on[t] = "none"

LEMMA QueueWaitsStep ==
  ASSUME QueueInv, NEW t \in Threads, QueueMove(t), UNCHANGED object
  PROVE  QueueTypeOK' /\ QueueWaits' /\ NoneLeftOver'
<1> USE LockAssumptions, QueuesAssumption
<1> DEFINE Ops == {"add", "next", "empty"}
           Names == {"notFull", "notEmpty", "isEmpty"}
<1>1. /\ CondTypeOK(Ops, Names) /\ size \in 0 .. MaxSize /\ canceled \in BOOLEAN
      /\ QueueWaits /\ NoneLeftOver
  BY DEF QueueInv, QueueTypeOK
<1>2. ASSUME NEW o \in Ops, NEW c \in Names, WaitOn(t, o, c), object # "LockedQueue",
             <<o, c>> \in {<<"add", "notFull">>, <<"next", "notEmpty">>, <<"empty", "isEmpty">>},
             object = "BlockingQueue" => c = "notEmpty"
      PROVE  CondTypeOK(Ops, Names)' /\ QueueWaits' /\ NoneLeftOver'
  <2>1. CondTypeOK(Ops, Names)' /\ NoneLeftOver'
    BY <1>1, <1>2, CondTypes, NoneLeftOverStep
  <2>2. /\ op' = [op EXCEPT ![t] = o] /\ on' = [on EXCEPT ![t] = c]
        /\ wait'[t] \in {"asleep", "signaled"}
        /\ \A u \in Threads \ {t} : wait'[u] = wait[u]
    BY <1>1, <1>2, Waited
  <2>3. QueueWaits'
    BY <1>1, <1>2, <2>2 DEF QueueWaits, CondTypeOK
  <2> QED BY <2>1, <2>3
<1>3. ASSUME NEW S \in SUBSET Threads, Finish(t, S)
      PROVE  CondTypeOK(Ops, Names)' /\ QueueWaits' /\ NoneLeftOver'
  <2>1. CondTypeOK(Ops, Names)' /\ NoneLeftOver'
    BY <1>1, <1>3, CondTypes, NoneLeftOverStep
  <2>2. /\ op' = [op EXCEPT ![t] = "none"] /\ on' = [on EXCEPT ![t] = "none"]
        /\ wait'[t] = "none"
        /\ \A u \in Threads \ {t} :
             wait'[u] = IF u \in S /\ wait[u] = "asleep" THEN "signaled" ELSE wait[u]
    BY <1>1, <1>3, Finished
  <2>3. QueueWaits'
    BY <1>1, <2>2 DEF QueueWaits, CondTypeOK
  <2> QED BY <2>1, <2>3
<1>4. CASE QueueWait(t)
  <2>1. CondTypeOK(Ops, Names)' /\ QueueWaits' /\ NoneLeftOver'
    BY <1>2, <1>4 DEF QueueWait
  <2> QED BY <1>1, <1>4, <2>1 DEF QueueWait, QueueTypeOK, queue
<1>5. CASE QueueAdd(t) \/ QueueCancel(t)
  <2>1. PICK S \in ToSignal(t, "notEmpty") \cup ToBroadcast(t, "notEmpty") : Finish(t, S)
    BY <1>5 DEF QueueAdd, QueueCancel
  <2>2. S \in SUBSET Threads
    BY <2>1, Reaches
  <2>3. CondTypeOK(Ops, Names)' /\ QueueWaits' /\ NoneLeftOver'
    BY <1>3, <2>1, <2>2
  <2>4. size' \in 0 .. MaxSize
    BY <1>1, <1>5 DEF QueueAdd, QueueCancel
  <2>5. canceled' \in BOOLEAN
    BY <1>1, <1>5, Zenon DEF QueueAdd, QueueCancel
  <2> QED BY <2>3, <2>4, <2>5 DEF QueueTypeOK
<1>6. CASE QueueTake(t)
  <2>1. CondTypeOK(Ops, Names)' /\ QueueWaits' /\ NoneLeftOver'
    BY <1>3, <1>6 DEF QueueTake
  <2> QED BY <1>1, <1>6, <2>1 DEF QueueTake, QueueTypeOK
<1>7. CASE QueueEnd(t)
  <2>1. CondTypeOK(Ops, Names)' /\ QueueWaits' /\ NoneLeftOver'
    BY <1>3, <1>7 DEF QueueEnd
  <2> QED BY <1>1, <1>7, <2>1 DEF QueueEnd, QueueTypeOK, queue
<1>8. CASE \E how \in Cuts : CutShort(t, how) /\ UNCHANGED queue
  <2>1. CondTypeOK(Ops, Names)' /\ NoneLeftOver'
    BY <1>1, <1>8, CondTypes, NoneLeftOverStep
  <2>2. QueueWaits'
    BY <1>1, <1>8 DEF CutShort, QueueWaits, CondTypeOK
  <2> QED BY <1>1, <1>8, <2>1, <2>2 DEF QueueTypeOK, queue
<1> QED BY <1>4, <1>5, <1>6, <1>7, <1>8 DEF QueueMove

LEMMA QueueStep ==
  ASSUME QueueInv, NEW t \in Threads, QueueMove(t), UNCHANGED object
  PROVE  QueueInv'
<1> USE LockAssumptions, QueuesAssumption
<1> DEFINE Ops == {"add", "next", "empty"}
           Names == {"notFull", "notEmpty", "isEmpty"}
           Kept == NoConsumerForgotten' /\ EmptyIsSeen' /\ RoomUsed'
<1>1. /\ CondTypeOK(Ops, Names) /\ size \in 0 .. MaxSize
      /\ QueueWaits /\ NoneLeftOver /\ NoConsumerForgotten /\ EmptyIsSeen /\ RoomUsed
  BY DEF QueueInv, QueueTypeOK
<1>2. \A c : /\ Signaled(c) \in SUBSET Threads /\ Cardinality(Signaled(c)) \in Nat
             /\ Cardinality(Signaled(c) \ {t}) \in Nat
             /\ Cardinality(Signaled(c) \ {t}) >= Cardinality(Signaled(c)) - 1
             /\ t \notin Signaled(c) => Signaled(c) \ {t} = Signaled(c)
             /\ \A u \in Threads \ Signaled(c) :
                  Cardinality(Signaled(c) \cup {u}) = Cardinality(Signaled(c)) + 1
  <2> TAKE c
  <2>1. Signaled(c) \in SUBSET Threads /\ Signaled(c) \ {t} \in SUBSET Threads
    BY DEF Signaled
  <2>2. t \notin Signaled(c) => Signaled(c) \ {t} = Signaled(c)
    OBVIOUS
  <2>3. Cardinality(Signaled(c)) \in Nat /\ Cardinality(Signaled(c) \ {t}) \in Nat
    BY <2>1, Numbered
  <2>4. Cardinality(Signaled(c) \ {t}) >= Cardinality(Signaled(c)) - 1
    <3>1. t \in Signaled(c) => Cardinality(Signaled(c) \ {t}) = Cardinality(Signaled(c)) - 1
      BY <2>1, Numbered
    <3>2. t \notin Signaled(c) => Cardinality(Signaled(c) \ {t}) = Cardinality(Signaled(c))
      BY <2>2
    <3> QED BY <2>3, <3>1, <3>2
  <2>5. \A u \in Threads \ Signaled(c) :
          Cardinality(Signaled(c) \cup {u}) = Cardinality(Signaled(c)) + 1
    BY <2>1, Numbered
  <2> QED BY <2>1, <2>2, <2>3, <2>4, <2>5
<1>3. \A c \in Names : t \in Asleep(c) \cup Signaled(c) => on[t] = c
  BY DEF Asleep, Signaled
<1>4. ASSUME QueueWait(t) PROVE Kept
  <2>1. UNCHANGED <<size, canceled>>
    BY <1>4 DEF QueueWait, queue
  <2>2. PICK o \in Ops, c \in Names :
          /\ WaitOn(t, o, c) /\ on[t] \in {"none", c}
          /\ \/ c = "notFull" /\ size = MaxSize
             \/ c = "notEmpty" /\ size = 0 /\ ~canceled
             \/ c = "isEmpty" /\ size > 0
    BY <1>1, <1>4 DEF QueueWait, QueueWaits
  <2>3. /\ lost' = lost
        /\ \A d : d # c => Asleep(d)' = Asleep(d) \ {t} /\ Signaled(d)' = Signaled(d) \ {t}
        /\ ~lost => Asleep(c)' = Asleep(c) \cup {t} /\ Signaled(c)' = Signaled(c) \ {t}
    BY <1>1, <2>2, SetsWaited
  <2>4. \A d \in Names : d # c => Asleep(d)' = Asleep(d) /\ Signaled(d)' = Signaled(d)
    <3>1. \A d \in Names : d # c => t \notin Asleep(d) \cup Signaled(d)
      BY <2>2 DEF Asleep, Signaled
    <3>2. ASSUME NEW d \in Names, d # c
          PROVE  Asleep(d)' = Asleep(d) /\ Signaled(d)' = Signaled(d)
      <4>1. Asleep(d)' = Asleep(d) \ {t} /\ Signaled(d)' = Signaled(d) \ {t}
        BY <2>3, <3>2
      <4>2. t \notin Asleep(d) /\ t \notin Signaled(d)
        BY <3>1, <3>2
      <4>3. \A X : t \notin X => X \ {t} = X
        OBVIOUS
      <4> HIDE DEF Names
      <4> QED BY <4>1, <4>2, <4>3
    <3> QED BY <3>2
  <2>5. NoConsumerForgotten'
    <3>1. CASE c = "notEmpty"
      BY <1>1, <1>2, <2>1, <2>2, <2>3, <3>1 DEF NoConsumerForgotten
    <3>2. CASE c # "notEmpty"
      BY <1>1, <2>1, <2>3, <2>4, <3>2 DEF NoConsumerForgotten
    <3> QED BY <3>1, <3>2
  <2>6. EmptyIsSeen'
    BY <1>1, <2>1, <2>2, <2>4 DEF EmptyIsSeen
  <2>7. RoomUsed'
    <3>1. CASE c = "notFull"
      BY <1>1, <1>2, <2>1, <2>2, <2>3, <3>1 DEF RoomUsed
    <3>2. CASE c # "notFull"
      BY <1>1, <2>1, <2>3, <2>4, <3>2 DEF RoomUsed
    <3> QED BY <3>1, <3>2
  <2> QED BY <2>5, <2>6, <2>7
<1>5. \A S \in SUBSET Threads :
        Finish(t, S) =>
          /\ ~lost' => ~lost /\ \A u \in S : wait[u] = "asleep"
          /\ \A c : /\ Asleep(c)' = Asleep(c) \ (S \cup {t})
                    /\ Signaled(c)' = (Signaled(c) \cup (S \cap Asleep(c))) \ {t}
  BY <1>1, SetsFinished
<1>6. ASSUME QueueAdd(t) PROVE Kept
  <2>1. PICK S \in ToSignal(t, "notEmpty") : Finish(t, S)
    BY <1>6 DEF QueueAdd
  <2>2. /\ S \subseteq Threads /\ (\A u \in S : on[u] = "notEmpty") /\ (\A u, v \in S : u = v)
        /\ S = {} => Asleep("notEmpty") \subseteq {t}
    BY <2>1, Reaches
  <2>3. /\ size < MaxSize /\ ~canceled /\ size' = size + 1 /\ canceled' = canceled
        /\ on[t] \in {"none", "notFull"}
    BY <1>1, <1>6 DEF QueueAdd, QueueWaits
  <2>4. NoConsumerForgotten'
    <3>1. SUFFICES ASSUME ~lost', Asleep("notEmpty")' # {}
                   PROVE  size' <= Cardinality(Signaled("notEmpty")')
      BY <2>3 DEF NoConsumerForgotten
    <3>2. t \notin Asleep("notEmpty") \cup Signaled("notEmpty")
      BY <1>3, <2>3
    <3>3. ~lost /\ Asleep("notEmpty") # {} /\ \A u \in S : wait[u] = "asleep"
      BY <1>5, <2>1, <2>2, <3>1
    <3>4. PICK u \in S : S = {u}
      BY <2>2, <3>2, <3>3
    <3>5. u \in Threads \ Signaled("notEmpty") /\ u \in Asleep("notEmpty")
      BY <2>2, <3>3, <3>4 DEF Asleep, Signaled
    <3>6. Signaled("notEmpty")' = Signaled("notEmpty") \cup {u}
      BY <1>5, <2>1, <2>2, <3>2, <3>4, <3>5
    <3>7. size <= Cardinality(Signaled("notEmpty"))
      BY <1>1, <3>3 DEF NoConsumerForgotten
    <3>8. Cardinality(Signaled("notEmpty")') = Cardinality(Signaled("notEmpty")) + 1
      BY <1>2, <3>5, <3>6
    <3>9. Cardinality(Signaled("notEmpty")) \in Nat
      BY <1>2
    <3> QED BY <1>1, <2>3, <3>7, <3>8, <3>9
  <2>5. EmptyIsSeen'
    BY <1>1, <2>3 DEF EmptyIsSeen
  <2>6. RoomUsed'
    <3>1. SUFFICES ASSUME object = "BoundedQueue", ~lost', Asleep("notFull")' # {}
                   PROVE  MaxSize - size' <= Cardinality(Signaled("notFull")')
      BY DEF RoomUsed
    <3>2. S \cap Asleep("notFull") = {}
      BY <2>2 DEF Asleep
    <3>3. ~lost /\ Asleep("notFull") # {} /\ Signaled("notFull")' = Signaled("notFull") \ {t}
      BY <1>5, <2>1, <2>2, <3>1, <3>2
    <3>4. MaxSize - size <= Cardinality(Signaled("notFull"))
      BY <1>1, <2>3, <3>1, <3>3 DEF RoomUsed
    <3>5. Cardinality(Signaled("notFull")') >= Cardinality(Signaled("notFull")) - 1
      BY <1>2, <3>3
    <3> QED BY <1>1, <1>2, <2>3, <3>3, <3>4, <3>5
  <2> QED BY <2>4, <2>5, <2>6
<1>7. ASSUME QueueTake(t) PROVE Kept
  <2>1. PICK S \in SUBSET Threads :
          /\ Finish(t, S) /\ \A u \in S : on[u] \in {"notFull", "isEmpty"}
          /\ size = 1 => Asleep("isEmpty") \subseteq S
          /\ object = "BoundedQueue" /\ Asleep("notFull") # {} /\ (\A u \in S : wait[u] = "asleep")
               => S \cap Asleep("notFull") # {}
    BY <1>7 DEF QueueTake
  <2>2. /\ size > 0 /\ size' = size - 1 /\ canceled' = canceled /\ on[t] \in {"none", "notEmpty"}
    BY <1>1, <1>7 DEF QueueTake, QueueWaits
  <2>3. NoConsumerForgotten'
    <3>1. SUFFICES ASSUME ~lost', Asleep("notEmpty")' # {}
                   PROVE  size' <= Cardinality(Signaled("notEmpty")') /\ ~canceled'
      BY DEF NoConsumerForgotten
    <3>2. S \cap Asleep("notEmpty") = {}
      BY <2>1 DEF Asleep
    <3>3. ~lost /\ Asleep("notEmpty") # {} /\ Signaled("notEmpty")' = Signaled("notEmpty") \ {t}
      BY <1>5, <2>1, <3>1, <3>2
    <3>4. size <= Cardinality(Signaled("notEmpty")) /\ ~canceled
      BY <1>1, <3>3 DEF NoConsumerForgotten
    <3>5. Cardinality(Signaled("notEmpty")') >= Cardinality(Signaled("notEmpty")) - 1
      BY <1>2, <3>3
    <3> QED BY <1>1, <1>2, <2>2, <3>3, <3>4, <3>5
  <2>4. EmptyIsSeen'
    <3>1. Asleep("isEmpty")' # {} => ~(Asleep("isEmpty") \subseteq S)
      BY <1>5, <2>1
    <3> QED BY <1>1, <2>1, <2>2, <3>1 DEF EmptyIsSeen
  <2>5. RoomUsed'
    <3>1. SUFFICES ASSUME object = "BoundedQueue", ~lost', ~canceled', Asleep("notFull")' # {}
                   PROVE  MaxSize - size' <= Cardinality(Signaled("notFull")')
      BY DEF RoomUsed
    <3>2. ~lost /\ Asleep("notFull") # {} /\ t \notin Asleep("notFull") \cup Signaled("notFull")
      BY <1>3, <1>5, <2>1, <2>2, <3>1
    <3>3. PICK u \in S : u \in Asleep("notFull")
      <4>1. \A u \in S : wait[u] = "asleep"
        BY <1>5, <2>1, <3>1
      <4> QED BY <2>1, <3>1, <3>2, <4>1
    <3>4. u \in Threads \ Signaled("notFull")
      BY <2>1, <3>3 DEF Asleep, Signaled
    <3>5. Signaled("notFull")' = (Signaled("notFull") \cup (S \cap Asleep("notFull"))) \ {t}
      BY <1>5, <2>1
    <3>6. Signaled("notFull")' \in SUBSET Threads
      BY <2>1, <3>5 DEF Signaled
    <3>7. Signaled("notFull") \cup {u} \subseteq Signaled("notFull")'
      BY <3>2, <3>3, <3>5
    <3>8. /\ Cardinality(Signaled("notFull") \cup {u}) <= Cardinality(Signaled("notFull")')
          /\ Cardinality(Signaled("notFull")') \in Nat
      BY <3>6, <3>7, FS_Subset, FS_CardinalityType
    <3>9. MaxSize - size <= Cardinality(Signaled("notFull"))
      BY <1>1, <2>2, <3>1, <3>2 DEF RoomUsed
    <3>10. /\ Cardinality(Signaled("notFull") \cup {u}) = Cardinality(Signaled("notFull")) + 1
           /\ Cardinality(Signaled("notFull")) \in Nat
      BY <1>2, <3>4
    <3> QED BY <1>1, <2>2, <3>8, <3>9, <3>10
  <2> QED BY <2>3, <2>4, <2>5
<1>8. ASSUME QueueEnd(t) PROVE Kept
  <2>1. /\ UNCHANGED <<size, canceled>> /\ (~lost' => ~lost)
        /\ \A c : Asleep(c)' = Asleep(c) \ {t} /\ Signaled(c)' = Signaled(c) \ {t}
    BY <1>5, <1>8 DEF QueueEnd, queue
  <2>2. ~canceled => t \notin Signaled("notEmpty") \cup Signaled("notFull")
    BY <1>1, <1>8, LockAssumptions DEF QueueEnd, QueueWaits, Signaled
  <2>3. NoConsumerForgotten'
    BY <1>1, <1>2, <2>1, <2>2 DEF NoConsumerForgotten
  <2>4. EmptyIsSeen' /\ RoomUsed'
    BY <1>1, <1>2, <2>1, <2>2 DEF EmptyIsSeen, RoomUsed
  <2> QED BY <2>3, <2>4
<1>9. ASSUME QueueCancel(t) PROVE Kept
  <2>1. PICK S \in ToBroadcast(t, "notEmpty") : Finish(t, S)
    BY <1>9 DEF QueueCancel
  <2>2. S \subseteq Threads /\ Asleep("notEmpty") \subseteq S
    BY <2>1, Reaches
  <2>3. canceled' = TRUE /\ size' = size
    BY <1>9 DEF QueueCancel
  <2>4. Asleep("notEmpty")' = {} /\ Asleep("isEmpty")' \subseteq Asleep("isEmpty")
    BY <1>5, <2>1, <2>2
  <2> QED BY <1>1, <2>3, <2>4 DEF NoConsumerForgotten, EmptyIsSeen, RoomUsed
<1>10. ASSUME \E how \in Cuts : CutShort(t, how) /\ UNCHANGED queue PROVE Kept
  <2>1. /\ UNCHANGED <<lost, size, canceled>>
        /\ \A c : Asleep(c)' = Asleep(c) \ {t} /\ Signaled(c)' = Signaled(c)
    BY <1>1, <1>10 DEF CutShort, queue, Asleep, Signaled, CondTypeOK
  <2> QED BY <1>1, <2>1 DEF NoConsumerForgotten, EmptyIsSeen, RoomUsed
<1>11. Kept
  BY <1>4, <1>6, <1>7, <1>8, <1>9, <1>10 DEF QueueMove
<1> QED BY <1>11, QueueWaitsStep DEF QueueInv

\* Each of the queues moves as QueueMove() says.
LEMMA BoundedWords ==
  \A t, o, c, S :
    /\ Bounded!WaitOn(t, o, c) <=> WaitOn(t, o, c)
    /\ Bounded!Finish(t, S) <=> Finish(t, S)
    /\ Bounded!CutShort(t, c) <=> CutShort(t, c)
    /\ Bounded!ToSignal(t, c) = ToSignal(t, c)
    /\ Bounded!ToBroadcast(t, c) = ToBroadcast(t, c)
BY DEF Bounded!WaitOn, Bounded!Begins, Bounded!Finish, Bounded!GoOn, Bounded!Reached,
   Bounded!LeftOver, Bounded!CutShort, Bounded!ToSignal, Bounded!ToBroadcast, Bounded!Asleep,
   Bounded!Leaving, WaitOn, Begins, Finish, GoOn, Reached, LeftOver, CutShort, ToSignal,
   ToBroadcast, Asleep, Leaving

LEMMA MonitoredWords ==
  \A t, o, c, S :
    /\ Monitored!WaitOn(t, o, c) <=> WaitOn(t, o, c)
    /\ Monitored!Finish(t, S) <=> Finish(t, S)
    /\ Monitored!CutShort(t, c) <=> CutShort(t, c)
    /\ Monitored!ToSignal(t, c) = ToSignal(t, c)
    /\ Monitored!ToBroadcast(t, c) = ToBroadcast(t, c)
BY DEF Monitored!WaitOn, Monitored!Begins, Monitored!Finish, Monitored!GoOn, Monitored!Reached,
   Monitored!LeftOver, Monitored!CutShort, Monitored!ToSignal, Monitored!ToBroadcast,
   Monitored!Asleep, Monitored!Leaving, WaitOn, Begins, Finish, GoOn, Reached, LeftOver,
   CutShort, ToSignal, ToBroadcast, Asleep, Leaving

LEMMA BlockingWords ==
  \A t, o, c, S :
    /\ Blocking!WaitOn(t, o, c) <=> WaitOn(t, o, c)
    /\ Blocking!Finish(t, S) <=> Finish(t, S)
    /\ Blocking!CutShort(t, c) <=> CutShort(t, c)
    /\ Blocking!ToSignal(t, c) = ToSignal(t, c)
    /\ Blocking!ToBroadcast(t, c) = ToBroadcast(t, c)
BY DEF Blocking!WaitOn, Blocking!Begins, Blocking!Finish, Blocking!GoOn, Blocking!Reached,
   Blocking!LeftOver, Blocking!CutShort, Blocking!ToSignal, Blocking!ToBroadcast,
   Blocking!Asleep, Blocking!Leaving, WaitOn, Begins, Finish, GoOn, Reached, LeftOver, CutShort,
   ToSignal, ToBroadcast, Asleep, Leaving

LEMMA LockedWords ==
  \A t, o, c, S :
    /\ Locked!Finish(t, S) <=> Finish(t, S)
BY DEF Locked!Finish, Locked!GoOn, Locked!Reached, Locked!LeftOver, Finish, GoOn, Reached,
   LeftOver

LEMMA BoundedMoves ==
  ASSUME QueueInv, object = "BoundedQueue", Bounded!Next
  PROVE  \E t \in Threads : QueueMove(t)
<1> USE DEF Bounded!Enters, Bounded!EntersEmpty, Bounded!Begins, Bounded!queue, queue
<1>1. QueueWaits /\ NoneLeftOver
  BY DEF QueueInv
<1>2. PICK t \in Threads :
        \/ Bounded!Operate(t) \/ Bounded!Cancel(t)
        \/ \E how \in Cuts : Bounded!CutShort(t, how) /\ UNCHANGED queue
  BY DEF Bounded!Next
<1>3. CASE Bounded!AddWait(t) \/ Bounded!NextWait(t) \/ Bounded!EmptyWait(t)
  <2>1. QueueWait(t)
    BY <1>3, BoundedWords DEF Bounded!AddWait, Bounded!NextWait, Bounded!EmptyWait, QueueWait
  <2> QED BY <2>1 DEF QueueMove
<1>4. CASE Bounded!AddItem(t)
  BY <1>4, BoundedWords DEF Bounded!AddItem, QueueAdd, QueueMove
<1>5. CASE Bounded!NextItem(t)
  <2>1. PICK S \in ToSignal(t, "notFull"),
             A \in IF size = 1 THEN ToBroadcast(t, "isEmpty") ELSE {{}} : Finish(t, S \cup A)
    BY <1>5, BoundedWords DEF Bounded!NextItem
  <2>2. /\ op[t] \in {"none", "next"} /\ size > 0 /\ size' = size - 1 /\ UNCHANGED canceled
        /\ on[t] \in {"none", "notEmpty"}
    BY <1>1, <1>5 DEF Bounded!NextItem, QueueWaits
  <2>3. /\ S \subseteq Threads /\ \A u \in S : on[u] = "notFull"
        /\ S = {} => Asleep("notFull") \subseteq {t}
    BY <2>1, Reaches
  <2>4. /\ A \subseteq Threads /\ \A u \in A : on[u] = "isEmpty"
        /\ size = 1 => Asleep("isEmpty") \subseteq A
    <3>1. CASE size = 1
      BY <2>1, <3>1, Reaches
    <3>2. CASE size # 1
      BY <2>1, <3>2
    <3> QED BY <3>1, <3>2
  <2>5. Asleep("notFull") # {} /\ (\A u \in S \cup A : wait[u] = "asleep")
          => (S \cup A) \cap Asleep("notFull") # {}
    <3>1. t \notin Asleep("notFull")
      BY <2>2 DEF Asleep
    <3> QED BY <2>3, <3>1 DEF Asleep
  <2>6. /\ S \cup A \in SUBSET Threads /\ \A u \in S \cup A : on[u] \in {"notFull", "isEmpty"}
        /\ size = 1 => Asleep("isEmpty") \subseteq S \cup A
    BY <2>3, <2>4
  <2>7. QueueTake(t)
    BY <2>1, <2>2, <2>5, <2>6 DEF QueueTake
  <2> QED BY <2>7 DEF QueueMove
<1>6. CASE Bounded!AddCanceled(t) \/ Bounded!NextCanceled(t) \/ Bounded!EmptySeen(t)
           \/ Bounded!Abandon(t)
  <2>1. QueueEnd(t)
    BY <1>6, BoundedWords
    DEF Bounded!AddCanceled, Bounded!NextCanceled, Bounded!EmptySeen, Bounded!Abandon,
        Bounded!GiveUp, QueueEnd
  <2> QED BY <2>1 DEF QueueMove
<1>7. CASE Bounded!Cancel(t)
  BY <1>7, BoundedWords DEF Bounded!Cancel, QueueCancel, QueueMove
<1>8. CASE \E how \in Cuts : Bounded!CutShort(t, how) /\ UNCHANGED queue
  BY <1>8, BoundedWords DEF QueueMove
<1> QED BY <1>2, <1>3, <1>4, <1>5, <1>6, <1>7, <1>8 DEF Bounded!Operate

LEMMA MonitoredMoves ==
  ASSUME QueueInv, object = "MonitoredQueue", Monitored!Next
  PROVE  \E t \in Threads : QueueMove(t)
<1> USE DEF Monitored!Enters, Monitored!EntersEmpty, Monitored!Begins, Monitored!queue, queue
<1>1. QueueWaits /\ NoneLeftOver
  BY DEF QueueInv
<1>2. PICK t \in Threads :
        \/ Monitored!Operate(t) \/ Monitored!Cancel(t)
        \/ \E how \in Cuts : Monitored!CutShort(t, how) /\ UNCHANGED queue
  BY DEF Monitored!Next
<1>3. CASE Monitored!NextWait(t) \/ Monitored!EmptyWait(t)
  <2>1. QueueWait(t)
    BY <1>3, MonitoredWords DEF Monitored!NextWait, Monitored!EmptyWait, QueueWait
  <2> QED BY <2>1 DEF QueueMove
<1>4. CASE Monitored!AddItem(t)
  BY <1>4, MonitoredWords DEF Monitored!AddItem, QueueAdd, QueueMove
<1>5. CASE Monitored!NextItem(t)
  <2>1. PICK A \in IF size = 1 THEN ToBroadcast(t, "isEmpty") ELSE {{}} : Finish(t, A)
    BY <1>5, MonitoredWords DEF Monitored!NextItem
  <2>2. op[t] \in {"none", "next"} /\ size > 0 /\ size' = size - 1 /\ UNCHANGED canceled
    BY <1>5 DEF Monitored!NextItem
  <2>3. /\ A \subseteq Threads /\ \A u \in A : on[u] = "isEmpty"
        /\ size = 1 => Asleep("isEmpty") \subseteq A
    <3>1. CASE size = 1
      BY <2>1, <3>1, Reaches
    <3>2. CASE size # 1
      BY <2>1, <3>2
    <3> QED BY <3>1, <3>2
  <2>4. QueueTake(t)
    BY <2>1, <2>2, <2>3 DEF QueueTake
  <2> QED BY <2>4 DEF QueueMove
<1>6. CASE Monitored!AddCanceled(t) \/ Monitored!NextCanceled(t) \/ Monitored!EmptySeen(t)
           \/ Monitored!Abandon(t)
  <2>1. QueueEnd(t)
    BY <1>6, MonitoredWords
    DEF Monitored!AddCanceled, Monitored!NextCanceled, Monitored!EmptySeen, Monitored!Abandon,
        Monitored!GiveUp, QueueEnd
  <2> QED BY <2>1 DEF QueueMove
<1>7. CASE Monitored!Cancel(t)
  BY <1>7, MonitoredWords DEF Monitored!Cancel, QueueCancel, QueueMove
<1>8. CASE \E how \in Cuts : Monitored!CutShort(t, how) /\ UNCHANGED queue
  BY <1>8, MonitoredWords DEF QueueMove
<1> QED BY <1>2, <1>3, <1>4, <1>5, <1>6, <1>7, <1>8 DEF Monitored!Operate

LEMMA BlockingMoves ==
  ASSUME QueueInv, object = "BlockingQueue", Blocking!Next
  PROVE  \E t \in Threads : QueueMove(t)
<1> USE DEF Blocking!Enters, Blocking!Begins, Blocking!queue, queue
<1>1. QueueWaits /\ NoneLeftOver
  BY DEF QueueInv
<1>2. PICK t \in Threads :
        \/ Blocking!Operate(t) \/ Blocking!Cancel(t)
        \/ \E how \in Cuts : Blocking!CutShort(t, how) /\ UNCHANGED queue
  BY DEF Blocking!Next
<1>3. CASE Blocking!NextWait(t)
  <2>1. QueueWait(t)
    BY <1>3, BlockingWords DEF Blocking!NextWait, QueueWait
  <2> QED BY <2>1 DEF QueueMove
<1>4. CASE Blocking!AddItem(t)
  BY <1>4, BlockingWords DEF Blocking!AddItem, QueueAdd, QueueMove
<1>5. CASE Blocking!NextItem(t)
  <2>1. /\ op[t] \in {"none", "next"} /\ size > 0 /\ size' = size - 1 /\ UNCHANGED canceled
        /\ Finish(t, {})
    BY <1>5, BlockingWords DEF Blocking!NextItem
  <2>2. Asleep("isEmpty") = {}
    BY <1>1 DEF Asleep, QueueWaits
  <2>3. QueueTake(t)
    BY <2>1, <2>2 DEF QueueTake
  <2> QED BY <2>3 DEF QueueMove
<1>6. CASE Blocking!AddCanceled(t) \/ Blocking!NextCanceled(t) \/ Blocking!GiveUp(t, "next")
  <2>1. QueueEnd(t)
    BY <1>6, BlockingWords
    DEF Blocking!AddCanceled, Blocking!NextCanceled, Blocking!GiveUp, QueueEnd
  <2> QED BY <2>1 DEF QueueMove
<1>7. CASE Blocking!Cancel(t)
  BY <1>7, BlockingWords DEF Blocking!Cancel, QueueCancel, QueueMove
<1>8. CASE \E how \in Cuts : Blocking!CutShort(t, how) /\ UNCHANGED queue
  BY <1>8, BlockingWords DEF QueueMove
<1> QED BY <1>2, <1>3, <1>4, <1>5, <1>6, <1>7, <1>8 DEF Blocking!Operate

LEMMA LockedMoves ==
  ASSUME QueueInv, object = "LockedQueue", Locked!Next
  PROVE  \E t \in Threads : QueueMove(t)
<1> USE DEF Locked!Begins
<1>1. \A c : c # "none" => Asleep(c) = {}
  BY DEF QueueInv, QueueWaits, Asleep
<1>2. PICK t \in Threads : Locked!AddItem(t) \/ Locked!NextItem(t) \/ Locked!Cancel(t)
  BY DEF Locked!Next
<1>3. {} \in ToSignal(t, "notEmpty") /\ {} \in ToBroadcast(t, "notEmpty")
  <2>1. {} \in SUBSET (Leaving("notEmpty") \ {t})
    OBVIOUS
  <2> QED BY <1>1, <2>1 DEF ToSignal, ToBroadcast
<1>4. CASE Locked!AddItem(t)
  <2>1. QueueAdd(t)
    BY <1>3, <1>4, LockedWords DEF Locked!AddItem, QueueAdd
  <2> QED BY <2>1 DEF QueueMove
<1>5. CASE Locked!NextItem(t)
  <2>1. QueueTake(t)
    BY <1>1, <1>5, LockedWords DEF Locked!NextItem, QueueTake
  <2> QED BY <2>1 DEF QueueMove
<1>6. CASE Locked!Cancel(t)
  <2>1. QueueCancel(t)
    BY <1>3, <1>6, LockedWords DEF Locked!Cancel, QueueCancel
  <2> QED BY <2>1 DEF QueueMove
<1> QED BY <1>2, <1>4, <1>5, <1>6

-----------------------------------------------------------------------------
(* One object after the other: the threads of a queue and of a barrier are left alone by the *)
(* others' steps. *)

LEMMA WaitsStart ==
  ASSUME Init
  PROVE  WaitInv /\ MeetingInv
<1> USE BarrierConstants, QueuesAssumption
<1>1. CondInit
  BY DEF Init, Bounded!Init, Bounded!QueueInit, Bounded!CondInit, CondInit
<1>2. \A t \in Threads : op[t] = "none" /\ on[t] = "none" /\ wait[t] = "none"
  BY <1>1, NobodyWaits
<1>3. QueueInv
  <2>1. /\ CondTypeOK({"add", "next", "empty"}, {"notFull", "notEmpty", "isEmpty"})
        /\ NoneLeftOver
    BY <1>1, NobodyWaits
  <2>2. size = 0 /\ canceled = FALSE
    BY DEF Init, Bounded!Init, Bounded!QueueInit
  <2>3. canceled \in BOOLEAN
    BY <2>2, Zenon
  <2>4. \A c : c # "none" => Asleep(c) = {}
    BY <1>2 DEF Asleep
  <2> QED
    BY <1>2, <2>1, <2>2, <2>3, <2>4
    DEF QueueInv, QueueTypeOK, QueueWaits, NoConsumerForgotten, EmptyIsSeen, RoomUsed
<1>4. /\ broken = FALSE /\ deserted = FALSE
      /\ count = Count /\ generation = 0 /\ came = 0 /\ rounds = 0
      /\ myGeneration = [t \in Threads |-> 0] /\ since = [t \in Threads |-> 0]
  BY DEF Init, Meeting!Init
<1>5. BarrierInv
  <2>1. CondTypeOK({"wait"}, {"arrived"}) /\ NoneLeftOver
    BY <1>1, NobodyWaits
  <2>2. broken \in BOOLEAN /\ deserted \in BOOLEAN
    BY <1>4, Zenon
  <2>3. RoundsKept /\ Countdown
    BY <1>2, <1>4 DEF RoundsKept, Countdown
  <2>4. /\ myGeneration \in [Threads -> 0 .. MaxRounds] /\ since \in [Threads -> Nat]
        /\ count \in 0 .. Count /\ came \in Nat /\ came <= Count + MaxLate
        /\ generation \in 0 .. MaxRounds /\ rounds \in Nat
    BY <1>4
  <2> QED BY <1>2, <2>1, <2>2, <2>3, <2>4 DEF BarrierInv
<1> QED BY <1>2, <1>3, <1>4, <1>5 DEF WaitInv, MeetingInv

LEMMA WaitsNext ==
  ASSUME WaitInv, MeetingInv, [Next]_vars
  PROVE  WaitInv' /\ MeetingInv'
<1> USE DEF QueueNames
<1>1. ASSUME UNCHANGED <<object, queue, condVars>> PROVE WaitInv'
  BY <1>1
  DEF WaitInv, queue, condVars, waits, QueueInv, QueueTypeOK, CondTypeOK, QueueWaits, NoneLeftOver,
      NoConsumerForgotten, EmptyIsSeen, RoomUsed, Asleep, Signaled
<1>2. ASSUME UNCHANGED <<object, barrier, condVars>> PROVE MeetingInv'
  BY <1>2
  DEF MeetingInv, barrier, condVars, waits, BarrierInv, CondTypeOK, NoneLeftOver, Countdown,
      RoundsKept
<1>3. CASE object \in QueueNames /\ UNCHANGED <<object, barrier>> /\ \E t \in Threads : QueueMove(t)
  <2>1. QueueInv'
    BY <1>3, QueueStep DEF WaitInv
  <2> QED BY <1>3, <2>1 DEF WaitInv, MeetingInv, barrier
<1>4. CASE object = "Barrier" /\ Meeting!Next /\ UNCHANGED object
  BY <1>4, BarrierStep DEF WaitInv, MeetingInv
<1>5. CASE /\ object \in {"BiasedReadWriteLock", "FairReadWriteLock"}
           /\ UNCHANGED <<object, barrier>>
  BY <1>5 DEF WaitInv, MeetingInv, barrier
<1>6. CASE UNCHANGED <<object, queueVars, barrier>>
  BY <1>1, <1>2, <1>6 DEF queueVars
<1>7. CASE /\ \/ object = "BoundedQueue" /\ Bounded!Next
              \/ object = "MonitoredQueue" /\ Monitored!Next
              \/ object = "BlockingQueue" /\ Blocking!Next
              \/ object = "LockedQueue" /\ Locked!Next
           /\ UNCHANGED <<object, barrier>>
  <2>1. QueueInv
    BY <1>7 DEF WaitInv
  <2>2. \E t \in Threads : QueueMove(t)
    BY <1>7, <2>1, BoundedMoves, MonitoredMoves, BlockingMoves, LockedMoves
  <2> QED BY <1>3, <1>7, <2>2
<1> QED BY <1>4, <1>5, <1>6, <1>7 DEF Next, vars, queueVars

\* Nobody sleeps on at a queue, a read/write lock, a barrier or a recursive lock when there is what
\* it waits for and nobody else has been woken to take it.
THEOREM NobodyIsForgotten == Spec => []NobodyForgotten
<1> DEFINE Inv == FastInv /\ RWInv /\ WaitInv /\ MeetingInv
<1>1. Init => Inv
  BY FastStart, RWStart, WaitsStart
<1>2. Inv /\ [Next]_vars => Inv'
  BY FastNext, RWNext, WaitsNext
<1>3. ASSUME Inv PROVE NobodyForgotten
  <2> USE DEF QueueNames
  <2>1. /\ object \notin QueueNames => Asleep("notEmpty") = {} /\ Asleep("isEmpty") = {}
        /\ object # "Barrier" => Asleep("arrived") = {}
    <3>1. \A t \in Threads :
            /\ object \notin QueueNames => on[t] \notin {"notEmpty", "isEmpty"}
            /\ object # "Barrier" => on[t] # "arrived"
      BY <1>3
      DEF WaitInv, RWInv, MeetingInv, QueueInv, BiasedInv, FairInv, BarrierInv, QueueTypeOK,
          CondTypeOK
    <3> QED BY <3>1 DEF Asleep
  <2>2. NoConsumerForgotten /\ EmptyIsSeen
    <3>1. CASE object \in QueueNames
      BY <1>3, <3>1 DEF WaitInv, QueueInv
    <3>2. CASE object \notin QueueNames
      BY <2>1, <3>2 DEF NoConsumerForgotten, EmptyIsSeen
    <3> QED BY <3>1, <3>2
  <2>3. object = "BoundedQueue" => Bounded!NoProducerForgotten
    BY <1>3, SameCardinality
    DEF WaitInv, QueueInv, RoomUsed, Bounded!NoProducerForgotten, Bounded!Asleep, Bounded!Signaled,
        Asleep, Signaled
  <2>4. object = "BiasedReadWriteLock" => Biased!WaitingCounted /\ Biased!NobodyForgotten
    BY <1>3 DEF RWInv, BiasedInv, SignalOwed, OnTheWay, Biased!NobodyForgotten, Biased!Outside, Outside
  <2>5. Meeting!BrokenWakesAll /\ Meeting!CompleteWakesAll
    <3>1. Meeting!Asleep("arrived") = Asleep("arrived")
      BY DEF Meeting!Asleep, Asleep
    <3>2. CASE object = "Barrier"
      BY <1>3, <3>1, <3>2
      DEF MeetingInv, BarrierInv, RoundsKept, Asleep, Meeting!BrokenWakesAll,
          Meeting!CompleteWakesAll
    <3>3. CASE object # "Barrier"
      BY <2>1, <3>1, <3>3 DEF Meeting!BrokenWakesAll, Meeting!CompleteWakesAll
    <3> QED BY <3>2, <3>3
  <2>6. Recursive!SleepersWoken
    <3>1. object # "ConditionRecursiveLock" => \A t \in Threads : at[t] # "asleep"
      BY <1>3
      DEF FastInv, OnceNames, SpinNames, AgainNames, MadeNames, SystemNames, CountedDown,
          SystemOwned, FlagOwned, DualOwned, SimplyOwned, WordOwned, OneBit, LockTypes
    <3>2. object = "ConditionRecursiveLock" => Recursive!SleepersWoken
      BY <1>3 DEF FastInv, SignalOwned
    <3> QED BY <3>1, <3>2 DEF Recursive!SleepersWoken
  <2> QED BY <2>2, <2>3, <2>4, <2>5, <2>6 DEF NobodyForgotten
<1> QED BY <1>1, <1>2, <1>3, PTL DEF Spec

\* Who leaves an unbroken barrier has been met by Count threads since it came, if reset() is called
\* only when nobody is in wait().
THEOREM NobodyLeavesEarly ==
  ASSUME ~ResetsAnytime
  PROVE  Spec => []NobodyPassesEarly
<1> DEFINE Inv == RWInv /\ WaitInv /\ MeetingInv
<1>1. Init => Inv
  BY RWStart, WaitsStart
<1>2. Inv /\ [Next]_vars => Inv'
  BY RWNext, WaitsNext
<1>3. ASSUME Inv PROVE NobodyPassesEarly
  <2> USE DEF QueueNames
  <2>1. Meeting!Signaled("arrived") = {t \in Threads : on[t] = "arrived" /\ wait[t] = "signaled"}
    BY DEF Meeting!Signaled
  <2>2. CASE object = "Barrier"
    BY <1>3, <2>1, <2>2
    DEF MeetingInv, BarrierInv, RoundsKept, NobodyPassesEarly, Meeting!NobodyPassesEarly
  <2>3. CASE object # "Barrier"
    <3>1. \A t \in Threads : on[t] # "arrived"
      BY <1>3, <2>3
      DEF WaitInv, RWInv, QueueInv, BiasedInv, FairInv, QueueTypeOK, CondTypeOK
    <3> QED BY <2>1, <3>1 DEF NobodyPassesEarly, Meeting!NobodyPassesEarly
  <2> QED BY <2>2, <2>3
<1> QED BY <1>1, <1>2, <1>3, PTL DEF Spec

-----------------------------------------------------------------------------
(* Guards. *)

GuardRecords == [lock : Locks, policy : Scoped!Policies, enabled : BOOLEAN]

\* Whether of the first n of a thread's Guards the innermost for l has locked it.
About(g, l)     == g.enabled /\ g.lock = l
LockedBy(s, l, n) ==
  \E i \in 1 .. n :
    /\ About(s[i], l) /\ s[i].policy # "UnlockedScope"
    /\ \A j \in i + 1 .. n : ~About(s[j], l)

\* The Guards for one lock take turns: one locks what those below it have not locked, and an
\* UnlockedScope gives up what they have.
TakeTurns(s) ==
  \A i \in 1 .. Len(s) :
    /\ s[i].policy = "UnlockedScope" => s[i].enabled
    /\ s[i].enabled => (s[i].policy = "UnlockedScope" <=> LockedBy(s, s[i].lock, i - 1))

\* t has l if its Guards say so, or it has been refused it.
HasRightly(t, l) ==
  /\ holders[l] = t => LockedBy(guards[t], l, Len(guards[t]))
  /\ LockedBy(guards[t], l, Len(guards[t])) => holders[l] = t \/ (t \in unguarded /\ l \in Checked)

\* Between the two steps of a hand over it has one lock more.
HandsOver(t) ==
  LET s == guards[t]
      i == passing[t]
  IN /\ i \in 1 .. Len(s) /\ s[i].enabled /\ s[i].policy # "UnlockedScope" /\ Len(s) < MaxGuards
     /\ \A j \in i + 1 .. Len(s) : ~About(s[j], s[i].lock)
     /\ \E k \in Locks :
          /\ holders[k] = t /\ ~LockedBy(s, k, Len(s))
          /\ \A l \in Locks \ {k} : HasRightly(t, l)

GuardInv ==
  /\ guards \in [GuardThreads -> Seq(GuardRecords)]
  /\ \A t \in GuardThreads : Len(guards[t]) <= MaxGuards
  /\ holders \in [Locks -> GuardThreads \cup {None}]
  /\ passing \in [GuardThreads -> 0 .. MaxGuards]
  /\ unguarded \subseteq GuardThreads
  /\ \A t \in GuardThreads :
       /\ TakeTurns(guards[t])
       /\ IF passing[t] = 0 THEN \A l \in Locks : HasRightly(t, l) ELSE HandsOver(t)

LEMMA LocksNextGuard ==
  ASSUME NEW s, NEW n \in Nat, NEW l
  PROVE  LockedBy(s, l, n + 1)
           <=> IF About(s[n + 1], l) THEN s[n + 1].policy # "UnlockedScope" ELSE LockedBy(s, l, n)
<1>1. CASE About(s[n + 1], l)
  <2>1. \A i \in 1 .. n : n + 1 \in i + 1 .. n + 1
    OBVIOUS
  <2>2. n + 1 \in 1 .. n + 1 /\ \A j : j \notin n + 2 .. n + 1
    OBVIOUS
  <2>3. (n + 1) + 1 = n + 2 /\ \A i \in 1 .. n + 1 : i = n + 1 \/ i \in 1 .. n
    OBVIOUS
  <2> QED BY <1>1, <2>1, <2>2, <2>3 DEF LockedBy
<1>2. CASE ~About(s[n + 1], l)
  <2>1. \A i \in 1 .. n + 1 : i = n + 1 \/ i \in 1 .. n
    OBVIOUS
  <2>2. \A i \in 1 .. n : i \in 1 .. n + 1 /\ \A j \in i + 1 .. n + 1 : j = n + 1 \/ j \in i + 1 .. n
    OBVIOUS
  <2>3. \A i \in 1 .. n : \A j \in i + 1 .. n : j \in i + 1 .. n + 1
    OBVIOUS
  <2> QED BY <1>2, <2>1, <2>2, <2>3 DEF LockedBy
<1> QED BY <1>1, <1>2

LEMMA LocksAgree ==
  ASSUME NEW s, NEW r, NEW n \in Nat, \A i \in 1 .. n : r[i] = s[i], NEW l
  PROVE  LockedBy(r, l, n) <=> LockedBy(s, l, n)
<1>1. \A i \in 1 .. n : \A j \in i + 1 .. n : j \in 1 .. n
  OBVIOUS
<1> QED BY <1>1 DEF LockedBy

\* The Guards of a thread that makes one more,
LEMMA GuardMade ==
  ASSUME NEW s \in Seq(GuardRecords), TakeTurns(s), NEW g \in GuardRecords, g.enabled,
         g.policy = "UnlockedScope" <=> LockedBy(s, g.lock, Len(s))
  PROVE  /\ Append(s, g) \in Seq(GuardRecords) /\ Len(Append(s, g)) = Len(s) + 1
         /\ TakeTurns(Append(s, g))
         /\ \A l : LockedBy(Append(s, g), l, Len(Append(s, g)))
                     <=> IF l = g.lock THEN g.policy # "UnlockedScope" ELSE LockedBy(s, l, Len(s))
<1> DEFINE r == Append(s, g)
           n == Len(s)
<1>1. n \in Nat /\ r \in Seq(GuardRecords) /\ Len(r) = n + 1 /\ r[n + 1] = g
      /\ \A i \in 1 .. n : r[i] = s[i]
  OBVIOUS
<1> HIDE DEF r, n
<1>2. \A i \in 1 .. n + 1 : \A l : LockedBy(r, l, i - 1) <=> LockedBy(s, l, i - 1)
  <2> TAKE i \in 1 .. n + 1
  <2> TAKE l
  <2>1. i - 1 \in Nat /\ \A j \in 1 .. i - 1 : r[j] = s[j]
    BY <1>1
  <2> QED BY <2>1, LocksAgree
<1>3. TakeTurns(r)
  <2> SUFFICES ASSUME NEW i \in 1 .. n + 1
               PROVE  /\ r[i].policy = "UnlockedScope" => r[i].enabled
                      /\ r[i].enabled =>
                           (r[i].policy = "UnlockedScope" <=> LockedBy(r, r[i].lock, i - 1))
    BY <1>1 DEF TakeTurns
  <2>1. LockedBy(r, r[i].lock, i - 1) <=> LockedBy(s, r[i].lock, i - 1)
    BY <1>2
  <2>2. CASE i = n + 1
    <3>1. i - 1 = n
      BY <1>1, <2>2
    <3> QED BY <1>1, <2>1, <2>2, <3>1 DEF n
  <2>3. CASE i # n + 1
    <3>1. i \in 1 .. n /\ r[i] = s[i]
      BY <1>1, <2>3
    <3> QED BY <2>1, <3>1 DEF TakeTurns, n
  <2> QED BY <2>2, <2>3
<1>4. \A l : LockedBy(r, l, n + 1) <=> IF l = g.lock THEN g.policy # "UnlockedScope" ELSE LockedBy(s, l, n)
  <2> TAKE l
  <2>1. LockedBy(r, l, n) <=> LockedBy(s, l, n)
    BY <1>1, LocksAgree
  <2>2. About(r[n + 1], l) <=> l = g.lock
    BY <1>1 DEF About
  <2> QED BY <1>1, <2>1, <2>2, LocksNextGuard
<1> QED BY <1>1, <1>3, <1>4 DEF r, n

\* that destroys the innermost one
LEMMA GuardGone ==
  ASSUME NEW s \in Seq(GuardRecords), s # <<>>, TakeTurns(s)
  PROVE  /\ Scoped!Last(s) \in GuardRecords
         /\ Scoped!Front(s) \in Seq(GuardRecords) /\ Len(Scoped!Front(s)) = Len(s) - 1
         /\ TakeTurns(Scoped!Front(s))
         /\ Scoped!Last(s).policy = "UnlockedScope" => Scoped!Last(s).enabled
         /\ \A l : /\ LockedBy(Scoped!Front(s), l, Len(Scoped!Front(s)))
                        <=> IF About(Scoped!Last(s), l) THEN Scoped!Last(s).policy = "UnlockedScope"
                            ELSE LockedBy(s, l, Len(s))
                   /\ About(Scoped!Last(s), l)
                        => (LockedBy(s, l, Len(s)) <=> Scoped!Last(s).policy # "UnlockedScope")
<1> DEFINE r == Scoped!Front(s)
           g == Scoped!Last(s)
           n == Len(s)
<1>1. n \in Nat /\ n > 0
  OBVIOUS
<1>2. r \in Seq(GuardRecords) /\ Len(r) = n - 1 /\ \A i \in 1 .. n - 1 : r[i] = s[i]
  <2>1. \A i \in 1 .. n - 1 : s[i] \in GuardRecords
    BY <1>1
  <2>2. r = SubSeq(s, 1, n - 1)
    BY DEF Scoped!Front
  <2> HIDE DEF r
  <2>3. /\ r \in Seq(GuardRecords) /\ Len(r) = IF 1 <= n - 1 THEN n - 1 - 1 + 1 ELSE 0
        /\ \A i \in 1 .. n - 1 - 1 + 1 : r[i] = s[1 + i - 1]
    BY <1>1, <2>1, <2>2, SubSeqProperties
  <2> HIDE DEF n
  <2>4. \A i \in 1 .. n - 1 : i \in 1 .. n - 1 - 1 + 1 /\ 1 + i - 1 = i
    BY <1>1
  <2>5. \A i \in 1 .. n - 1 : r[i] = s[i]
    BY <2>3, <2>4
  <2>6. Len(r) = n - 1
    BY <1>1, <2>3
  <2> QED BY <2>3, <2>5, <2>6
<1>3. g = s[n] /\ g \in GuardRecords
  BY <1>1 DEF Scoped!Last
<1> HIDE DEF r, g, n
<1>4. \A i \in 1 .. n : \A l : LockedBy(r, l, i - 1) <=> LockedBy(s, l, i - 1)
  <2> TAKE i \in 1 .. n
  <2> TAKE l
  <2>1. i - 1 \in Nat /\ \A j \in 1 .. i - 1 : r[j] = s[j]
    BY <1>1, <1>2
  <2> QED BY <2>1, LocksAgree
<1>5. TakeTurns(r)
  <2> SUFFICES ASSUME NEW i \in 1 .. n - 1
               PROVE  /\ r[i].policy = "UnlockedScope" => r[i].enabled
                      /\ r[i].enabled =>
                           (r[i].policy = "UnlockedScope" <=> LockedBy(r, r[i].lock, i - 1))
    BY <1>2 DEF TakeTurns
  <2>1. i \in 1 .. n /\ r[i] = s[i]
    BY <1>1, <1>2
  <2> QED BY <1>4, <2>1 DEF TakeTurns, n
<1>6. /\ g.policy = "UnlockedScope" => g.enabled
      /\ g.enabled => (g.policy = "UnlockedScope" <=> LockedBy(r, g.lock, n - 1))
  <2>1. n \in 1 .. n
    BY <1>1
  <2> QED BY <1>3, <1>4, <2>1 DEF TakeTurns, n
<1>7. \A l : /\ LockedBy(r, l, n - 1)
                  <=> IF About(g, l) THEN g.policy = "UnlockedScope" ELSE LockedBy(s, l, n)
             /\ About(g, l) => (LockedBy(s, l, n) <=> g.policy # "UnlockedScope")
  <2> TAKE l
  <2>1. n - 1 \in Nat /\ (n - 1) + 1 = n /\ n \in 1 .. n
    BY <1>1
  <2>2. LockedBy(s, l, n) <=> IF About(s[n], l) THEN s[n].policy # "UnlockedScope" ELSE LockedBy(s, l, n - 1)
    BY <2>1, LocksNextGuard
  <2>3. LockedBy(r, l, n - 1) <=> LockedBy(s, l, n - 1)
    BY <1>4, <2>1
  <2>4. About(g, l) => g.enabled /\ l = g.lock
    BY DEF About
  <2> QED BY <1>3, <1>6, <2>2, <2>3, <2>4
<1> QED BY <1>2, <1>3, <1>5, <1>6, <1>7 DEF r, g, n

\* or disables the one by which it has its lock.
LEMMA GuardDisabled ==
  ASSUME NEW s \in Seq(GuardRecords), TakeTurns(s), NEW i \in 1 .. Len(s),
         s[i].enabled, s[i].policy # "UnlockedScope",
         \A j \in i + 1 .. Len(s) : ~About(s[j], s[i].lock)
  PROVE  LET r == [s EXCEPT ![i].enabled = FALSE]
         IN /\ r \in Seq(GuardRecords) /\ Len(r) = Len(s) /\ TakeTurns(r)
            /\ LockedBy(s, s[i].lock, Len(s))
            /\ \A l : LockedBy(r, l, Len(s)) <=> l # s[i].lock /\ LockedBy(s, l, Len(s))
<1> DEFINE r == [s EXCEPT ![i].enabled = FALSE]
           n == Len(s)
           m == s[i].lock
<1>1. n \in Nat /\ \A j \in 1 .. n : s[j] \in GuardRecords
  OBVIOUS
<1>2. /\ r \in Seq(GuardRecords) /\ Len(r) = n
      /\ \A j \in 1 .. n : j # i => r[j] = s[j]
      /\ r[i].enabled = FALSE /\ r[i].policy = s[i].policy /\ r[i].lock = m
  <2> DEFINE d == [s[i] EXCEPT !.enabled = FALSE]
  <2>1. s[i] \in GuardRecords
    BY <1>1
  <2>2. /\ d \in GuardRecords
        /\ d.enabled = FALSE /\ d.policy = s[i].policy /\ d.lock = m
    BY <2>1 DEF GuardRecords
  <2>3. r = [s EXCEPT ![i] = d]
    OBVIOUS
  <2> HIDE DEF r, d
  <2> QED BY <2>2, <2>3
<1> HIDE DEF r
<1>3. \A k \in 0 .. n : \A l : l # m => (LockedBy(r, l, k) <=> LockedBy(s, l, k))
  <2> TAKE k \in 0 .. n
  <2> TAKE l
  <2> HAVE l # m
  <2>1. \A j \in 1 .. n : /\ About(r[j], l) <=> About(s[j], l)
                          /\ About(s[j], l) => r[j] = s[j]
    BY <1>2 DEF About
  <2>2. \A j \in 1 .. k : j \in 1 .. n /\ \A h \in j + 1 .. k : h \in 1 .. n
    BY <1>1
  <2> QED BY <2>1, <2>2 DEF LockedBy
<1>4. \A k \in 0 .. i - 1 : \A l : LockedBy(r, l, k) <=> LockedBy(s, l, k)
  <2> TAKE k \in 0 .. i - 1
  <2> TAKE l
  <2>1. k \in Nat /\ \A j \in 1 .. k : r[j] = s[j]
    BY <1>1, <1>2
  <2> QED BY <2>1, LocksAgree
<1>5. TakeTurns(r)
  <2> SUFFICES ASSUME NEW j \in 1 .. n
               PROVE  /\ r[j].policy = "UnlockedScope" => r[j].enabled
                      /\ r[j].enabled =>
                           (r[j].policy = "UnlockedScope" <=> LockedBy(r, r[j].lock, j - 1))
    BY <1>2 DEF TakeTurns
  <2>1. CASE j = i
    BY <1>2, <2>1
  <2>2. CASE j # i /\ s[j].enabled
    <3>1. r[j] = s[j] /\ j - 1 \in 0 .. n
      BY <1>1, <1>2, <2>2
    <3>2. CASE s[j].lock = m
      <4>1. j \notin i + 1 .. n
        BY <2>2, <3>2 DEF About
      <4>2. j - 1 \in 0 .. i - 1
        BY <1>1, <2>2, <4>1
      <4> QED BY <1>4, <3>1, <4>2 DEF TakeTurns
    <3>3. CASE s[j].lock # m
      BY <1>3, <3>1, <3>3 DEF TakeTurns
    <3> QED BY <3>2, <3>3
  <2>3. CASE j # i /\ ~s[j].enabled
    BY <1>2, <2>3 DEF TakeTurns
  <2> QED BY <2>1, <2>2, <2>3
<1>6. LockedBy(s, m, n)
  BY DEF LockedBy, About
<1>7. ~LockedBy(s, m, i - 1)
  BY DEF TakeTurns
<1>8. ~LockedBy(r, m, n)
  <2> SUFFICES ASSUME LockedBy(r, m, n) PROVE FALSE
    OBVIOUS
  <2>1. PICK j \in 1 .. n : /\ About(r[j], m) /\ r[j].policy # "UnlockedScope"
                            /\ \A h \in j + 1 .. n : ~About(r[h], m)
    BY DEF LockedBy
  <2>2. j # i /\ r[j] = s[j]
    BY <1>2, <2>1 DEF About
  <2>3. j \notin i + 1 .. n
    BY <2>1, <2>2
  <2>4. j \in 1 .. i - 1
    BY <1>1, <2>2, <2>3
  <2>5. \A h \in j + 1 .. i - 1 : h \in j + 1 .. n /\ r[h] = s[h]
    BY <1>1, <1>2, <2>4
  <2>6. LockedBy(s, m, i - 1)
    BY <2>1, <2>2, <2>4, <2>5 DEF LockedBy
  <2> QED BY <1>7, <2>6
<1>9. n \in 0 .. n
  BY <1>1
<1>10. \A l : LockedBy(r, l, n) <=> l # m /\ LockedBy(s, l, n)
  BY <1>3, <1>8, <1>9
<1> QED BY <1>2, <1>5, <1>6, <1>10 DEF r

\* What the module says of the Guards of a thread is what is said of its sequence here.
LEMMA GuardWords ==
  ASSUME NEW t \in GuardThreads, guards[t] \in Seq(GuardRecords)
  PROVE  \A l :
           /\ Scoped!Guarded(t, l) <=> LockedBy(guards[t], l, Len(guards[t]))
           /\ \A i : Scoped!Innermost(t, l, i)
                       <=> /\ i \in 1 .. Len(guards[t]) /\ About(guards[t][i], l)
                           /\ \A j \in i + 1 .. Len(guards[t]) : ~About(guards[t][j], l)
<1> DEFINE s == guards[t]
           n == Len(s)
<1>1. DOMAIN s = 1 .. n /\ n \in Nat
  OBVIOUS
<1> HIDE DEF s, n
<1> TAKE l
<1>2. \A i : i \in Scoped!GuardsFor(t, l) <=> i \in 1 .. n /\ About(s[i], l)
  BY <1>1 DEF Scoped!GuardsFor, About, s
<1>3. \A i \in 1 .. n, j \in 1 .. n : ~(j <= i) <=> j \in i + 1 .. n
  BY <1>1
<1>4. \A i \in 1 .. n : \A j \in i + 1 .. n : j \in 1 .. n
  BY <1>1
<1>5. \A i : Scoped!Innermost(t, l, i)
               <=> i \in 1 .. n /\ About(s[i], l) /\ \A j \in i + 1 .. n : ~About(s[j], l)
  BY <1>2, <1>3, <1>4 DEF Scoped!Innermost
<1>6. Scoped!Guarded(t, l) <=> LockedBy(s, l, n)
  BY <1>2, <1>5 DEF Scoped!Guarded, LockedBy, s
<1> QED BY <1>5, <1>6 DEF s, n

\* A thread's step is nothing to the others, whose locks it neither takes nor gives up.
LEMMA OthersGuards ==
  ASSUME GuardInv, NEW t \in GuardThreads,
         \A u \in GuardThreads \ {t} :
           /\ guards'[u] = guards[u] /\ passing'[u] = passing[u]
           /\ u \in unguarded' <=> u \in unguarded
           /\ \A l \in Locks : holders'[l] = u <=> holders[l] = u,
         guards' \in [GuardThreads -> Seq(GuardRecords)], Len(guards'[t]) <= MaxGuards,
         holders' \in [Locks -> GuardThreads \cup {None}],
         passing' \in [GuardThreads -> 0 .. MaxGuards],
         unguarded' \subseteq GuardThreads,
         TakeTurns(guards'[t]),
         IF passing'[t] = 0 THEN \A l \in Locks : HasRightly(t, l)' ELSE HandsOver(t)'
  PROVE  GuardInv'
<1>1. ASSUME NEW u \in GuardThreads \ {t}
      PROVE  /\ TakeTurns(guards'[u]) /\ Len(guards'[u]) <= MaxGuards
             /\ IF passing'[u] = 0 THEN \A l \in Locks : HasRightly(u, l)' ELSE HandsOver(u)'
  <2>1. \A l \in Locks : HasRightly(u, l)' <=> HasRightly(u, l)
    BY DEF HasRightly
  <2>2. HandsOver(u)' <=> HandsOver(u)
    BY <2>1 DEF HandsOver
  <2> QED BY <2>1, <2>2 DEF GuardInv
<1> QED BY <1>1 DEF GuardInv

LEMMA GuardStep ==
  ASSUME GuardInv, Scoped!Next
  PROVE  GuardInv'
<1>1. /\ None \notin GuardThreads /\ Checked \subseteq Locks /\ MaxGuards \in Nat
  BY ObjectsAssumption DEF Scoped!GuardsAssumption
<1>2. /\ guards \in [GuardThreads -> Seq(GuardRecords)]
      /\ \A t \in GuardThreads : Len(guards[t]) <= MaxGuards
      /\ holders \in [Locks -> GuardThreads \cup {None}]
      /\ passing \in [GuardThreads -> 0 .. MaxGuards]
      /\ unguarded \subseteq GuardThreads
  BY DEF GuardInv
<1>3. PICK t \in GuardThreads :
        \/ \E l \in Locks : Scoped!Create(t, l) \/ Scoped!Pass(t, l)
        \/ \E i \in 1 .. MaxGuards :
             Scoped!Share(t, i) \/ \E l \in Locks : Scoped!Transfer(t, i, l)
        \/ guards[t] # <<>> /\ (Scoped!Destroy(t) \/ Scoped!Relock(t) \/ Scoped!RelockInterrupted(t))
  BY DEF Scoped!Next
<1> DEFINE s == guards[t]
           n == Len(s)
           By(l) == LockedBy(s, l, n)
<1>4. /\ s \in Seq(GuardRecords) /\ TakeTurns(s) /\ n \in Nat /\ n <= MaxGuards
      /\ passing[t] = 0 => \A l \in Locks : HasRightly(t, l)
      /\ passing[t] # 0 => HandsOver(t)
  BY <1>2 DEF GuardInv
<1>5. /\ \A l : Scoped!Guarded(t, l) <=> By(l)
      /\ \A l, i : Scoped!Innermost(t, l, i)
                     <=> i \in 1 .. n /\ About(s[i], l) /\ \A j \in i + 1 .. n : ~About(s[j], l)
  BY <1>4, GuardWords
<1>6. \A l \in Locks, p \in Scoped!Policies :
        /\ Scoped!GuardOf(l, p) \in GuardRecords /\ Scoped!GuardOf(l, p).enabled
        /\ Scoped!GuardOf(l, p).lock = l /\ Scoped!GuardOf(l, p).policy = p
  BY DEF Scoped!GuardOf, GuardRecords
<1>7. {"LockedScope", "UnlockedScope", "OverlappedScope"} \subseteq Scoped!Policies
  BY DEF Scoped!Policies
<1>8. \A i \in 1 .. n : s[i] \in GuardRecords /\ s[i].lock \in Locks
  <2>1. \A i \in 1 .. n : s[i] \in GuardRecords
    BY <1>4
  <2>2. \A g \in GuardRecords : g.lock \in Locks
    BY DEF GuardRecords
  <2> QED BY <2>1, <2>2
\* Giving up a lock that t has, or has been refused, leaves it without, and nobody else.
<1>9. \A l \in Locks :
        (holders[l] = t \/ (t \in unguarded /\ l \in Checked)) =>
          /\ Scoped!Released(t, l) \in [Locks -> GuardThreads \cup {None}]
          /\ Scoped!Released(t, l)[l] # t
          /\ \A k \in Locks \ {l} : Scoped!Released(t, l)[k] = holders[k]
          /\ \A k \in Locks, u \in GuardThreads \ {t} :
               Scoped!Released(t, l)[k] = u <=> holders[k] = u
  BY <1>1, <1>2 DEF Scoped!Released
<1> HIDE DEF s, n, By
<1> DEFINE Goal == GuardInv'
<1>10. ASSUME NEW r \in Seq(GuardRecords), guards' = [guards EXCEPT ![t] = r], TakeTurns(r),
              Len(r) <= MaxGuards, passing' \in [GuardThreads -> 0 .. MaxGuards],
              \A u \in GuardThreads \ {t} : passing'[u] = passing[u], passing'[t] = 0,
              unguarded' \in {unguarded, unguarded \cup {t}},
              holders' \in [Locks -> GuardThreads \cup {None}],
              \A k \in Locks, u \in GuardThreads \ {t} : holders'[k] = u <=> holders[k] = u,
              \A l \in Locks :
                /\ holders'[l] = t => LockedBy(r, l, Len(r))
                /\ LockedBy(r, l, Len(r))
                     => holders'[l] = t \/ (t \in unguarded' /\ l \in Checked)
       PROVE  Goal
  <2>1. guards' \in [GuardThreads -> Seq(GuardRecords)] /\ guards'[t] = r
        /\ \A u \in GuardThreads \ {t} : guards'[u] = guards[u]
    BY <1>2, <1>10
  <2>2. \A l \in Locks : HasRightly(t, l)'
    BY <1>10, <2>1 DEF HasRightly
  <2>3. unguarded' \subseteq GuardThreads
        /\ \A u \in GuardThreads \ {t} : u \in unguarded' <=> u \in unguarded
    BY <1>2, <1>10
  <2> QED BY <1>10, <2>1, <2>2, <2>3, OthersGuards
<1>11. ASSUME NEW l \in Locks, Scoped!Create(t, l) PROVE Goal
  <2> DEFINE g == Scoped!GuardOf(l, "LockedScope")
  <2>1. /\ passing[t] = 0 /\ n < MaxGuards /\ ~By(l) /\ holders[l] = None
        /\ holders' = [holders EXCEPT ![l] = t]
        /\ guards' = [guards EXCEPT ![t] = Append(s, g)]
        /\ UNCHANGED <<passing, unguarded>>
    BY <1>2, <1>5, <1>11 DEF Scoped!Create, Scoped!May, s, n
  <2>2. g \in GuardRecords /\ g.enabled /\ g.lock = l /\ g.policy = "LockedScope"
    BY <1>6, <1>7
  <2> HIDE DEF g
  <2>3. /\ Append(s, g) \in Seq(GuardRecords) /\ Len(Append(s, g)) = n + 1
        /\ TakeTurns(Append(s, g))
        /\ \A k : LockedBy(Append(s, g), k, Len(Append(s, g))) <=> (k = l \/ By(k))
    BY <1>4, <2>1, <2>2, GuardMade DEF By, n
  <2>4. \A k \in Locks : HasRightly(t, k)
    BY <1>4, <2>1
  <2>5. /\ holders' \in [Locks -> GuardThreads \cup {None}] /\ holders'[l] = t
        /\ \A k \in Locks \ {l} : holders'[k] = holders[k]
        /\ \A k \in Locks, u \in GuardThreads \ {t} : holders'[k] = u <=> holders[k] = u
    BY <1>1, <1>2, <2>1
  <2>6. \A k \in Locks :
          /\ holders'[k] = t => k = l \/ By(k)
          /\ k = l \/ By(k) => holders'[k] = t \/ (t \in unguarded' /\ k \in Checked)
    BY <2>1, <2>4, <2>5 DEF HasRightly, By, s, n
  <2>7. Len(Append(s, g)) <= MaxGuards
    BY <1>1, <1>4, <2>1, <2>3
  <2> QED BY <1>2, <1>10, <2>1, <2>3, <2>5, <2>6, <2>7
<1>12. ASSUME NEW i \in 1 .. MaxGuards, Scoped!Share(t, i) PROVE Goal
  <2> DEFINE l == s[i].lock
             g == Scoped!GuardOf(l, "UnlockedScope")
  <2>1. /\ passing[t] = 0 /\ n < MaxGuards /\ By(l) /\ i \in 1 .. n
        /\ holders' = Scoped!Released(t, l)
        /\ guards' = [guards EXCEPT ![t] = Append(s, g)]
        /\ UNCHANGED <<passing, unguarded>>
    BY <1>2, <1>4, <1>5, <1>12 DEF Scoped!Share, Scoped!May, s, n
  <2>2. l \in Locks
    BY <1>8, <2>1
  <2>3. g \in GuardRecords /\ g.enabled /\ g.lock = l /\ g.policy = "UnlockedScope"
    BY <1>6, <1>7, <2>2
  <2> HIDE DEF g, l
  <2>4. /\ Append(s, g) \in Seq(GuardRecords) /\ Len(Append(s, g)) = n + 1
        /\ TakeTurns(Append(s, g))
        /\ \A k : LockedBy(Append(s, g), k, Len(Append(s, g))) <=> (k # l /\ By(k))
    BY <1>4, <2>1, <2>3, GuardMade DEF By, n
  <2>5. \A k \in Locks : HasRightly(t, k)
    BY <1>4, <2>1
  <2>6. holders[l] = t \/ (t \in unguarded /\ l \in Checked)
    BY <2>1, <2>2, <2>5 DEF HasRightly, By, s, n
  <2>7. /\ holders' \in [Locks -> GuardThreads \cup {None}] /\ holders'[l] # t
        /\ \A k \in Locks \ {l} : holders'[k] = holders[k]
        /\ \A k \in Locks, u \in GuardThreads \ {t} : holders'[k] = u <=> holders[k] = u
    BY <1>9, <2>1, <2>2, <2>6
  <2>8. \A k \in Locks :
          /\ holders'[k] = t => k # l /\ By(k)
          /\ k # l /\ By(k) => holders'[k] = t \/ (t \in unguarded' /\ k \in Checked)
    BY <2>1, <2>5, <2>7 DEF HasRightly, By, s, n
  <2>9. Len(Append(s, g)) <= MaxGuards
    BY <1>1, <1>4, <2>1, <2>4
  <2> QED BY <1>2, <1>10, <2>1, <2>4, <2>7, <2>8, <2>9
<1>13. ASSUME NEW i \in 1 .. MaxGuards, NEW l \in Locks, Scoped!Transfer(t, i, l) PROVE Goal
  <2>1. /\ passing[t] = 0 /\ n < MaxGuards /\ i \in 1 .. n /\ ~By(l)
        /\ s[i].enabled /\ s[i].policy # "UnlockedScope"
        /\ \A j \in i + 1 .. n : ~About(s[j], s[i].lock)
        /\ holders[l] = None /\ holders' = [holders EXCEPT ![l] = t]
        /\ passing' = [passing EXCEPT ![t] = i]
        /\ UNCHANGED <<guards, unguarded>>
    BY <1>5, <1>13 DEF Scoped!Transfer, Scoped!May, About, s, n
  <2>2. \A k \in Locks : HasRightly(t, k)
    BY <1>4, <2>1
  <2>3. /\ holders' \in [Locks -> GuardThreads \cup {None}] /\ holders'[l] = t
        /\ \A k \in Locks \ {l} : holders'[k] = holders[k]
        /\ \A k \in Locks, u \in GuardThreads \ {t} : holders'[k] = u <=> holders[k] = u
    BY <1>1, <1>2, <2>1
  <2>4. \A k \in Locks \ {l} : HasRightly(t, k)'
    BY <2>1, <2>2, <2>3 DEF HasRightly
  <2>5. /\ passing' \in [GuardThreads -> 0 .. MaxGuards] /\ passing'[t] = i /\ i # 0
        /\ \A u \in GuardThreads \ {t} : passing'[u] = passing[u]
    BY <1>2, <2>1
  <2>6. HandsOver(t)'
    BY <2>1, <2>3, <2>4, <2>5 DEF HandsOver, By, s, n
  <2> QED BY <1>2, <1>4, <2>1, <2>3, <2>5, <2>6, OthersGuards DEF s, n
<1>14. ASSUME NEW l \in Locks, Scoped!Pass(t, l) PROVE Goal
  <2> DEFINE i == passing[t]
             m == s[i].lock
             r == [s EXCEPT ![i].enabled = FALSE]
             g == Scoped!GuardOf(l, "OverlappedScope")
  <2>1. /\ i # 0 /\ holders[l] = t /\ ~By(l)
        /\ holders' = Scoped!Released(t, m)
        /\ guards' = [guards EXCEPT ![t] = Append(r, g)]
        /\ passing' = [passing EXCEPT ![t] = 0] /\ UNCHANGED unguarded
    BY <1>2, <1>5, <1>14 DEF Scoped!Pass, s
  <2>2. /\ i \in 1 .. n /\ s[i].enabled /\ s[i].policy # "UnlockedScope" /\ n < MaxGuards
        /\ \A j \in i + 1 .. n : ~About(s[j], m)
        /\ \E k \in Locks : holders[k] = t /\ ~By(k) /\ \A h \in Locks \ {k} : HasRightly(t, h)
    BY <1>4, <2>1 DEF HandsOver, By, s, n
  <2>3. \A k \in Locks \ {l} : HasRightly(t, k)
    BY <2>1, <2>2 DEF HasRightly, By, s, n
  <2>4. m \in Locks
    BY <1>8, <2>2
  <2>5. /\ r \in Seq(GuardRecords) /\ Len(r) = n /\ TakeTurns(r) /\ By(m)
        /\ \A k : LockedBy(r, k, n) <=> k # m /\ By(k)
    BY <1>4, <2>2, GuardDisabled DEF By, n
  <2>6. g \in GuardRecords /\ g.enabled /\ g.lock = l /\ g.policy = "OverlappedScope"
    BY <1>6, <1>7
  <2>7. passing' \in [GuardThreads -> 0 .. MaxGuards] /\ passing'[t] = 0
        /\ \A u \in GuardThreads \ {t} : passing'[u] = passing[u]
    BY <1>1, <1>2, <2>1
  <2> HIDE DEF r, g, m, i
  <2>8. /\ Append(r, g) \in Seq(GuardRecords) /\ Len(Append(r, g)) = n + 1
        /\ TakeTurns(Append(r, g))
        /\ \A k : LockedBy(Append(r, g), k, Len(Append(r, g))) <=> k = l \/ (k # m /\ By(k))
    BY <2>1, <2>5, <2>6, GuardMade
  <2>9. l # m /\ (holders[m] = t \/ (t \in unguarded /\ m \in Checked))
    BY <2>1, <2>3, <2>4, <2>5 DEF HasRightly, By, s, n
  <2>10. /\ holders' \in [Locks -> GuardThreads \cup {None}] /\ holders'[m] # t
         /\ \A k \in Locks \ {m} : holders'[k] = holders[k]
         /\ \A k \in Locks, u \in GuardThreads \ {t} : holders'[k] = u <=> holders[k] = u
    BY <1>9, <2>1, <2>4, <2>9
  <2>11. \A k \in Locks :
          /\ holders'[k] = t => k = l \/ (k # m /\ By(k))
          /\ k = l \/ (k # m /\ By(k)) => holders'[k] = t \/ (t \in unguarded' /\ k \in Checked)
    BY <2>1, <2>3, <2>9, <2>10 DEF HasRightly, By, s, n
  <2>12. Len(Append(r, g)) <= MaxGuards
    BY <1>1, <1>4, <2>2, <2>8
  <2> QED BY <1>10, <2>1, <2>7, <2>8, <2>10, <2>11, <2>12
<1>15. CASE guards[t] # <<>> /\ (Scoped!Destroy(t) \/ Scoped!Relock(t) \/ Scoped!RelockInterrupted(t))
  <2> DEFINE g == Scoped!Last(s)
             r == Scoped!Front(s)
             l == g.lock
  <2>1. /\ passing[t] = 0 /\ s # <<>> /\ passing' = passing
        /\ guards' = [guards EXCEPT ![t] = r]
    BY <1>2, <1>15 DEF Scoped!Destroy, Scoped!Relock, Scoped!RelockInterrupted, Scoped!Ends, s
  <2>2. /\ g \in GuardRecords /\ r \in Seq(GuardRecords) /\ Len(r) = n - 1 /\ TakeTurns(r)
        /\ g.policy = "UnlockedScope" => g.enabled
        /\ \A k : /\ LockedBy(r, k, Len(r))
                       <=> IF About(g, k) THEN g.policy = "UnlockedScope" ELSE By(k)
                  /\ About(g, k) => (By(k) <=> g.policy # "UnlockedScope")
    BY <1>4, <2>1, GuardGone DEF By, n
  <2>3. \/ /\ g.policy # "UnlockedScope" /\ UNCHANGED unguarded
           /\ holders' = IF g.enabled THEN Scoped!Released(t, l) ELSE holders
        \/ /\ g.policy = "UnlockedScope" /\ holders[l] = None /\ UNCHANGED unguarded
           /\ holders' = [holders EXCEPT ![l] = t]
        \/ /\ g.policy = "UnlockedScope" /\ l \in Checked
           /\ unguarded' = unguarded \cup {t} /\ UNCHANGED holders
    BY <1>15 DEF Scoped!Destroy, Scoped!Relock, Scoped!RelockInterrupted, s
  <2>4. \A k \in Locks : HasRightly(t, k)
    BY <1>4, <2>1
  <2>5. l \in Locks
    BY <2>2 DEF GuardRecords
  <2> HIDE DEF g, r, l
  <2>6. \A k : About(g, k) <=> g.enabled /\ k = l
    BY DEF About, l
  <2>7. ASSUME holders' \in [Locks -> GuardThreads \cup {None}],
               \A k \in Locks, u \in GuardThreads \ {t} : holders'[k] = u <=> holders[k] = u,
               unguarded' \in {unguarded, unguarded \cup {t}},
               \A k \in Locks :
                 IF g.enabled /\ k = l
                 THEN IF g.policy = "UnlockedScope"
                      THEN holders'[k] = t \/ (t \in unguarded' /\ k \in Checked)
                      ELSE holders'[k] # t
                 ELSE holders'[k] = holders[k]
        PROVE  Goal
    <3>1. \A k \in Locks :
            /\ holders'[k] = t => LockedBy(r, k, Len(r))
            /\ LockedBy(r, k, Len(r)) => holders'[k] = t \/ (t \in unguarded' /\ k \in Checked)
      BY <2>2, <2>4, <2>6, <2>7 DEF HasRightly, By, s, n
    <3>2. Len(r) <= MaxGuards
      BY <1>1, <1>4, <2>2
    <3> QED BY <1>2, <1>10, <2>1, <2>2, <2>7, <3>1, <3>2
  <2>8. CASE g.policy # "UnlockedScope" /\ ~g.enabled
    BY <1>2, <2>3, <2>7, <2>8
  <2>9. CASE g.policy # "UnlockedScope" /\ g.enabled
    <3>1. holders' = Scoped!Released(t, l) /\ UNCHANGED unguarded
      BY <2>3, <2>9
    <3>2. By(l)
      BY <2>2, <2>6, <2>9
    <3>3. holders[l] = t \/ (t \in unguarded /\ l \in Checked)
      BY <2>4, <2>5, <3>2 DEF HasRightly, By, s, n
    <3> QED BY <1>9, <2>5, <2>7, <2>9, <3>1, <3>3
  <2>10. CASE g.policy = "UnlockedScope" /\ holders[l] = None /\ UNCHANGED unguarded
              /\ holders' = [holders EXCEPT ![l] = t]
    <3>1. /\ holders' \in [Locks -> GuardThreads \cup {None}] /\ holders'[l] = t
          /\ \A k \in Locks \ {l} : holders'[k] = holders[k]
          /\ \A k \in Locks, u \in GuardThreads \ {t} : holders'[k] = u <=> holders[k] = u
      BY <1>1, <1>2, <2>5, <2>10
    <3> QED BY <2>2, <2>7, <2>10, <3>1
  <2>11. CASE g.policy = "UnlockedScope" /\ l \in Checked /\ unguarded' = unguarded \cup {t}
              /\ UNCHANGED holders
    BY <1>2, <2>2, <2>7, <2>11
  <2> QED BY <2>3, <2>8, <2>9, <2>10, <2>11
<1> QED BY <1>3, <1>11, <1>12, <1>13, <1>14, <1>15

LEMMA GuardStart ==
  ASSUME Init
  PROVE  GuardInv
<1>1. /\ guards = [t \in GuardThreads |-> <<>>] /\ holders = [l \in Locks |-> None]
      /\ passing = [t \in GuardThreads |-> 0] /\ unguarded = {}
  BY DEF Init, Scoped!Init
<1>2. None \notin GuardThreads /\ MaxGuards \in Nat
  BY ObjectsAssumption DEF Scoped!GuardsAssumption
<1>3. <<>> \in Seq(GuardRecords) /\ Len(<<>>) = 0 /\ TakeTurns(<<>>)
      /\ \A s, l : ~LockedBy(s, l, 0)
  BY DEF TakeTurns, LockedBy
<1>4. guards \in [GuardThreads -> Seq(GuardRecords)] /\ \A t \in GuardThreads : guards[t] = <<>>
  BY <1>1, <1>3
<1>5. \A t \in GuardThreads, l \in Locks : HasRightly(t, l)
  BY <1>1, <1>2, <1>3, <1>4 DEF HasRightly
<1> QED BY <1>1, <1>2, <1>3, <1>4, <1>5 DEF GuardInv

LEMMA GuardNext ==
  ASSUME GuardInv, [Next]_vars
  PROVE  GuardInv'
<1>1. CASE UNCHANGED scopes
  BY <1>1 DEF scopes, GuardInv, HasRightly, HandsOver
<1>2. CASE Scoped!Next
  BY <1>2, GuardStep
<1> QED BY <1>1, <1>2 DEF Next, vars

\* In every block a thread has the locks that its Guards say it has, and no others.
THEOREM GuardsHold == Spec => []HeldAsGuarded
<1>1. Init => GuardInv
  BY GuardStart
<1>2. GuardInv /\ [Next]_vars => GuardInv'
  BY GuardNext
<1>3. ASSUME GuardInv PROVE HeldAsGuarded
  <2>1. \A t \in GuardThreads : \A l : Scoped!Guarded(t, l) <=> LockedBy(guards[t], l, Len(guards[t]))
    BY <1>3, GuardWords DEF GuardInv
  <2> QED BY <1>3, <2>1 DEF HeldAsGuarded, Scoped!HeldAsGuarded, GuardInv, HasRightly
<1> QED BY <1>1, <1>2, <1>3, PTL DEF Spec

-----------------------------------------------------------------------------
Objects ==
  QueueNames \cup OnceNames \cup AgainNames \cup MadeNames
    \cup {"BiasedReadWriteLock", "FairReadWriteLock", "Barrier", "Guard"}

\* The variables of each class keep their types.
THEOREM ObjectsTypes == Spec => []TypeOK
<1> DEFINE Inv == FastInv /\ RWInv /\ WaitInv /\ MeetingInv /\ GuardInv /\ object \in Objects
<1>1. Init => Inv
  BY FastStart, RWStart, WaitsStart, GuardStart DEF Init, Objects
<1>2. Inv /\ [Next]_vars => Inv'
  <2>1. object \in Objects /\ [Next]_vars => object' \in Objects
    BY DEF Next, vars
  <2> QED BY <2>1, FastNext, RWNext, WaitsNext, GuardNext
<1>3. ASSUME Inv PROVE TypeOK
  <2>1. object \in QueueNames => QueueTypeOK
    BY <1>3 DEF WaitInv, QueueInv
  <2>2. object = "BiasedReadWriteLock" => Biased!TypeOK
    <3> SUFFICES ASSUME BiasedInv PROVE Biased!TypeOK
      BY <1>3 DEF RWInv
    <3>1. Readers \in SUBSET Threads /\ Calling("read") \in SUBSET Threads
          /\ Calling("write") \in SUBSET Threads
      BY DEF Readers, Calling
    <3>2. /\ waitingReaders = Cardinality(Calling("read"))
          /\ waitingWriters = Cardinality(Calling("write"))
      BY SameCardinality DEF BiasedInv, Biased!WaitingCounted, Calling
    <3>3. activeReaders \in Nat /\ waitingReaders \in Nat /\ waitingWriters \in Nat
      BY <3>1, <3>2, LockAssumptions, FS_Subset, FS_CardinalityType DEF BiasedInv, InsideCounted
    <3> QED
      BY <3>3
      DEF BiasedInv, InsideCounted, CondTypeOK, Biased!TypeOK, Biased!RWTypeOK, Biased!CondTypeOK
  <2>3. object = "FairReadWriteLock" => Fair!TypeOK
    <3> SUFFICES ASSUME FairInv PROVE Fair!TypeOK
      BY <1>3 DEF RWInv
    <3>1. activeReaders \in Nat
      <4>1. Readers \in SUBSET Threads
        BY DEF Readers
      <4> QED BY <4>1, LockAssumptions, FS_Subset, FS_CardinalityType DEF FairInv, InsideCounted
    <3> QED
      BY <3>1 DEF FairInv, InsideCounted, CondTypeOK, Fair!TypeOK, Fair!RWTypeOK, Fair!CondTypeOK
  <2>4. object = "Barrier" => Meeting!TypeOK
    <3> SUFFICES ASSUME BarrierInv PROVE Meeting!TypeOK
      BY <1>3 DEF MeetingInv
    <3> QED
      BY BarrierConstants DEF BarrierInv, CondTypeOK, Meeting!TypeOK, Meeting!CondTypeOK
  <2>5. object \in SpinNames => Spin!TypeOK
    BY <1>3
    DEF FastInv, SpinNames, OnceNames, AgainNames, MadeNames, CountedDown, OneBit, LockTypes,
        Spin!TypeOK, Spin!LockTypeOK
  <2>6. object \in (OnceNames \cup AgainNames) \ SpinNames => System!TypeOK
    BY <1>3
    DEF FastInv, SpinNames, OnceNames, AgainNames, SystemNames, SystemOwned, FlagOwned, LockTypes,
        System!TypeOK, System!LockTypeOK
  <2>7. object \in MadeNames => Recursive!TypeOK
    BY <1>3
    DEF FastInv, MadeNames, DualOwned, SimplyOwned, SignalOwned, WordOwned, LockTypes,
        Recursive!TypeOK, Recursive!LockTypeOK
  <2>8. object = "Guard" => Scoped!TypeOK
    BY <1>3 DEF GuardInv, GuardRecords, Scoped!TypeOK
  <2> QED
    BY <1>3, <2>1, <2>2, <2>3, <2>4, <2>5, <2>6, <2>7, <2>8
    DEF TypeOK, Objects, QueueNames, SpinNames, OnceNames, AgainNames, MadeNames
<1> QED BY <1>1, <1>2, <1>3, PTL DEF Spec

=============================================================================
