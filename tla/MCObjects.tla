------------------------------ MODULE MCObjects ------------------------------
(***************************************************************************)
(* Instances of the classes built from one lock and Conditions.  A         *)
(* behaviour is about one object; which one is chosen at the start.        *)
(***************************************************************************)
EXTENDS Queues, ReadWriteLocks

CONSTANTS None, Count, Word, MaxLate, MaxRounds, ResetsAnytime, MaxDepth,
          GuardThreads, Locks, Checked, MaxGuards

VARIABLES
  object,
  activeWriters, waitingReaders, waitingWriters, wakes, missed,
  locked,
  broken, deserted, count, generation, myGeneration, came, rounds, since,
  at, entries, value, holder, owner, depth, barged,
  guards, holders, passing, unguarded

biased   == <<activeWriters, waitingReaders, waitingWriters, wakes, missed>>
rwlocks  == <<inside, activeReaders, biased, locked>>
barrier  == <<broken, deserted, count, generation, myGeneration, came, rounds, since>>
fast     == <<at, entries, value, holder, owner, depth, barged>>
scopes   == <<guards, holders, passing, unguarded>>
vars     == <<object, queueVars, rwlocks, barrier, fast, scopes>>

Bounded   == INSTANCE BoundedQueue
Monitored == INSTANCE MonitoredQueue
Blocking  == INSTANCE BlockingQueue
Locked    == INSTANCE LockedQueue
Biased    == INSTANCE BiasedReadWriteLock
Fair      == INSTANCE FairReadWriteLock
Meeting   == INSTANCE Barrier
Spin      == INSTANCE SpinLocks
System    == INSTANCE SystemLocks
Recursive == INSTANCE RecursiveLocks
Scoped    == INSTANCE Guards WITH Threads <- GuardThreads

ASSUME ObjectsAssumption ==
  Spin!LocksAssumption /\ Meeting!BarrierAssumption /\ Scoped!GuardsAssumption

QueueNames == {"BoundedQueue", "MonitoredQueue", "BlockingQueue", "LockedQueue"}
SpinNames  == {"linux/AtomicFastLock", "win32/AtomicFastLock",
               "win9x/AtomicFastLock"}
OnceNames  == SpinNames \cup {"posix/FastLock", "win32/FastLock"}
AgainNames == {"macos/FastLock", "linux/FastRecursiveLock",
               "solaris/FastRecursiveLock", "win32/FastRecursiveLock"}
MadeNames  == {"DualMutexRecursiveLock", "SimpleRecursiveLock",
               "ConditionRecursiveLock", "AtomicFastRecursiveLock"}

\* The word of a lock that nobody uses: one only for linux's spin lock.
FreeValue == IF object = "linux/AtomicFastLock" THEN 1 ELSE 0

Init ==
  /\ object \in QueueNames \cup OnceNames \cup AgainNames \cup MadeNames
                 \cup {"BiasedReadWriteLock", "FairReadWriteLock", "Barrier",
                          "Guard"}
  /\ Bounded!Init /\ Biased!Init /\ Fair!Init /\ Meeting!Init
  /\ Spin!Init(FreeValue) /\ barged = FALSE
  /\ Scoped!Init

LocksNext ==
  \/ object = "linux/AtomicFastLock" /\ Spin!LinuxNext
  \/ object = "win32/AtomicFastLock" /\ Spin!Win32Next
  \/ object = "win9x/AtomicFastLock" /\ Spin!Win9xNext
  \/ object = "posix/FastLock" /\ System!PosixNext
  \/ object = "macos/FastLock" /\ System!MacNext
  \/ object = "win32/FastLock" /\ System!Win32Next
  \/ object = "linux/FastRecursiveLock" /\ System!LinuxNext
  \/ object = "solaris/FastRecursiveLock" /\ System!SolarisNext
  \/ object = "win32/FastRecursiveLock" /\ System!MutexNext

RecursiveNext ==
  \/ object = "DualMutexRecursiveLock" /\ Recursive!DualNext
  \/ object = "SimpleRecursiveLock" /\ Recursive!SimpleNext
  \/ object = "ConditionRecursiveLock" /\ Recursive!ConditionNext
  \/ object = "AtomicFastRecursiveLock" /\ Recursive!AtomicNext

Next ==
  \/ /\ \/ object = "BoundedQueue" /\ Bounded!Next
        \/ object = "MonitoredQueue" /\ Monitored!Next
        \/ object = "BlockingQueue" /\ Blocking!Next
        \/ object = "LockedQueue" /\ Locked!Next
     /\ UNCHANGED <<object, rwlocks, barrier, fast, scopes>>
  \/ /\ object = "BiasedReadWriteLock" /\ Biased!Next
     /\ UNCHANGED <<object, queue, locked, barrier, fast, scopes>>
  \/ /\ object = "FairReadWriteLock" /\ Fair!Next
     /\ UNCHANGED <<object, queue, biased, barrier, fast, scopes>>
  \/ /\ object = "Barrier" /\ Meeting!Next
     /\ UNCHANGED <<object, queue, rwlocks, fast, scopes>>
  \/ /\ LocksNext /\ UNCHANGED barged
     /\ UNCHANGED <<object, queueVars, rwlocks, barrier, scopes>>
  \/ /\ RecursiveNext
     /\ UNCHANGED <<object, queueVars, rwlocks, barrier, scopes>>
  \/ /\ object = "Guard" /\ Scoped!Next
     /\ UNCHANGED <<object, queueVars, rwlocks, barrier, fast>>

\* A thread that has been woken takes the lock and goes on.
Resume(t) ==
  /\ \/ object = "BoundedQueue" /\ Bounded!Resume(t)
     \/ object = "MonitoredQueue" /\ Monitored!Resume(t)
     \/ object = "BlockingQueue" /\ Blocking!Resume(t)
  /\ UNCHANGED <<object, rwlocks, barrier, fast, scopes>>

Spec == Init /\ [][Next]_vars /\ \A t \in Threads : WF_vars(Resume(t))

-----------------------------------------------------------------------------
\* The variables keep their types; a queue does not exceed its capacity.
TypeOK ==
  CASE object \in QueueNames          -> QueueTypeOK
    [] object = "BiasedReadWriteLock" -> Biased!TypeOK
    [] object = "FairReadWriteLock"   -> Fair!TypeOK
    [] object = "Barrier"             -> Meeting!TypeOK
    [] object \in SpinNames           -> Spin!TypeOK
    [] object \in (OnceNames \cup AgainNames) \ SpinNames -> System!TypeOK
    [] object \in MadeNames           -> Recursive!TypeOK
    [] object = "Guard"               -> Scoped!TypeOK

\* Nobody sleeps on while there is what it waits for and nobody has been woken to
\* take it.  Waits may time out and be interrupted in between; of queues and biased
\* locks it holds until a signal is lost on a thread whose wait had been, which the
\* code does not pass on:
NobodyForgotten ==
  \* at a queue, for an element, for room or for it to be empty;
  /\ NoConsumerForgotten /\ EmptyIsSeen
  /\ object = "BoundedQueue" => Bounded!NoProducerForgotten
  \* at a biased lock that nobody is in, which decides whom to wake by the numbers
  \* of those that wait;
  /\ object = "BiasedReadWriteLock"
       => Biased!WaitingCounted /\ Biased!NobodyForgotten
  \* at a barrier that has had its round, or was broken (Barrier.h:53) in any other
  \* way than by a wait that was cut short, after which the code wakes nobody;
  /\ Meeting!BrokenWakesAll /\ Meeting!CompleteWakesAll
  \* at the condition variable of a recursive lock that is free.
  /\ Recursive!SleepersWoken

\* Who is in a lock for writing, or in a fast lock at all, is in alone, whoever has
\* been woken, has overtaken others or has given up in the meantime; and what is
\* not made to be recursive is not entered twice (win32/FastLock.h:79-81).  Of the
\* ConditionRecursiveLock it holds until a woken thread meets an owner.
HoldersAlone ==
  /\ WritersAlone
  /\ barged \/ Spin!Alone
  /\ object \in OnceNames => \A t \in Threads : entries[t] <= 1

\* A fast lock that nobody uses is as it was made, after whatever attempts: its
\* destructor asserts it.  Who becomes the owner finds no other: acquire() asserts
\* it (DualMutexRecursiveLock.h:99).
LockAssertions ==
  /\ Spin!Unused => Spin!AsNew(FreeValue)
  /\ \A t \in Threads : at[t] = "own" => owner \in {None, t}

\* Who leaves an unbroken barrier has been met by all (Barrier.h:42).
NobodyPassesEarly == Meeting!NobodyPassesEarly

\* A thread has the locks that its Guards say it has (Guard.h:359-361).
HeldAsGuarded == Scoped!HeldAsGuarded

=============================================================================
