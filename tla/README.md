# ZThread in TLA+

ZThread 2.3.1 is a C++ threading library: threads that can be interrupted and
cancelled, mutexes, semaphores, conditions, barriers, queues, read/write locks
and executors. This directory models it in TLA+, from the Monitor that every
thread has up to the executors, checks the models with TLC and proves the most
important results with TLAPS.

The build that is modelled is the posix one, with `FastLock` a pthread mutex
and assertions compiled out: an `assert` is never a guard, it is a property. The
Monitors and the fast locks of the other ports are modelled as well.

Line numbers below are those of the files under `src/` of the repository; the
table from definition to lines is `map` in `PROJECT.json`.

## 1. Inventory

Nearly everything in the library rests on one idea. Every thread has one
**Monitor**. A synchronisation object keeps a list of waiting threads under a
lock of its own; a thread that must wait enters the list, gives up the object's
lock and waits on *its own* Monitor; a thread that releases the object scans
the list, and notifies the Monitor of a waiter whose Monitor it can lock.

| Component | State | Operations | Interacts with |
|---|---|---|---|
| `Status` (`Status.h`) | `_pending`, `_mask` | `push`, `clear`, `next`, `pending`, `masked`, `examine`, `interest` | part of each Monitor |
| `Monitor` (`posix/Monitor.*`) | Status, `_lock`, `_waitLock`, `_waitCond`, `_waiting`, `_owner` | `acquire`, `tryAcquire`, `release`, `wait`, `notify`, `interrupt`, `cancel`, `isInterrupted`, `isCanceled` | called by every blocking object, by `Thread::interrupt/cancel` |
| `MutexImpl` (`Mutex`, `PriorityMutex`, `PriorityInheritanceMutex`) | `_owner`, `_waiters`, `_lock` | `acquire`, `tryAcquire`, `release` | Monitors of the waiters |
| `RecursiveMutexImpl` | the same and an entry count | the same | Monitors |
| `SemaphoreImpl` (`Semaphore`, `CountingSemaphore`, `PrioritySemaphore`) | `_count`, `_maxCount`, `_entryCount`, `_waiters`, `_lock` | `acquire`, `tryAcquire`, `release`, `count` | Monitors |
| `ConditionImpl` (`Condition`, `PriorityCondition`) | `_waiters`, `_lock`, the predicate lock | `wait`, `signal`, `broadcast` | Monitors, any `Lockable` |
| `ThreadImpl`, `Thread` | `_state` (IDLE ... JOINED), `_joiners`, reference count, priority | `start`, `dispatch`, `join`, `sleep`, `yield`, `setPriority`, `interrupt`, `cancel` | Monitors, `ThreadQueue` |
| `ThreadQueue` | user, pending and reference threads, shutdown tasks, `_waiter` | insert and poll, destructor | `ThreadImpl`, Monitors |
| `BoundedQueue`, `BlockingQueue`, `MonitoredQueue`, `LockedQueue` | the elements, `_canceled` | `add`, `next`, `empty`, `cancel` | one lock and up to three conditions |
| `BiasedReadWriteLock`, `FairReadWriteLock` | active and waiting readers and writers | `acquire`, `tryAcquire`, `release` of each side | one lock, one or two conditions |
| `Barrier` | `_broken`, `_count`, `_generation`, a task | `wait`, `shatter`, `reset` | one lock, one condition |
| `PoolExecutor`, `ConcurrentExecutor`, `ThreadedExecutor` | task queue, threads, `WaiterQueue`: generations, groups of tasks and of threads that wait for them | `execute`, `interrupt`, `cancel`, `wait`, `size` | threads, `MonitoredQueue`, Monitors of those that wait |
| `SynchronousExecutor` | `_canceled`, a `Mutex` | the same | the submitting thread |
| `FastMutex`, `FastRecursiveMutex` and their thirteen locks | a word or a lock of the system, owner, count | `acquire`, `tryAcquire`, `release` | - |
| Monitors of the ports (`win32/`, `macos/`) | Status, `_lock`, `_waitLock`, an event or a semaphore | as `Monitor` | as `Monitor` |
| `Guard` and its policies | a lock and whether it is to be released | constructors, destructor | any `Lockable` |
| `PriorityInheritanceMutex` | the priorities of those that wait | hooks of `MutexImpl` | `MutexImpl` |
| `CountedPtr`, `AtomicCount`, `Task` | a reference count | add, release | everywhere |
| `ThreadLocal`, `TSS` | a map per thread | get, set, inherit | `ThreadImpl::start` |
| `Time`, `Singleton`, exceptions, build | - | - | - |

What is hard, and what makes each part correct:

* **Monitor.** Two locks and a gap between the end of the sleep and the return
  of `wait()`. Correct if no state that was set is ever lost, no blocked waiter
  sleeps on something it should report, and a deferred interruption survives.
* **MutexImpl, RecursiveMutexImpl, SemaphoreImpl, ConditionImpl.** A wait can
  end by a notification, an interruption or a timeout, while the notifier sees
  only that the waiter is listed and its Monitor free. Correct if the mutex is
  exclusive and the entries are counted right, permits are neither lost nor
  made up, a free object with waiters is on its way to one of them, and no
  entry or signal outlives its wait.
* **ThreadImpl, ThreadQueue.** Start, finish, join, reclaim and shutdown race
  each other; locks of two threads are held at once. Correct if `join` ends
  exactly when the thread has finished, nothing is used after it is deleted,
  and shutdown waits for the last thread and not forever.
* **Queues, Barrier, read/write locks.** They signal or broadcast, under their
  lock or just after it, to threads that may time out, be interrupted or be
  overtaken. Correct if nobody sleeps on beside what it waits for, also after
  an exception; if writers are alone; if a barrier lets nobody pass early.
* **Executors.** Tasks are counted under one lock and run elsewhere, and the
  lock is given up while a waiting thread is busy. Correct if the counts come
  back to zero, who waits returns, an accepted task ends, and an `interrupt()`
  does not reach tasks that are submitted later.
* **Fast locks.** Hand-made ones undo failures, look again and count in separate
  steps. Correct if exclusive, and as new when nobody uses them.
* **Guards.** They hand locks to each other. Correct if a thread has the locks
  that its Guards say it has, also when a lock could not be had back.

## 2. Plan

Done, in this order:

1. `Status`, `Monitor` and its abstract specification `StickyMonitor`;
2. `Waiting`, the lists and the discipline that all blocking objects share;
3. `MutexImpl`, `RecursiveMutexImpl` and `SemaphoreImpl` over `Waiting`;
4. `Mutexes`, one of the two mutexes, and proofs about both;
5. `ConditionImpl` over `Waiting`, and `AbstractCondition`, which it implements;
6. over abstract conditions: the queues, the read/write locks, the barrier;
7. `ThreadImpl`, with the `ThreadQueue` in it, and `Threads`: start, join, reclaim,
   the end of the program;
8. the executors over `WaiterQueue`;
9. the Monitors of the other ports, the fast locks, the Guards;
10. proofs about the three Monitors;
11. proofs about the semaphore, the condition and its refinement, the threads, and
    all the objects of `MCObjects`;
12. proofs about the executors.

Next:

* `PriorityInheritanceMutex`, which needs lists whose order changes;
  `sleep()`, `yield()` and priorities of `ThreadImpl`.
* A condition over the real `MutexImpl` as predicate lock, if that can be kept
  small enough.

## 3. Modules

* `Status` - the words `_pending` and `_mask` as sets of flags, `next()`, and
  the effect of each Monitor operation on `_pending`. Only the four flags the
  code defines are ever pushed, so `ANYTHING` stands for the rest of its bits.
* `Monitor` - one thread's Monitor at the grain of its lock operations. `pc`
  and `op` say where each thread is; `lock` and `waitLock` who holds the locks;
  `cond` what has become of the owner's `pthread_cond_(timed)wait`. The code
  between locking and unlocking `_waitLock` is one step, since every access to
  `_pending` and `_waiting` is made there; `interest()`, which takes no lock,
  is a step of its own.
* `StickyMonitor` - what the comments promise, with every operation one step:
  a state stays set until a wait reports it, and a wait with something to
  report does not sleep.
* `PortMonitor`, `Win32Monitor`, `MacMonitor` - the Monitors of the other ports,
  whose owner sleeps on an auto-reset event or on a semaphore. What they do
  under `_waitLock` is one step; the macOS one signals after it has given up
  `_waitLock`, which is a step of its own, and takes back a signal that came too
  late.
* `Monitors` - one of the three, chosen at the start, and their properties: the
  same for all, since their clients are the same.
* `Waiting` - first `Insert` and `Erase` of `fifo_list` and `priority_list`. A
  rank function covers both: constant for FIFO, injective for priorities
  (ties are broken by address, which is arbitrary but fixed). Then the list
  `_waiters`, the lock `_lock`, and the Monitor of every thread with its external
  lock visible; its own part is taken in the form of `StickyMonitor`, which is
  what run `monitor` justifies. `pc` is where a thread stands: `w_...` inside a wait, `r_...` while it looks for a waiter to
  notify. `cursor` is the iterator of the scan. The actions say what happens to
  these variables: enlisting, sleeping, waking, expiring, coming back; the
  scan, the backoff when every waiter is busy, the retry; and what outsiders do
  (interruptions, and observers that lock a Monitor for a moment as
  `setPriority()` and `isActive()` do).
* `MutexImpl`, `RecursiveMutexImpl`, `SemaphoreImpl` - `acquire`,
  `tryAcquire(0)`, `tryAcquire(timeout)` and `release`, each the actions of
  `Waiting` joined with what happens to the object's own fields: `owner`;
  `owner` and `count`; `count` and `entryCount`. `has` and `entries` record
  what the callers were told (who holds the mutex, how often it has entered);
  only the client reads them. They differ in what the scan does to the list:
  the mutexes leave the waiter in it, the semaphore takes off every waiter whose
  Monitor it could lock.
* `ConditionImpl` - `wait`, `wait(timeout)`, `signal` and `broadcast` over
  `Waiting`; `predicate` is the holder of the predicate lock, any `Lockable`
  that is taken and given back in one step. `AbstractCondition` is what it
  promises: release-and-wait is one step, a signal wakes one of those that
  wait or finds nobody, a broadcast ends when nobody is left.
* `Conditions` - the conditions of the classes that follow, in the form of
  `AbstractCondition`: `WaitOn`, `Finish` (which ends an operation and wakes
  `ToSignal` or `ToBroadcast`) and `CutShort`. A wait that was cut short may
  still be listed, swallow a signal, and carry it into the thread's next wait;
  `lost` remembers that this has happened.
* `Queues` with `BoundedQueue`, `MonitoredQueue`, `BlockingQueue`,
  `LockedQueue`; `ReadWriteLocks` with `BiasedReadWriteLock`,
  `FairReadWriteLock`; `Barrier` - one action for what each operation does with
  the lock held, between its start, its waits and its end. `LockedQueue` has no
  condition at all. `BiasedReadWriteLock` signals after it has given up its lock
  (`wakes`); `missed` remembers that such a signal came too late for a thread that
  had been interrupted. Of the barrier, `deserted` tells whether it was broken by a
  thread whose wait was cut short. Elements are a number; the barrier's `_count`
  wraps at `Word`.
* `ThreadImpl` - first the `ThreadQueue`: its lists, the shutdown tasks and `_waiter`,
  which is 0, 1 or the thread that waits in the destructor. Then `start`, `dispatch`,
  `join`, `interrupt`: `s_...` starting, `j_...` joining, `d_...` ending, with
  two locks held where the code holds two. `autoCancel` are the threads created with
  that flag, whose tasks run until they are cancelled. `Threads` - `Thread` objects
  (`handles`) and the end of the program by Main, `x_...`. `excused`, which only
  properties read, are the threads in a call that began with a SIGNALED left over
  from an earlier one, or whose wait ended for something else than a signal.
* `Executor` - clients, tasks and where each task is. `WaiterQueue` - groups and
  generations, of which `PoolExecutor.cxx` and `ThreadedExecutor.cxx` have a
  copy each; ids repeat as in the code. `earlier` (how many tasks had been submitted
  when a client called `wait()`, or 0 if a SIGNALED left over from an earlier `wait()`
  was there, which ends the call) and `repeated` (whether a group has got the id of
  another) are read by properties only. `PoolExecutor`, `ThreadedExecutor`,
  `SynchronousExecutor` - the rest of each. `ConcurrentExecutor` is a pool of one.
* `FastLocks` with `SpinLocks` (one atomic word), `SystemLocks` (a mutex of the
  system) and `RecursiveLocks` (made of other locks) - the thirteen classes
  that `FastMutex` and `FastRecursiveMutex` can be. `entries` is what callers
  were told; `value`, `holder`, `owner` and `depth` are the lock's.
* `Guards` - for each thread the Guards it has nested; `Create`, `Share`,
  `Transfer`, `Pass` and `Destroy` are their constructors and destructor.
* `Mutexes` - one of the two mutexes, chosen at the start, what their clients must do
  for everyone to be served, and the properties of the recursive one.
* `MCObjects`, `MCExecutors` - one object of many classes, chosen at the start. The other runs
  take a component's module as it is.
* `WaitingProofs`, `MutexesProofs`, `SemaphoreImplProofs`,
  `ConditionImplProofs`, `MonitorProofs`, `ThreadsProofs`, `ObjectsProofs`,
  `ExecutorsProofs` - section 6.

Definitions marked "Wrong on purpose" are variants of the definition that
follows them, with a plausible mistake. They are used by nothing; substituted
for the right one they show that a property can fail.

## 4. Runs

| Run | Instance | Shows |
|---|---|---|
| `monitor` | each port's Monitor: owner, 2 peers, spurious wakeups of the posix one | no missed wakeup; a wait has something to report; nothing set is lost; refinement of `StickyMonitor`, with its fairness |
| `mutexes` | 3 threads, a FIFO or a recursive mutex, the latter 2 deep, calm | the list is exact; exclusive; the recursive one's entries are counted right; the assertions (`MutexImpl.h:192`, `RecursiveMutexImpl.cxx:124`); no lost wakeup; no stale signal; every `acquire()` succeeds |
| `semaphore` | binary, 4 threads, calm | a notified thread has its permit; nobody sleeps beside a permit; every `acquire()` succeeds |
| `semaphore_all` | binary, 2 threads, priorities, 1 observer, interruptions and timeouts | the counts keep their bounds; the entry count; no internal lock is stuck |
| `condition` | 2 threads that wait, 2 that signal and broadcast, one of them both; interruptions | refinement of `AbstractCondition`; nobody taken off the list sleeps on; `broadcast()` reaches all |
| `objects` | 3 threads on each queue, read/write lock, barrier and fast lock, 2 on Guards; timeouts and interruptions | nobody is forgotten, where no signal was lost on a wait that had been cut short; writers and holders are alone; locks come back as new; nobody passes a barrier early; Guards mean what they say; `cancel()` ends every `next()` |
| `threads` | Main, which is interrupted and joins with timeouts, and 2 threads, either or both of which may be cancelled at the end; a shutdown task | references exact; `join()` ends when and only when the task has, but for `Embrace`; the end waits, and comes |
| `executors` | one client that submits up to 3 tasks, one that waits, interrupts, cancels and resizes, on each executor | counts exact; who returns from `wait()` in time was right to, whichever waits are cut short; a later task is not reached by an earlier `interrupt()`; who waits returns; accepted tasks end |
| `mutex_timeout` | 3 threads, timeouts | **violated**: exclusive (`MutexImpl.h:127`) |
| `threads_use` | Main and 2 threads | **violated**: a reference is added to an object that exists (`IntrusivePtr.h:64`) |
| `executors_ids` | 4 tasks, one client that submits them, one that waits | **violated**: all tasks submitted before `wait()` have completed when it returns (`ThreadedExecutor.h:50`) |
| `monitor_macos` | macOS, owner that defers interruptions, 1 peer | **violated**: "signaled and released" (`macos/Monitor.h:122`) |

"Calm" is: nobody is interrupted and nobody waits with a timeout.

`mutex_timeout`: `Monitor::wait()` fixes its result under `_waitLock` (line
131), unlocks it, and only then takes `_lock` back (line 139). In between, a
releasing thread finds the waiter listed and its Monitor free, and `notify()`
succeeds. The waiter leaves with TIMEDOUT and carries SIGNALED into its next
wait, which takes it for ownership.

`threads_use`: `Thread(task)` creates a `ThreadImpl`, whose constructor starts
the thread, and then adds the reference of the `Thread` object (`Thread.cxx:42`).
By then the thread may have ended and given up its reference, and a third thread
that creates one may have reclaimed it and given up the last: the object has
been deleted.

`executors_ids`: the first group has id 0, and `_id` is 1. Its task ends, no group is
left, and `Group(++_id)` makes one with id 2 (`ThreadedExecutor.cxx:273`). The second
task joins that, and a thread waits for it. The third joins it as well and brings a new
group, `Group(_id++)` (line 193), which has id 2, too. The fourth joins the new group,
but is counted off the first one with id 2, which comes down to zero with it and the
third: the waiter returns, while the second task has yet to run. If the waiter is busy
at that moment, the second task is counted off the same group, whose count wraps
below zero, and the waiter sleeps forever; a comment at line 268 says that line 273
"later caused lockup". As long as no id repeats `wait()` is right:
`WaitMeansDone`, in run `executors` and in section 6.

`monitor_macos`: an `interrupt()` of a waiter that masks INTERRUPTED sets
`_pending` and does not signal the semaphore. The `notify()` that follows finds
`_pending` set and does not signal either. (The Monitors of the other ports look
at the mask before they decide.)

## 5. Bounds and fairness

The bounds, and why the interesting cases fit:

* Monitors: an owner, which is the only thread that waits, and two peers, so
  that one may act between any two steps of another. Nothing is counted.
  `Deferring` names the ports whose owner uses `DeferredInterruptionScope`.
* Mutexes: three threads are the fewest for which a waiter can be overtaken by
  another and a newcomer can meet an owner on its way. `MaxDepth` is how often
  a thread enters a recursive mutex: two, so that an inner release differs from
  the last.
* Semaphores: two threads use permits up, one may give back what it takes, one
  makes permits, so that permits come and go independently of who waits. With
  everything that disturbs waits there are two threads and one observer; two
  observers do no more, since each holds a Monitor only for a moment.
* Condition: two sleepers, so that a signal has a choice and a broadcast a
  rest; the second of two wakers also sleeps.
* Objects: three threads. `MaxSize` is the capacity of the bounded queue: two, so
  that it is empty, full or neither; the other queues stop there, too. For the barrier, `Count`
  threads meet; `MaxLate` comes too late once; `MaxRounds` is how many rounds
  and resets there are. `Word` stands for 2^32: large enough that the wrapped
  `_count` does not come down to zero again. `ResetsAnytime` is FALSE: `reset()`
  is called when nobody is in `wait()` (section 7). `MaxDepth` as above.
  `GuardThreads` are two, and `MaxGuards`, how deep Guards are nested, is
  four: a Guard that takes over from one that took over, and one that takes over
  inside a scope that has been unlocked and locked again. `Locks` has one lock
  that can be interrupted and checks its owner (`Checked`), and one that does not.
* Threads: `N` is how many threads are created, besides Main: two, so that one
  can reclaim another while it creates a third party's. `Creators` may create
  threads, and those of `AutoCancel` may be created to run until they are
  cancelled: both, so that a thread that joins another, and the one that is joined,
  are cancelled by the destructor. `Disturbed` may be interrupted and join with a
  timeout: Main, so that waits are cut short by cancellation, interruption and
  timeouts; in `threads_use` the first thread too.
* Executors: `MaxTasks` is three, one less where waits are cut short: a group
  that is waited for, one behind it, and one that comes while the first is
  counted off. Three tasks are enough for two groups with one id, and in
  `executors_ids` four are the fewest by which a thread that waits is misled.
  `MaxSize` bounds the pool, `MaxInterrupts` the generations.
  A behaviour has one kind of `trouble`: waits that are cut short, interrupts,
  or cancellation and changes of size. An entry that `wait()` has left behind
  in a group whose id is not unique is there once at most (`LeftBehind`).

Fairness: a thread that can take its next step takes it (weak), and one that
keeps finding a lock free gets it in the end (strong; pthread mutexes do not
starve a thread forever, and where the code spins it yields). In `Monitors` a
thread that holds the lock does not call `notify()` forever. For
`AcquireSucceeds` the clients do their part: whoever holds a mutex releases it
some day, whoever is in the recursive mutex leaves it often enough, and the
semaphore's releasers keep releasing. For `CancelEndsNext` a thread that has been
woken goes on. In `threads` tasks end, except that those of autoCancel threads
end when they are cancelled. In `executors` one of the threads that can go on
does: no single thread is promised anything. Nobody has to call anything else, no
timeout has to expire and no interruption or spurious wakeup has to come.

`AcquireSucceeds` is checked without observers, and needs that: an observer that
happens to hold the first waiter's Monitor at every release makes the scan pass
that waiter over again and again, while others come and go.

Deadlock is checked where the clients never stop. It is not in `condition`,
`objects` and `executors`, where nobody has to signal, to add an element or to
submit a task, so that all threads may wait; nor in the runs of `Threads`, which
end with the program.

Waits are cut short in `objects`, `threads` and `executors`, by timeouts,
interruptions and cancellation, and the properties say what remains true then. Where
the code itself goes wrong they name the event, and no more:

* Of a queue and a biased read/write lock the code promises nothing once a signal
  has reached a thread whose wait had been cut short, since it is not passed on
  (`lost`, `missed`). A wait that is cut short without that disturbs nobody.
* A barrier that is broken by a thread whose own wait was cut short wakes nobody
  (`deserted`).
* A `join()`, a `wait()` of an executor and Main's wait at the end may end for a
  SIGNALED left over from the caller's own previous wait: that one call is
  excepted (`excused`, `earlier`).
* A joiner whose wait was cut short and the thread that it joins can lock each other
  out for ever (`Embrace`): `JoinersReturn` and `EndComes` say that nothing else keeps
  a joiner or the end from returning.

## 6. Proofs

The theorems are about the specification of each module, for any threads, observers and rank function, any
depth, size and count. They assume what the constants are
(`WaitingAssumption`, `SemaphoreAssumption`, `MutexesAssumption`,
`MonitorAssumption`, `PortsAssumption`, `ThreadQueueAssumption`,
`ConditionsAssumption`, `QueuesAssumption`, `ObjectsAssumption`,
`ExecutorAssumption`, `PoolAssumption` and the like, each
declared beside its constants), and some of them that the environment is calm.
Each invariant named here was model-checked before it was proved, and is proved
one action at a time.

Objects over `_waiters` and `_lock`, in every environment:

* `WaitingProofs`: which elements a list has after `Insert` and `Erase`, and that
  nobody comes to be listed twice. `WaitInv` - types, the list, and who holds
  `_lock` and the Monitors' locks - is kept by each kind of step. The three need
  each other: that `erase` yields a list of threads is known for a thread listed
  once. From it follow `TypeCorrect`, `WaitersExact` and `LocksExact` of both
  mutexes.
* `DropInv` is its counterpart for the objects whose scan takes waiters off the list
  (semaphore, condition). Who is off the list has something to wake up for; for
  that, whoever is on its way into a sleep must hold its Monitor (`MonitorsHeld`)
  and still be listed (`StillListed`).
* `SemaphoreImplProofs`: `SemaphoreInv` is `DropInv`, the entry count, and the upper
  bound of the count. It yields `SemaphoreTypes`, `EntriesCounted`,
  `UnlistedWaitersWake`.
* `ConditionImplProofs`: `ConditionInv` adds how each wait can end (`EndsInv`).
  It yields `UnlistedWaitersOfConditionWake` and `ConditionImplements`: every
  behaviour of a `Condition` is one of `AbstractCondition`, interruptions and timeouts
  included. Every step is an abstract step of the thread that
  takes it or of the waiter it strikes, or a stutter. It needs `DropInv`: a call that
  comes back without having met a waiter must find nobody blocked.

In the calm environment:

* `WaitingProofs` also follows the right to be the next owner, the *grant*. A
  release creates it; it is first the scanning thread, then the SIGNALED in the
  Monitor of one sleeping waiter, then that waiter on its way back.
  `SignalsExact`: where signals can be; it needs the locks, because a waiter
  that has not gone to sleep, or is on its way back, is protected from a second
  notification by its Monitor's lock. `OneGrant`: there is at most one grant,
  none while there is an owner, and one whenever a free mutex has waiters. Both
  are `GrantInv`, stated for any object that has an owner.
* `MutexesProofs` adds for the mutex who was told to hold it (`OwnerInv`), and for the
  recursive one the entries and the count (`EntryInv`). The lists and waits of the two
  are the same, but each names its own state: `RecursiveStatus` to
  `RecursiveOutsiders` carry over what is known of each step of a wait. It yields
  `Exclusive`, `OnlyOwner`, `ComesBackFree`, `WakeupKept`, `SignalsConsumed`.
* `SemaphoreImplProofs`, for a semaphore with a maximum of one (`Binary`): its
  permit is in the count while nobody waits, and on its way to one thread
  otherwise (`OnePermit`). It yields `PermitKept` and `SleepersWithoutPermit`.

The calm environment is not a convenience: run `mutex_timeout` refutes the same
properties with timeouts, and section 7 has the case with interruptions. Nor is
the maximum of one: section 7 has the case of two permits.

For the Monitors of the three ports, with any number of peers:

* `MonitorProofs`: `PortsInv` says for each port how what has become of the sleep
  fits the state that is pending. posix: who holds `_waitLock`, that nobody goes to
  sleep or sleeps unsignaled beside a state to report, and that the result of a
  sleep has its reason. win32: the event of a sleeping owner is set exactly if
  there is something to report. macos: there is one signal for the semaphore,
  given or about to be given, exactly if there is a state to report; it needs that two
  peers are never about to give it at once. `NotifyReleases` alone is not
  inductive: it says nothing of an owner that is about to sleep.
* From it follow `PortsTypes`, `WakeupsKept`, `ReportsWanted`, `NothingDropped`
  and `StickySteps`: every step is one of `StickyMonitor` or a stutter.
* They assume that the owner of a macOS Monitor does not defer interruptions
  (`"macos" \notin Deferring`); without that run `monitor_macos` refutes them.

For threads, any number of them:

* `ThreadsProofs`: `ReferencesExact` rests on who may touch which count. A thread is
  created by one other, which is older and has its Monitor until the thread is
  inserted (`Order`, `Creating`, `OwnLocked`), and is on the list of pending
  threads once, from the moment it gives itself up (`PendingsExact`). With these it
  is inductive, and yields `ReferencesCounted`.
* `ThreadsInv` adds who is on the other lists, whom `dispatch()` has still to
  notify, and `SignalsMean`: what a signal that is pending, or that ended a wait, means
  to a thread that is not `excused` (`Meant`) - the joined thread is over, or, to Main
  at the end, all are. A signal that is left over when a call begins means nothing, and
  excuses it; whoever notifies means it; and no other step makes one. It yields
  `ProgramEndsLast` and `JoinedTaskIsOver`, whichever waits have been cut short
  before.

For the objects of `MCObjects`, any number of threads, in behaviours with any
interruptions and timeouts; `NobodyIsForgotten` and `NobodyLeavesEarly` have the
exceptions of section 5:

* `ObjectsProofs`, `FastInv`: for each family of locks how its word, owner and depth
  fit the entries of the threads: linux's word counts down who is inside and who
  has yet to undo its failure (`CountedDown`), other words have one bit
  (`OneBit`), a system lock has an owner (`SystemOwned`), between the two steps
  of win32's debug build there is nobody but the owner (`FlagOwned`), and so on
  for the recursive ones. It yields `LocksAssert` and, with `RWInv`,
  `EveryHolderAlone`.
* `RWInv` for the read/write locks. Of the biased one `SignalOwed` is needed: whoever
  still has to signal after it left owes it to somebody that sleeps, as long as no such
  signal is missed.
* `WaitInv` for the queues, in terms of one step that all four of them refine
  (`QueueMove`); of the bounded one `RoomUsed`: nobody sleeps for room that nobody
  was woken to use. With `RWInv` it yields `NobodyIsForgotten`.
* `MeetingInv` for the barrier: who sleeps came in the present round. It
  yields `NobodyLeavesEarly` where `reset()` is called only while nobody is in
  `wait()`; and it showed how large `Word` has to be (`BarrierAssumption`): for late
  comers the wrapped count must not come down to the start of a round again.
* `GuardInv`: the Guards that a thread has for one lock take turns (`TakeTurns`), and
  the innermost of them says who has it. It yields `GuardsHold`. Its proof found that
  `HeldAsGuarded` fails with four nested Guards for an `OverlappedScope` that
  takes over from other than the innermost Guard (section 7).
* `ObjectsTypes` collects the types from all of these.

For the executors, any number of tasks, clients and threads of a pool:

* `ExecutorsProofs` first follows the list of groups for itself. `Exact` says of a
  list, of the next id and of the sets of tasks with each id that ids rise, but for the
  first two groups, which may be *twins* with one id; that each group counts its tasks,
  and twins do so together; and that every task has a group. It is kept by adding
  a task to the last group, appending a group, counting a task off the first group with
  its id, and removing groups from the front: that nothing is lost with
  twins is because they stand first, the first of them is searched first, and it
  can be removed only when its count is zero, which leaves the rest to the other.
  Without naming the twins nothing about counts is inductive.
* `WaiterInv` relates this to tasks and clients: tasks are submitted in order
  (`InOrder`), the tasks that a client waits for are in its group or before it
  (`EarlierInv`), groups list those that wait for them, once (`ListedInv`), and who
  has a signal that its wait takes, or has taken it (`Told`), finds the tasks done
  (`ToldInv`). The last two
  hold while no id has been given twice. Each operation of `WaiterQueue` is shown to
  keep it, once for all executors.
* `PoolInv` adds what threads have in hand and what is queued (`JobsInv`,
  `QueueInv`), and that no task is from a generation to come (`SinceInv`); `PerTaskInv`
  that each thread has its own task; `AtOnceInv` that a `SynchronousExecutor` tells
  nobody anything. Together they are `IInv`, from which follow `TasksCounted`,
  `WaitersToldRightly` and, as a property of each step, `FreshStart`.
* `WaitersToldRightly` is about each wait that is not itself cut short and did not
  begin with a signal left over from one that was, whichever other waits are; and it
  stops where an id repeats: beyond that run `executors_ids` refutes it.
  `TasksCounted` does not: even then no group is removed too early.

Only model-checked: all liveness - `AcquireSucceeds`, `InternalLocksFree`, `BroadcastReaches`, `JoinersReturn`,
`EndComes`, `WaitersReturn`, `TasksDone`, `CancelEndsNext`, the fairness of
`StickyMonitor` - since the prover does not do fairness or ENABLED. No
theorem is about a recursive definition: there is none in the models.

## 7. Not modelled, and what the models found

`components` in `PROJECT.json` lists each part with the reason. Left out:

* `PriorityInheritanceMutex` and changes of priority while a thread waits; the
  lists have a fixed order.
* `sleep()`, `yield()` and `setPriority()` of `ThreadImpl`; reference threads
  other than Main; thread-local storage, private to a thread.
* `CompoundScope`, which pairs two policies; of the win9x spin lock `tryAcquire()`,
  which does not set its result, and of linux's the field `_owner`, which only debug
  builds read.
* `Singleton`'s double check reads its pointer unsynchronised: undefined, with
  nothing to follow in a model. `AtomicCount` and `CountedPtr` are single counters.
* Clocks: a timeout may expire at any moment of a timed wait.
* `pthread_cond_wait` returning for no reason, in `ConditionRecursiveLock`: the
  owner could then be overwritten without any other thread's doing.
* Build files and web pages.

Differences between code and documentation, and mistakes of the code, that came up
while modelling. The models behave as the code does; but for the four that section 4
tells of no run is spent on these.

Monitor and Thread:

* A spurious end of `pthread_cond_wait` ends `wait()` with nothing to report
  (`posix/Monitor.cxx:93`; "Akwaken only when a state is pending", line 95). This is
  modelled in `Monitor` only. That it does not happen is an assumption of all models of
  the Monitor's clients, which then would take their `default:` branches: the mutexes,
  semaphores, conditions and `WaiterQueue::wait()` throw `Synchronization_Exception`
  (`PoolExecutor.cxx:143-144`), and `join()` returns true although the thread still
  runs (`ThreadImpl.cxx:179-180`). The properties of `join()` and `wait()` hold on
  that assumption; the win32 and macOS Monitors have no such wakeups.
* `isCanceled()` is documented to clear the interrupted status
  (`Thread.h:333-334`). `Monitor::isCanceled()` clears it only when `_owner`
  is the caller (`posix/Monitor.cxx:197`), and only `wait()` sets `_owner`:
  a thread that has not waited yet keeps its interruption.
* `Thread::interrupt()` is documented to tell whether the thread was blocked
  (`Thread.h:304-305`). For a thread blocked in a wait that defers interruptions it
  answers as if the thread were not (`posix/Monitor.cxx:164`).
* A SIGNALED left over from an earlier wait ends `join()` early
  (`ThreadImpl.cxx:161`). A joiner whose wait ends by itself during the second pass of
  `dispatch()` deadlocks with the thread that it joins (`ThreadImpl.cxx:161` and
  `:452`): each holds its own Monitor and wants the other's. It takes no interruption
  by the program: `~ThreadQueue()` itself cancels the threads with `autoCancel`, and
  if one of them joins another the destructor may wait for ever. `JoinersReturn` and
  `EndComes` name this case (`Embrace`).
* The destructor of `ThreadQueue` reads its lists without the lock
  (`ThreadQueue.cxx:107`): between the two halves of `insertPendingThread()`
  it finds one thread pending and none running, and the program ends before
  the last thread has been reclaimed, against lines 103-106. `_waiter` toggles
  whenever the list of running threads becomes empty (line 146), so that the
  destructor may not wait for threads that are created afterwards, and a thread
  that is created meanwhile is cancelled at once (line 170). A shutdown task that
  is removed too late is run although `removeShutdownTask()` answers true
  (lines 71-76).

Mutexes and semaphores:

* `release()` can notify a waiter that is leaving with INTERRUPTED; the wakeup is
  lost and the free mutex keeps its sleepers ("one will be selected ... and
  specifically awakened", `MutexImpl.h:309`, `:350`).
* A `Mutex` grants access in FIFO order (`Mutex.h:48`), but a release skips a
  waiter whose Monitor is locked (`MutexImpl.h:353`), and a later one comes
  first.
* The stale SIGNALED of a timed `tryAcquire()` exists for `RecursiveMutexImpl`
  as for `MutexImpl` (`RecursiveMutexImpl.cxx:255`, against
  `RecursiveMutex.h:72`).
* `SemaphoreImpl::release()` that finds every waiter busy gives up `_lock`
  (`SemaphoreImpl.h:325`) and goes on scanning as if its permit were still there;
  with two permits the count falls to -1 (against `Semaphore.h:44`). A newcomer
  that finds a positive count queues behind a waiter that is already leaving
  (`SemaphoreImpl.h:146`), and nobody wakes it (against `Semaphore.h:126`). With
  one permit neither can happen: run `semaphore`.
* `PrioritySemaphore` wakes by priority (`PrioritySemaphore.h:45-46`), but
  `tryAcquire()` appends to the list (`SemaphoreImpl.h:219`), which stays
  unsorted until the next `acquire()`. Equal priorities are ordered by address
  (`Scheduling.h:66`), so that a thread may be overtaken forever by its equals.
* `PriorityInheritanceMutex` gives the priority of the old owner to the thread that
  arrives, against its comment.

Queues, barrier, read/write locks:

* `BoundedQueue::cancel()` does not wake threads that wait in `add()`
  (`BoundedQueue.h:271`), although "any threads blocked by an add() function will throw"
  (line 266): `CancelEndsNext` is about `next()`. `empty(timeout)` ignores how its wait
  ended.
* A signal that reaches a thread whose wait has been cut short is not passed on by the
  queues, nor by a `BiasedReadWriteLock`. That one also decides whom to wake before it
  does (`BiasedReadWriteLock.h:219`): if it counted on a thread that has been
  interrupted, it finds nobody at that condition, and others sleep on at the other.
* Attempts on a `BiasedReadWriteLock` answer false although they entered, and go
  on past their timeout (`BiasedReadWriteLock.h:176`).
* A writer that leaves a `FairReadWriteLock` signals nobody
  (`FairReadWriteLock.h:144`): a second writer waiting on `_cond` sleeps on
  although nobody is inside. It is not first come first served, and
  `tryAcquire(timeout)` of the reader ignores its timeout.
* A thread that is interrupted or runs out of time in `Barrier::wait()` sets `_broken`
  without waking the others (`Barrier.h:170`), which go on sleeping although "all
  threads present at the Barrier will throw" (lines 52-53); that a timeout breaks the barrier at
  all is against its documentation. `_count` is not set back after a round. An
  exception of the task that is no `Synchronization_Exception` is swallowed when
  assertions are compiled out (lines 150 and 251): the round ends without a new
  generation. `reset()` while threads are in `wait()` lets some pass early.

Executors:

* Ids of groups repeat (`++_id` at `PoolExecutor.cxx:254`, `_id++` elsewhere): run
  `executors_ids`. Entries of threads that have gone stay in the lists, too, and
  `WaitersReturn` is about behaviours in which no id has been given twice.
* A rejected `execute()` reads the group of a task that has been deleted
  (`PoolExecutor.cxx:420`); the model goes on with what the group was.
* A thread that leaves by cancellation does not unregister, and `std::remove()`
  without `erase()` leaves the list of threads as long as it was
  (`PoolExecutor.cxx:403`, `ThreadedExecutor.cxx:371`). `interrupt()` goes through all of
  it (`PoolExecutor.cxx:436-437`, `ThreadedExecutor.cxx:397-398`), pointers to threads
  that have ended and been deleted included: undefined behaviour. In the model it
  reaches the threads that have not ended, and leaves out the others.
* `interrupt()` raises the generation and then interrupts one thread after the other. A
  task that is submitted and begun in between is interrupted; and a thread that reads the
  generation before it was raised takes an interruption that comes thereafter
  away from its older task (`PoolExecutor.cxx:485-491`). `CleanSlate` is only about
  what a task finds when it begins.
* `ThreadedExecutor::execute()` ignores `cancel()` (`ThreadedExecutor.h:81`); a
  thread that cannot be created leaves its task counted; one that reads the
  generation before `interrupt()` and registers after it is not interrupted
  (`ThreadedExecutor.cxx:355`).

Locks and Guards:

* `ConditionRecursiveLock::acquire()` does not look again after its wait
  (`posix/ConditionRecursiveLock.h:88-95`): a woken thread can overwrite an owner
  that came between. `HoldersAlone` holds until then (`barged`).
* linux's spin lock may refuse a free lock while another thread undoes its
  failure; the macOS `FastLock` is recursive; `tryAcquire()` of the win32
  `FastLock` by its holder spins forever.
* A Guard with an `OverlappedScope` releases the lock of whichever Guard it is
  given (`Guard.h:318`). If that is not the Guard by which the thread has the lock
  now, but one outside an `UnlockedScope` inside which the lock has been taken
  again, the inner Guard is left without its lock. `Transfer` is given the
  innermost Guard of its lock: `HeldAsGuarded` is about programs that do so.
* `UnlockedScope` may be interrupted when it takes its lock back, and `~Guard`
  swallows the exception (`Guard.h:490-499`): the block goes on without the lock
  (`unguarded`).
