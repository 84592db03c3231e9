----------------------------- MODULE ThreadImpl -----------------------------
(***************************************************************************)
(* src/src/ThreadImpl.cxx over src/src/posix/ThreadOps.cxx: how a thread   *)
(* comes to run its task, ends and is joined, and who still refers to it.  *)
(* Each thread has one Monitor: join() uses the external lock of the       *)
(* joined thread's Monitor to guard that thread's state and joiners, and   *)
(* waits on the Monitor of the calling thread.                             *)
(*                                                                         *)
(* The first part is src/src/ThreadQueue.cxx: the lists of threads that    *)
(* run and of threads that have ended and are to be reclaimed, under one   *)
(* lock, and what the thread that unloads the library waits for.           *)
(*                                                                         *)
(* Threads are numbered in the order in which they are created.  Main is   *)
(* the one thread that the library did not create: a reference thread.     *)
(*                                                                         *)
(* As in module Waiting each lock that a thread may have to wait for is    *)
(* acquired in a step of its own.                                          *)
(***************************************************************************)
EXTENDS Naturals, Sequences, SequencesExt, Status

(* ThreadQueue *)

CONSTANTS
  N,      \* a bound of the model: how many threads are created
  Tasks,  \* the shutdown tasks
  None    \* nobody: a lock that is free

ASSUME ThreadQueueAssumption == N \in Nat /\ None \notin 0 .. N

Main    == 0
Impls   == 1 .. N
Threads == {Main} \cup Impls

VARIABLES
  userThreads,     \* _userThreads
  pendingThreads,  \* _pendingThreads
  shutdownTasks,   \* _shutdownTasks
  qlock,           \* holder of _lock
  waiter           \* _waiter: "none" for 0, "one" for 1, "main" for Main's impl

queueVars == <<userThreads, pendingThreads, shutdownTasks, qlock, waiter>>

QueueTypeOK ==
  /\ userThreads \subseteq Impls
  /\ pendingThreads \in Seq(Impls)
  /\ shutdownTasks \subseteq Tasks
  /\ qlock \in Threads \cup {None}
  /\ waiter \in {"none", "one", "main"}

QueueInit ==
  /\ userThreads = {}
  /\ pendingThreads = <<>>
  /\ shutdownTasks = {}
  /\ qlock = None
  /\ waiter = "none"

\* insertUserThread(): into the list under _lock, which is kept
InsertUser(t, i) ==
  /\ qlock = None
  /\ qlock' = t
  /\ userThreads' = userThreads \cup {i}
  /\ UNCHANGED <<pendingThreads, shutdownTasks, waiter>>

\* while pollPendingThreads() takes off one after the other,
TakePending ==
  /\ pendingThreads # <<>>
  /\ pendingThreads' = Tail(pendingThreads)
  /\ UNCHANGED <<userThreads, shutdownTasks, qlock, waiter>>

\* until there is none; if _waiter is set the new thread is cancelled.
UserInserted ==
  /\ pendingThreads = <<>>
  /\ qlock' = None
  /\ UNCHANGED <<userThreads, pendingThreads, shutdownTasks, waiter>>

\* insertPendingThread(): t takes itself off the one list
RemoveUser(t) ==
  /\ qlock = None
  /\ qlock' = t
  /\ userThreads' = userThreads \ {t}
  /\ UNCHANGED <<pendingThreads, shutdownTasks, waiter>>

\* Wrong on purpose: whoever unloads the library is never told.
Drained_Silent == FALSE

\* the last one wakes Main if Main waits already
Drained == userThreads = {} /\ waiter = "main"

\* and puts itself on the other; if Main does not wait yet the last one makes
\* a note of that, or takes the note back.
AddPending(t) ==
  /\ pendingThreads' = Append(pendingThreads, t)
  /\ qlock' = None
  /\ waiter' = IF userThreads # {} \/ waiter = "main" THEN waiter
               ELSE IF waiter = "none" THEN "one" ELSE "none"
  /\ UNCHANGED <<userThreads, shutdownTasks>>

\* The first part of ~ThreadQueue().  The tasks it is about to run stay listed.
Unload ==
  /\ qlock = None
  /\ waiter' = "main"
  /\ UNCHANGED <<userThreads, pendingThreads, shutdownTasks, qlock>>

\* insertShutdownTask(): the task is kept only as long as _waiter is 0.
InsertShutdownTask(k) ==
  /\ qlock = None
  /\ shutdownTasks' = IF waiter = "none" THEN shutdownTasks \cup {k}
                      ELSE shutdownTasks
  /\ UNCHANGED <<userThreads, pendingThreads, qlock, waiter>>

RemoveShutdownTask(k) ==
  /\ qlock = None /\ k \in shutdownTasks
  /\ shutdownTasks' = shutdownTasks \ {k}
  /\ UNCHANGED <<userThreads, pendingThreads, qlock, waiter>>

-----------------------------------------------------------------------------
(* ThreadImpl *)

CONSTANTS
  Creators,    \* the threads that create threads
  AutoCancel,  \* bounds of the model: the threads that may be created with autoCancel
  Disturbed    \* and those that are interrupted or join with a timeout

ASSUME ThreadImplAssumption ==
  Creators \subseteq Threads /\ AutoCancel \subseteq Impls /\ Disturbed \subseteq Threads

VARIABLES
  lifecycle,  \* _state
  count,      \* _count of the IntrusivePtr
  joiners,    \* _joiners
  mlock,      \* holder of the external lock of each _monitor
  pending,    \* _pending of each _monitor
  result,     \* what each thread's last wait() returned
  target,     \* the thread that each thread creates or joins
  cursor,     \* the iterator of dispatch() into its _joiners
  pc,         \* where each thread is
  autoCancel, \* the threads whose _autoCancel is set: they run until canceled
  excused     \* the threads in a join() that began with a signal left over from an
              \* earlier one, or whose wait has been cut short: for the properties

implVars == <<lifecycle, count, joiners, mlock, pending, result, target,
              cursor, pc, autoCancel, excused>>

Starting == {"s_insert", "s_poll", "s_handle"}
Joining  == {"j_enter", "j_own", "j_wait", "j_sleep", "j_woken", "j_back"}
Ending   == {"d_easy", "d_rest", "d_remove", "d_push", "d_drop", "gone"}
Leaving  == {"x_tasks", "x_lock", "x_wait", "x_sleep", "x_woken", "x_poll",
             "x_done"}

ImplTypeOK ==
  /\ lifecycle \in [Threads -> {"REFERENCE", "IDLE", "STARTING", "RUNNING", "JOINED"}]
  /\ count \in [Threads -> 0 .. 3]
  /\ joiners \in [Threads -> Seq(Threads)]
  /\ mlock \in [Threads -> Threads \cup {None}]
  /\ pending \in [Threads -> SUBSET Flags]
  /\ result \in [Threads -> States]
  /\ target \in [Threads -> Threads]
  /\ cursor \in [Threads -> Nat]
  /\ pc \in [Threads -> {"unborn", "born", "task", "d_lock"} \cup Starting
                          \cup Joining \cup Ending \cup Leaving]
  /\ autoCancel \subseteq AutoCancel
  /\ excused \subseteq Threads

ImplInit ==
  /\ lifecycle = [t \in Threads |-> IF t = Main THEN "REFERENCE" ELSE "IDLE"]
  /\ count = [t \in Threads |-> IF t = Main THEN 1 ELSE 0]
  /\ joiners = [t \in Threads |-> <<>>]
  /\ mlock = [t \in Threads |-> None]
  /\ pending = [t \in Threads |-> {}]
  /\ result = [t \in Threads |-> INVALID]
  /\ target = [t \in Threads |-> t]
  /\ cursor = [t \in Threads |-> 0]
  /\ pc = [t \in Threads |-> IF t = Main THEN "task" ELSE "unborn"]
  /\ autoCancel = {}
  /\ excused = {}

Goto(t, label) == pc' = [pc EXCEPT ![t] = label]
Lock(u, t)     == mlock' = [mlock EXCEPT ![u] = t]
Unlock(u)      == mlock' = [mlock EXCEPT ![u] = None]

\* A call returns, and with it its local variables are gone.
Return(t) ==
  /\ Goto(t, "task")
  /\ target' = [target EXCEPT ![t] = t]
  /\ result' = [result EXCEPT ![t] = INVALID]
  /\ excused' = excused \ {t}

Add(i) == count' = [count EXCEPT ![i] = @ + 1]
Del(i) == count' = [count EXCEPT ![i] = @ - 1]

\* Main waits for the last thread with interruptions deferred.
Mask(t) == IF pc[t] \in {"x_wait", "x_sleep", "x_woken"} THEN {SIGNALED}
           ELSE ANYTHING

\* A thread is created once those before it have been.
Unborn(i) ==
  i \in Impls /\ pc[i] = "unborn" /\ \A u \in Impls : u < i => pc[u] # "unborn"

-----------------------------------------------------------------------------
(* start(), called by the constructor, and Thread's own reference. *)

\* Under its own lock the new thread is STARTING and spawned.  If that fails
\* the exception ends the constructor and nothing is left of the thread.
Spawn(t, i) ==
  /\ pc[t] = "task" /\ t \in Creators /\ Unborn(i)
  /\ lifecycle' = [lifecycle EXCEPT ![i] = "STARTING"]
  /\ count' = [count EXCEPT ![i] = 1]
  /\ Lock(i, t)
  /\ target' = [target EXCEPT ![t] = i]
  /\ pc' = [pc EXCEPT ![t] = "s_insert", ![i] = "born"]
  /\ autoCancel' \in {autoCancel, autoCancel \cup ({i} \cap AutoCancel)}
  /\ UNCHANGED <<joiners, pending, result, cursor, excused, queueVars>>

\* Wrong on purpose: the list has no reference of its own.
Insert_Unreferenced(t) ==
  /\ pc[t] = "s_insert"
  /\ InsertUser(t, target[t])
  /\ Goto(t, "s_poll")
  /\ UNCHANGED <<lifecycle, count, joiners, mlock, pending, result, target,
                 cursor, autoCancel, excused>>

\* Its reference, and into the list of user threads,
Insert(t) ==
  /\ pc[t] = "s_insert"
  /\ InsertUser(t, target[t])
  /\ Add(target[t])
  /\ Goto(t, "s_poll")
  /\ UNCHANGED <<lifecycle, joiners, mlock, pending, result, target, cursor, autoCancel, excused>>

\* the threads that have ended are joined and lose a reference,
Reclaim(t) ==
  /\ pc[t] \in {"s_poll", "x_poll"}
  /\ TakePending
  /\ pc[Head(pendingThreads)] = "gone"
  /\ Del(Head(pendingThreads))
  /\ UNCHANGED <<lifecycle, joiners, mlock, pending, result, target, cursor,
                 pc, autoCancel, excused>>

\* and an autoCancel thread is canceled at once if _waiter is set.
Inserted(t) ==
  /\ pc[t] = "s_poll"
  /\ UserInserted
  /\ LET i == target[t] IN
       /\ pending' = [pending EXCEPT ![i] =
            IF waiter # "none" /\ i \in autoCancel
            THEN AfterCancel(@, ANYTHING) ELSE @]
       /\ Unlock(i)
  /\ Goto(t, "s_handle")
  /\ UNCHANGED <<lifecycle, count, joiners, result, target, cursor, autoCancel, excused>>

-----------------------------------------------------------------------------
(* join() of t on i. *)

\* Wrong on purpose: a thread that does not run is taken to have ended.
IsJoined_NotRunning(i) == lifecycle[i] # "RUNNING"

IsJoined(i) == lifecycle[i] = "JOINED"

JoinAtOnce(t) ==
  /\ pc[t] = "j_enter" /\ mlock[target[t]] = None
  /\ IsJoined(target[t])
  /\ Return(t)
  /\ UNCHANGED <<lifecycle, count, joiners, mlock, pending, cursor, autoCancel,
                 queueVars>>

\* Into the list of joiners; then that lock is given up
JoinEnlist(t) ==
  /\ pc[t] = "j_enter" /\ mlock[target[t]] = None
  /\ ~IsJoined(target[t])
  /\ joiners' = [joiners EXCEPT ![target[t]] = Append(@, t)]
  /\ Goto(t, "j_own")
  /\ UNCHANGED <<lifecycle, count, mlock, pending, result, target, cursor,
                 autoCancel, excused, queueVars>>

\* for the caller's own,
OwnLock(t) ==
  /\ \/ pc[t] = "j_own" /\ Goto(t, "j_wait")
     \/ pc[t] = "j_woken" /\ Goto(t, "j_back")
     \/ pc[t] = "x_lock" /\ Goto(t, "x_wait")
     \/ pc[t] = "x_woken" /\ Goto(t, "x_poll")
  /\ mlock[t] = None
  /\ Lock(t, t)
  /\ UNCHANGED <<lifecycle, count, joiners, pending, result, target, cursor,
                 autoCancel, excused, queueVars>>

\* with which it waits, unless there is something to report already,
Report(t, p, label) ==
  /\ result' = [result EXCEPT ![t] = NextState(p, Mask(t))]
  /\ pending' = [pending EXCEPT ![t] = AfterNext(p, Mask(t))]
  /\ excused' = IF NextState(p, Mask(t)) = SIGNALED THEN excused ELSE excused \cup {t}
  /\ Goto(t, label)
  /\ UNCHANGED <<lifecycle, count, joiners, target, cursor, autoCancel, queueVars>>

WaitSkip(t) ==
  /\ pc[t] = "j_wait"
  /\ Pending(pending[t], Mask(t), ANYTHING)
  /\ Report(t, pending[t], "j_back")
  /\ UNCHANGED mlock

WaitSleep(t) ==
  /\ pc[t] = "j_wait"
  /\ ~Pending(pending[t], Mask(t), ANYTHING)
  /\ Goto(t, "j_sleep")
  /\ Unlock(t)
  /\ UNCHANGED <<lifecycle, count, joiners, pending, result, target, cursor,
                 autoCancel, excused, queueVars>>

WaitWake(t) ==
  /\ \/ pc[t] = "j_sleep" /\ Report(t, pending[t], "j_woken")
     \/ pc[t] = "x_sleep" /\ Report(t, pending[t], "x_woken")
  /\ Pending(pending[t], Mask(t), ANYTHING)
  /\ UNCHANGED mlock

WaitExpire(t) ==
  /\ t \in Disturbed /\ pc[t] = "j_sleep"
  /\ Report(t, pending[t] \cup {TIMEDOUT}, "j_woken")
  /\ UNCHANGED mlock

\* and holding its own lock it takes the other back, and leaves the list.
JoinReturn(t) ==
  /\ pc[t] = "j_back" /\ mlock[target[t]] = None
  /\ joiners' = [joiners EXCEPT ![target[t]] = RemoveFirst(@, t)]
  /\ Unlock(t)
  /\ Return(t)
  /\ UNCHANGED <<lifecycle, count, pending, cursor, autoCancel, queueVars>>

-----------------------------------------------------------------------------
(* dispatch(), by the new thread. *)

SetRunning(i) ==
  /\ pc[i] = "born"
  /\ lifecycle' = [lifecycle EXCEPT ![i] = "RUNNING"]
  /\ Goto(i, "task")
  /\ UNCHANGED <<count, joiners, mlock, pending, result, target, cursor, autoCancel, excused,
                 queueVars>>

\* The task returns or throws; those of autoCancel run until canceled.
TaskEnds(i) ==
  /\ i \in Impls /\ pc[i] = "task"
  /\ i \in autoCancel => CANCELED \in pending[i]
  /\ Goto(i, "d_lock")
  /\ UNCHANGED <<lifecycle, count, joiners, mlock, pending, result, target,
                 cursor, autoCancel, excused, queueVars>>

SetJoined(i) ==
  /\ pc[i] = "d_lock" /\ mlock[i] = None
  /\ Lock(i, i)
  /\ lifecycle' = [lifecycle EXCEPT ![i] = "JOINED"]
  /\ cursor' = [cursor EXCEPT ![i] = 1]
  /\ Goto(i, "d_easy")
  /\ UNCHANGED <<count, joiners, pending, result, target, autoCancel, excused, queueVars>>

Notified(u) == [pending EXCEPT ![u] = AfterNotify(@, Mask(u))]

\* The joiners whose Monitor can be locked at once are notified and erased, the
\* others are left for later.
NotifyEasy(i) ==
  /\ pc[i] = "d_easy" /\ cursor[i] \in DOMAIN joiners[i]
  /\ LET u == joiners[i][cursor[i]] IN
       IF mlock[u] = None
       THEN /\ pending' = Notified(u)
            /\ joiners' = [joiners EXCEPT ![i] = RemoveAt(@, cursor[i])]
            /\ UNCHANGED cursor
       ELSE /\ cursor' = [cursor EXCEPT ![i] = @ + 1]
            /\ UNCHANGED <<pending, joiners>>
  /\ UNCHANGED <<lifecycle, count, mlock, result, target, pc, autoCancel, excused, queueVars>>

EasyDone(i) ==
  /\ pc[i] = "d_easy" /\ cursor[i] > Len(joiners[i])
  /\ cursor' = [cursor EXCEPT ![i] = 1]
  /\ Goto(i, "d_rest")
  /\ UNCHANGED <<lifecycle, count, joiners, mlock, pending, result, target,
                 autoCancel, excused, queueVars>>

\* Wrong on purpose: a joiner that is still busy is skipped.
NotifyRest_Skip(i) ==
  /\ pc[i] = "d_rest" /\ cursor[i] \in DOMAIN joiners[i]
  /\ cursor' = [cursor EXCEPT ![i] = @ + 1]
  /\ UNCHANGED <<lifecycle, count, joiners, mlock, pending, result, target, pc,
                 autoCancel, excused, queueVars>>

NotifyRest(i) ==
  /\ pc[i] = "d_rest" /\ cursor[i] \in DOMAIN joiners[i]
  /\ LET u == joiners[i][cursor[i]] IN mlock[u] = None /\ pending' = Notified(u)
  /\ cursor' = [cursor EXCEPT ![i] = @ + 1]
  /\ UNCHANGED <<lifecycle, count, joiners, mlock, result, target, pc, autoCancel, excused,
                 queueVars>>

RestDone(i) ==
  /\ pc[i] = "d_rest" /\ cursor[i] > Len(joiners[i])
  /\ cursor' = [cursor EXCEPT ![i] = 0]
  /\ Unlock(i)
  /\ Goto(i, "d_remove")
  /\ UNCHANGED <<lifecycle, count, joiners, pending, result, target, autoCancel, excused,
                 queueVars>>

\* insertPendingThread()
LeaveUsers(i) ==
  /\ pc[i] = "d_remove"
  /\ RemoveUser(i)
  /\ Goto(i, "d_push")
  /\ UNCHANGED <<lifecycle, count, joiners, mlock, pending, result, target,
                 cursor, autoCancel, excused>>

BecomePending(i) ==
  /\ pc[i] = "d_push"
  /\ AddPending(i)
  /\ pending' = IF Drained THEN Notified(Main) ELSE pending
  /\ Goto(i, "d_drop")
  /\ UNCHANGED <<lifecycle, count, joiners, mlock, result, target, cursor, autoCancel, excused>>

\* The last thing the thread does is to give up its own reference.
Exit(i) ==
  /\ pc[i] = "d_drop"
  /\ Del(i)
  /\ Goto(i, "gone")
  /\ UNCHANGED <<lifecycle, joiners, mlock, pending, result, target, cursor,
                 autoCancel, excused, queueVars>>

-----------------------------------------------------------------------------
\* Thread::interrupt()
Interrupt(t) ==
  /\ t \in Disturbed /\ pc[t] \notin {"unborn", "gone"}
  /\ pending' = [pending EXCEPT ![t] = AfterInterrupt(@, Mask(t))]
  /\ UNCHANGED <<lifecycle, count, joiners, mlock, result, target, cursor, pc,
                 autoCancel, excused, queueVars>>

=============================================================================
