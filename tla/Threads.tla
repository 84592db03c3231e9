------------------------------- MODULE Threads -------------------------------
(***************************************************************************)
(* Thread objects (src/src/Thread.cxx) over ThreadImpl and ThreadQueue,    *)
(* and the end of the program, when Main destroys the ThreadQueue.  After  *)
(* that nothing happens any more.                                          *)
(*                                                                         *)
(* A thread joins only threads that were created after it, so that the     *)
(* threads do not wait for each other in a circle; join() has a TODO where *)
(* it would notice that.                                                   *)
(***************************************************************************)
EXTENDS ThreadImpl

VARIABLES
  handles,  \* the threads that a Thread object refers to
  ran,      \* the shutdown tasks that have run
  found     \* what ~ThreadQueue() found: its waitRequired, threadsWaiting and
            \* shutdownTasks

vars == <<queueVars, implVars, handles, ran, found>>

TypeOK ==
  /\ QueueTypeOK /\ ImplTypeOK
  /\ handles \subseteq Impls
  /\ ran \subseteq Tasks
  /\ found \in [required : BOOLEAN, waiting : BOOLEAN, tasks : SUBSET Tasks]

Init ==
  /\ QueueInit /\ ImplInit
  /\ handles = {}
  /\ ran = {}
  /\ found = [required |-> TRUE, waiting |-> FALSE, tasks |-> {}]

-----------------------------------------------------------------------------
\* Thread(task) adds its own reference when start() is over.
Handle(t) ==
  /\ pc[t] = "s_handle"
  /\ Add(target[t])
  /\ handles' = handles \cup {target[t]}
  /\ Return(t)
  /\ UNCHANGED <<lifecycle, joiners, mlock, pending, cursor, autoCancel, queueVars,
                 ran, found>>

\* ~Thread(), when no call on the object is under way.
Drop(t, i) ==
  /\ pc[t] = "task" /\ t < i /\ i \in handles
  /\ \A u \in Threads : pc[u] \in Joining => target[u] # i
  /\ Del(i)
  /\ handles' = handles \ {i}
  /\ UNCHANGED <<lifecycle, joiners, mlock, pending, result, target, cursor, pc,
                 autoCancel, excused, queueVars, ran, found>>

\* A call of t in which it may wait begins.
LeftOver(t) ==
  excused' = IF SIGNALED \in pending[t] THEN excused \cup {t} ELSE excused

\* wait()
Join(t, i) ==
  /\ pc[t] = "task" /\ t < i /\ i \in handles
  /\ Goto(t, "j_enter")
  /\ target' = [target EXCEPT ![t] = i]
  /\ LeftOver(t)
  /\ UNCHANGED <<lifecycle, count, joiners, mlock, pending, result, cursor,
                 autoCancel, queueVars, handles, ran, found>>

\* insertShutdownTask() runs the task itself if _waiter is set.
AddTask(t, k) ==
  /\ pc[t] = "task" /\ k \notin ran
  /\ InsertShutdownTask(k)
  /\ ran' = IF waiter = "none" THEN ran ELSE ran \cup {k}
  /\ UNCHANGED <<implVars, handles, found>>

RemoveTask(t, k) ==
  /\ pc[t] = "task"
  /\ RemoveShutdownTask(k)
  /\ UNCHANGED <<implVars, handles, ran, found>>

-----------------------------------------------------------------------------
(* ~ThreadQueue(), by Main. *)

\* All that have been created with autoCancel are canceled.
UnloadBegin ==
  /\ pc[Main] = "task"
  /\ Unload
  /\ found' = [required |-> waiter # "one",
               waiting  |-> userThreads # {} \/ pendingThreads # <<>>,
               tasks    |-> shutdownTasks]
  /\ pending' = [i \in Threads |->
       IF i \in userThreads \cap autoCancel
       THEN AfterCancel(pending[i], ANYTHING) ELSE pending[i]]
  /\ LeftOver(Main)
  /\ Goto(Main, "x_tasks")
  /\ UNCHANGED <<lifecycle, count, joiners, mlock, result, target, cursor, autoCancel,
                 handles, ran>>

UnloadTasks ==
  /\ pc[Main] = "x_tasks"
  /\ ran' = ran \cup found.tasks
  /\ Goto(Main, IF found.waiting THEN "x_lock" ELSE "x_poll")
  /\ UNCHANGED <<lifecycle, count, joiners, mlock, pending, result, target,
                 cursor, autoCancel, excused, queueVars, handles, found>>

\* Wrong on purpose: it is enough that one thread is on the way out.
MustWait_Pending == found.required /\ pendingThreads = <<>>

\* The lists are read without _lock: are all that remain on the way out?
MustWait == found.required /\ ~(userThreads = {} /\ pendingThreads # <<>>)

UnloadSkip ==
  /\ pc[Main] = "x_wait"
  /\ \/ ~MustWait /\ Goto(Main, "x_poll") /\ UNCHANGED <<pending, result>>
     \/ /\ MustWait /\ Pending(pending[Main], Mask(Main), ANYTHING)
        /\ result' = [result EXCEPT ![Main] = NextState(pending[Main], Mask(Main))]
        /\ pending' = [pending EXCEPT ![Main] = AfterNext(@, Mask(Main))]
        /\ Goto(Main, "x_poll")
  /\ UNCHANGED <<lifecycle, count, joiners, mlock, target, cursor, autoCancel, excused,
                 queueVars, handles, ran, found>>

UnloadSleep ==
  /\ pc[Main] = "x_wait"
  /\ MustWait /\ ~Pending(pending[Main], Mask(Main), ANYTHING)
  /\ Unlock(Main)
  /\ Goto(Main, "x_sleep")
  /\ UNCHANGED <<lifecycle, count, joiners, pending, result, target, cursor,
                 autoCancel, excused, queueVars, handles, ran, found>>

\* When all have been reclaimed, also by pollReferenceThreads(), the program ends.
UnloadDone ==
  /\ pc[Main] = "x_poll" /\ pendingThreads = <<>>
  /\ Del(Main)
  /\ Unlock(Main)
  /\ Goto(Main, "x_done")
  /\ UNCHANGED <<lifecycle, joiners, pending, result, target, cursor, autoCancel, excused,
                 queueVars, handles, ran, found>>

-----------------------------------------------------------------------------
\* What a thread does once it is in a call, or to end its task,
Progress(t) == pc[Main] # "x_done" /\
  \/ /\ \/ Insert(t) \/ Reclaim(t) \/ Inserted(t)
        \/ JoinAtOnce(t) \/ JoinEnlist(t) \/ OwnLock(t)
        \/ WaitSkip(t) \/ WaitSleep(t) \/ WaitWake(t) \/ JoinReturn(t)
        \/ SetRunning(t) \/ TaskEnds(t) \/ SetJoined(t)
        \/ NotifyEasy(t) \/ EasyDone(t) \/ NotifyRest(t) \/ RestDone(t)
        \/ LeaveUsers(t) \/ BecomePending(t) \/ Exit(t)
     /\ UNCHANGED <<handles, ran, found>>
  \/ Handle(t)
  \/ t = Main /\ (UnloadTasks \/ UnloadSkip \/ UnloadSleep \/ UnloadDone)

\* and what it does or suffers at will.
Choose(t) == pc[Main] # "x_done" /\
  \/ /\ \/ \E i \in Impls : Spawn(t, i)
        \/ WaitExpire(t) \/ Interrupt(t)
     /\ UNCHANGED <<handles, ran, found>>
  \/ \E i \in Impls : Join(t, i) \/ Drop(t, i)
  \/ \E k \in Tasks : AddTask(t, k) \/ RemoveTask(t, k)
  \/ t = Main /\ UnloadBegin

Next == \E t \in Threads : Progress(t) \/ Choose(t)

\* Threads go on, and tasks end whatever they are busy with.
Fairness ==
  \A t \in Threads :
    /\ WF_vars(Progress(t))
    /\ SF_vars(TaskEnds(t) /\ UNCHANGED <<handles, ran, found>>)

Spec == Init /\ [][Next]_vars /\ Fairness

-----------------------------------------------------------------------------
\* The references to a thread are that of the list until it has been reclaimed,
\* that of the thread until it has ended, and that of the Thread object: it is
\* deleted when none of them is left, and only then.
ReferencesExact ==
  \A i \in Impls : pc[i] # "unborn" =>
    count[i] =
      (IF pc[i] = "gone" /\ i \notin ToSet(pendingThreads) THEN 0 ELSE 1)
      + (IF pc[i] = "gone" \/ \E t \in Threads : pc[t] = "s_insert" /\ target[t] = i
         THEN 0 ELSE 1)
      + (IF i \in handles THEN 1 ELSE 0)

\* "Add a reference to this object, it will take one more call to delReference() for
\* it to be deleted" (IntrusivePtr.h:64): who is about to add one, or to use the
\* object, does not find it deleted.
UsersHold ==
  \A t \in Threads : pc[t] \in Starting \cup Joining => count[target[t]] > 0

\* A join() that returns without an exception and in time means that the task is
\* over, unless it began with a signal left over from an earlier one.
JoinMeansEnded ==
  [][\A t \in Threads \ excused :
       pc[t] \in {"j_enter", "j_back"} /\ pc'[t] = "task"
         => pc[target[t]] \in Ending]_vars

\* A joiner whose wait has ended holds its own lock and wants that of the thread it
\* joins, while that thread holds its lock and wants the joiner's, to notify it.  The
\* code does not keep a join() that is interrupted, canceled or out of time from it.
Embrace ==
  \E t, i \in Threads :
    /\ pc[t] = "j_back" /\ target[t] = i
    /\ pc[i] = "d_rest" /\ cursor[i] \in DOMAIN joiners[i]
    /\ joiners[i][cursor[i]] = t

\* Whoever joins a thread whose task is over is woken and returns, unless some two
\* threads wait for each other's lock for ever.  The last thread has none to join.
JoinersReturn ==
  \A t \in 0 .. N - 1 :
    (pc[t] \in Joining /\ pc[target[t]] \in Ending)
      ~> (pc[t] = "task" \/ pc[Main] = "x_done" \/ Embrace)

\* The program does not end while a task runs or has not been canceled yet: every
\* thread has at least left the list of user threads, and the shutdown tasks have
\* run; unless ~ThreadQueue() found _waiter at 1 or Main had a signal left over.
EndWaits ==
  pc[Main] = "x_done" /\ found.required /\ Main \notin excused
    => /\ \A i \in Impls : pc[i] \in {"unborn", "d_push", "d_drop", "gone"}
       /\ found.tasks \subseteq ran

\* The destructor ends, although some threads run until they are canceled, unless two
\* threads wait for each other's lock for ever.
EndComes == pc[Main] \in Leaving ~> (pc[Main] = "x_done" \/ Embrace)

=============================================================================
