---------------------------- MODULE PoolExecutor ----------------------------
(***************************************************************************)
(* src/src/PoolExecutor.cxx: a number of threads that take tasks from one  *)
(* MonitoredQueue and run them.  ConcurrentExecutor.cxx is the same with   *)
(* one thread.  What is done under the queue's lock is one step.           *)
(***************************************************************************)
EXTENDS WaiterQueue

CONSTANTS
  MaxSize,        \* a bound of the model: the size of the pool,
  MaxInterrupts   \*   and how often interrupt() is called

VARIABLES
  taskQueue,  \* _taskQueue,
  canceled,   \*   and whether it has been canceled
  threads,    \* _threads
  size,       \* _size
  left        \* how many threads each client in size() has still to create

poolVars == <<taskQueue, canceled, threads, size, left>>
vars     == <<waiterVars, poolVars>>

TypeOK ==
  /\ WaiterTypeOK({"e_add", "i_signal", "z_spawn", "born", "draw", "check",
                   "mark", "clear", "run"})
  /\ taskQueue \in Seq(Tasks)
  /\ canceled \in BOOLEAN
  /\ threads \in Seq(Workers)
  /\ size \in 1 .. MaxSize
  /\ left \in [Clients -> 0 .. MaxSize]

\* The constructor has created its threads; none of them has done anything yet.
Init ==
  /\ WaiterInit
  /\ trouble \in {"interrupts", "sizes"}
  /\ size \in 1 .. MaxSize
  /\ \A w \in Workers : pc[w] = IF w <= size THEN "born" ELSE "unborn"
  /\ taskQueue = <<>>
  /\ canceled = FALSE
  /\ threads = <<>>
  /\ left = [c \in Clients |-> 0]

-----------------------------------------------------------------------------
(* execute() *)

ExecuteCount(c) ==
  /\ c \in Submitters /\ pc[c] = "idle"
  /\ Increment(c, "e_add")
  /\ UNCHANGED poolVars

ExecuteAdd(c) ==
  /\ pc[c] = "e_add" /\ ~canceled
  /\ taskQueue' = Append(taskQueue, job[c])
  /\ stage' = [stage EXCEPT ![job[c]] = "queued"]
  /\ job' = [job EXCEPT ![c] = 0]
  /\ Goto(c, "idle")
  /\ UNCHANGED <<groups, freshId, generation, group, since, pending, result,
                 calls, trouble, canceled, threads, size, left>>

\* Wrong on purpose: a task that the queue does not accept remains counted.
ExecuteRejected_Counted(c) ==
  /\ pc[c] = "e_add" /\ canceled
  /\ stage' = [stage EXCEPT ![job[c]] = "rejected"]
  /\ job' = [job EXCEPT ![c] = 0]
  /\ Goto(c, "idle")
  /\ UNCHANGED <<groups, freshId, generation, group, since, pending, result,
                 calls, trouble, poolVars>>

\* The exception has deleted the task by the time its group is read; the model takes
\* the number that was there.
ExecuteRejected(c) ==
  /\ pc[c] = "e_add" /\ canceled
  /\ Decrement(c, "rejected", "idle")
  /\ UNCHANGED poolVars

Yielded(t, label) ==
  /\ DecrementAgain(t, label)
  /\ UNCHANGED poolVars

-----------------------------------------------------------------------------
(* interrupt(), cancel() and size(). *)

InterruptBegin(c) ==
  /\ c \in Managers /\ pc[c] = "idle"
  /\ trouble = "interrupts" /\ generation < MaxInterrupts
  /\ NextGeneration
  /\ Goto(c, "i_signal")
  /\ UNCHANGED poolVars

InterruptAll(c) ==
  /\ pc[c] = "i_signal"
  /\ InterruptThreads(threads)
  /\ Goto(c, "idle")
  /\ UNCHANGED <<groups, freshId, generation, group, since, stage, job, result,
                 calls, trouble, poolVars>>

Cancel(c) ==
  /\ c \in Managers /\ pc[c] = "idle" /\ trouble = "sizes"
  /\ canceled' = TRUE
  /\ UNCHANGED <<waiterVars, taskQueue, threads, size, left>>

Unborn == {w \in 1 .. MaxSize : pc[w] = "unborn"}

Resize(c, n) ==
  /\ c \in Managers /\ pc[c] = "idle" /\ trouble = "sizes" /\ n # size
  /\ size' = n
  /\ left' = [left EXCEPT ![c] = IF size < n THEN n - size ELSE 0]
  /\ left'[c] <= Cardinality(Unborn)
  /\ Goto(c, IF size < n THEN "z_spawn" ELSE "idle")
  /\ UNCHANGED <<groups, freshId, generation, group, since, stage, job, pending,
                 result, calls, trouble, taskQueue, canceled, threads>>

Spawn(c) ==
  /\ pc[c] = "z_spawn" /\ Unborn # {}
  /\ left' = [left EXCEPT ![c] = @ - 1]
  /\ pc' = [pc EXCEPT ![c] = IF left[c] = 1 THEN "idle" ELSE @, ![Min(Unborn)] = "born"]
  /\ UNCHANGED <<groups, freshId, generation, group, since, stage, job, pending,
                 result, calls, trouble, taskQueue, canceled, threads, size>>

-----------------------------------------------------------------------------
(* Worker::run() *)

\* Wrong on purpose: the thread that makes the pool complete is canceled too.
TooMany_Equal == Len(threads) + 1 >= size

TooMany == Len(threads) + 1 > size

Register(w) ==
  /\ pc[w] = "born"
  /\ threads' = Append(threads, w)
  /\ pending' = [pending EXCEPT ![w] =
                   IF TooMany THEN AfterCancel(@, ANYTHING) ELSE @]
  /\ Goto(w, "draw")
  /\ UNCHANGED <<groups, freshId, generation, group, since, stage, job, result,
                 calls, trouble, taskQueue, canceled, size, left>>

\* A canceled thread ends,
Leave(w) ==
  /\ pc[w] = "draw" /\ CANCELED \in pending[w]
  /\ threads' = Unlisted(threads, w)
  /\ Goto(w, "ended")
  /\ UNCHANGED <<groups, freshId, generation, group, since, stage, job, pending,
                 result, calls, trouble, taskQueue, canceled, size, left>>

\* others take a task, if there is one,
Draw(w) ==
  /\ pc[w] = "draw" /\ CANCELED \notin pending[w] /\ taskQueue # <<>>
  /\ taskQueue' = Tail(taskQueue)
  /\ job' = [job EXCEPT ![w] = Head(taskQueue)]
  /\ stage' = [stage EXCEPT ![Head(taskQueue)] = "taken"]
  /\ Goto(w, "check")
  /\ UNCHANGED <<groups, freshId, generation, group, since, pending, result,
                 calls, trouble, canceled, threads, size, left>>

\* or end, by an exception, if there is none and will be none,
DrawCanceled(w) ==
  /\ pc[w] = "draw" /\ CANCELED \notin pending[w] /\ taskQueue = <<>> /\ canceled
  /\ Goto(w, "ended")
  /\ UNCHANGED <<groups, freshId, generation, group, since, stage, job, pending,
                 result, calls, trouble, poolVars>>

\* or wait for one, which an interruption does not end.
DrawInterrupted(w) ==
  /\ pc[w] = "draw" /\ CANCELED \notin pending[w] /\ taskQueue = <<>> /\ ~canceled
  /\ INTERRUPTED \in pending[w]
  /\ pending' = [pending EXCEPT ![w] = @ \ {INTERRUPTED}]
  /\ UNCHANGED <<groups, freshId, generation, group, since, stage, job, result,
                 calls, pc, trouble, poolVars>>

\* The generation is read in one step,
Check(w) ==
  /\ pc[w] = "check"
  /\ Goto(w, IF since[job[w]] = generation THEN "clear" ELSE "mark")
  /\ UNCHANGED <<groups, freshId, generation, group, since, stage, job, pending,
                 result, calls, trouble, poolVars>>

\* Wrong on purpose: what was left from the task before is not cleared.
Fresh_Kept(w) == pending[w]

Fresh(w) == AfterIsInterrupted(pending[w])

\* and the interruption set or cleared in the next: then the task begins.
Begin(w) ==
  /\ pc[w] \in {"mark", "clear"}
  /\ pending' = [pending EXCEPT ![w] =
       IF pc[w] = "mark" THEN AfterInterrupt(@, ANYTHING) ELSE Fresh(w)]
  /\ stage' = [stage EXCEPT ![job[w]] = "running"]
  /\ Goto(w, "run")
  /\ UNCHANGED <<groups, freshId, generation, group, since, job, result, calls,
                 trouble, poolVars>>

\* It ends, or throws, and is counted off.
End(w) ==
  /\ pc[w] = "run"
  /\ Decrement(w, "done", "draw")
  /\ UNCHANGED poolVars

-----------------------------------------------------------------------------
Serve(c) ==
  \/ Wait(c) /\ UNCHANGED poolVars
  \/ ExecuteAdd(c) \/ ExecuteRejected(c) \/ InterruptAll(c) \/ Spawn(c)
  \/ Yielded(c, "idle")

Work(w) ==
  \/ Register(w) \/ Leave(w) \/ Draw(w) \/ DrawCanceled(w) \/ DrawInterrupted(w)
  \/ Check(w) \/ Begin(w) \/ End(w) \/ Yielded(w, "draw")

Choose(c) ==
  \/ (WaitCall(c) \/ WaitExpire(c) \/ InterruptClient(c)) /\ UNCHANGED poolVars
  \/ ExecuteCount(c) \/ InterruptBegin(c) \/ Cancel(c)
  \/ \E n \in 1 .. MaxSize : Resize(c, n)

Next ==
  \/ \E c \in Clients : Serve(c) \/ Choose(c)
  \/ \E w \in Workers : Work(w)

\* The system runs one of the threads that can go on, and tasks end.
Fairness == WF_vars(\E c \in Clients : Serve(c)) /\ WF_vars(\E w \in Workers : Work(w))

Spec == Init /\ [][Next]_vars /\ Fairness

-----------------------------------------------------------------------------
\* A task that is submitted after the last interrupt() begins uninterrupted: "Tasks
\* submitted after the invocation of this function are unaffected" (PoolExecutor.h:80).
CleanSlateStep ==
  \A w \in Workers :
    pc[w] # "run" /\ pc'[w] = "run" /\ since[job[w]] = generation
      => INTERRUPTED \notin pending'[w]

=============================================================================
