----------------------------- MODULE MCExecutors -----------------------------
(***************************************************************************)
(* Instances of the three executors.  A behaviour is about one of them,    *)
(* which is chosen at the start.  The threads that wait for tasks of the   *)
(* SynchronousExecutor submit some as well.                                *)
(***************************************************************************)
EXTENDS WaiterQueue

CONSTANTS MaxSize, MaxInterrupts

ASSUME PoolAssumption == MaxSize \in 1 .. MaxTasks

VARIABLES executor, taskQueue, canceled, threads, size, left, holder

own  == <<taskQueue, canceled, threads, size, left, holder>>
vars == <<executor, waiterVars, own>>

Pool    == INSTANCE PoolExecutor
PerTask == INSTANCE ThreadedExecutor
AtOnce  == INSTANCE SynchronousExecutor WITH Submitters <- Submitters \cup Waiters

Init ==
  \/ executor = "Pool" /\ Pool!Init /\ holder = 0
  \/ /\ executor = "Threaded" /\ PerTask!Init
     /\ taskQueue = <<>> /\ canceled = FALSE /\ size = 1 /\ holder = 0
     /\ left = [c \in Clients |-> 0]
  \/ /\ executor = "Synchronous" /\ AtOnce!Init /\ WaiterInit
     /\ taskQueue = <<>> /\ threads = <<>> /\ size = 1
     /\ left = [c \in Clients |-> 0]

RestOfPool        == <<executor, holder>>
RestOfThreaded    == <<executor, taskQueue, canceled, size, left, holder>>
RestOfSynchronous == <<executor, groups, freshId, generation, group, since, result,
                       calls, taskQueue, threads, size, left>>

Next ==
  \/ executor = "Pool" /\ Pool!Next /\ UNCHANGED RestOfPool
  \/ executor = "Threaded" /\ PerTask!Next /\ UNCHANGED RestOfThreaded
  \/ executor = "Synchronous" /\ AtOnce!Next /\ UNCHANGED RestOfSynchronous

Serve(c) ==
  \/ executor = "Pool" /\ Pool!Serve(c) /\ UNCHANGED RestOfPool
  \/ executor = "Threaded" /\ PerTask!Serve(c) /\ UNCHANGED RestOfThreaded
  \/ executor = "Synchronous" /\ AtOnce!Serve(c) /\ UNCHANGED RestOfSynchronous

Work(t) ==
  \/ executor = "Pool" /\ t \in Workers /\ Pool!Work(t) /\ UNCHANGED RestOfPool
  \/ executor = "Threaded" /\ t \in Workers /\ PerTask!Work(t)
     /\ UNCHANGED RestOfThreaded
  \/ executor = "Synchronous" /\ t \in Clients /\ AtOnce!Work(t)
     /\ UNCHANGED RestOfSynchronous

\* As in each of the modules.
Fairness ==
  WF_vars(\E c \in Clients : Serve(c)) /\ WF_vars(\E t \in Threads : Work(t))

Spec == Init /\ [][Next]_vars /\ Fairness

-----------------------------------------------------------------------------
TypeOK ==
  CASE executor = "Pool"        -> Pool!TypeOK
    [] executor = "Threaded"    -> PerTask!TypeOK
    [] executor = "Synchronous" -> AtOnce!TypeOK

\* The variables keep their types, and each group counts the tasks that joined it and are
\* under way, also when tasks are rejected or threads cannot be created; no group is
\* removed before its tasks have ended.
CountsExact == TypeOK /\ (executor # "Synchronous" => CountsMatch /\ GroupsStay)

\* "Block the calling thread until all tasks submitted prior to this invocation complete"
\* (PoolExecutor.h:140): who returns from wait() neither interrupted nor out of time has
\* been told so by the last of them, unless a wait() of its own that was cut short has
\* left a signal behind, which ends the next one,
WaitsForAll == \A c \in Clients : ToldRightly(c)

\* which holds as long as no group has got the id of another.
WaitMeansDone == ~repeated => WaitsForAll

\* Whoever waits for tasks returns when those have ended, whatever else is submitted, also
\* as long as no group has got the id of another.
WaitersReturn ==
  \A c \in Waiters :
    (trouble # "cuts" /\ pc[c] \in Waiting) ~> (pc[c] = "idle" \/ repeated)

\* A task that is submitted to a pool after its last interrupt() begins uninterrupted:
\* "Tasks submitted after the invocation of this function are unaffected"
\* (PoolExecutor.h:80).
CleanSlate == [][executor = "Pool" => Pool!CleanSlateStep]_vars

=============================================================================
