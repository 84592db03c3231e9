------------------------------- MODULE Executor -------------------------------
(***************************************************************************)
(* What the executors of src/src have in common (Executor.h): threads that *)
(* submit tasks, that wait for those and that interrupt or cancel the      *)
(* executor, and where each task is.                                       *)
(***************************************************************************)
EXTENDS Naturals, FiniteSets, SequencesExt, FiniteSetsExt, Status

CONSTANTS
  Submitters,  \* the threads that submit tasks,
  Waiters,     \* that wait for them,
  Managers,    \* and that interrupt or cancel the executor or change its size
  MaxTasks     \* a bound of the model: how many tasks are submitted, one less where
               \* waits are cut short

Clients == Submitters \cup Waiters \cup Managers
Tasks   == 1 .. MaxTasks   \* in the order of their submission
Workers == Tasks           \* the threads of the executor, if it has its own
Threads == Clients \cup Workers

ASSUME ExecutorAssumption == MaxTasks \in Nat /\ Clients \cap Workers = {}

VARIABLES
  stage,    \* where each task is
  job,      \* the task that each thread has in hand, or 0
  pending,  \* _pending of each thread's Monitor
  pc,       \* where each thread is
  trouble   \* a bound of the model: what else happens in a behaviour: "cuts" when
            \* waits are cut short and threads cannot be created, "interrupts"
            \* when the executor is interrupted, "sizes" when it is canceled or
            \* its size is changed

executorVars == <<stage, job, pending, pc, trouble>>

Stages  == {"new", "counted", "queued", "taken", "running", "done", "rejected"}
Waiting == {"w_enter", "w_sleep", "w_woken", "w_return"}

ExecutorTypeOK(Labels) ==
  /\ stage \in [Tasks -> Stages]
  /\ job \in [Threads -> Tasks \cup {0}]
  /\ pending \in [Threads -> SUBSET Flags]
  /\ pc \in [Threads -> {"idle", "unborn"} \cup Waiting \cup Labels]

ExecutorInit ==
  /\ stage = [i \in Tasks |-> "new"]
  /\ job = [t \in Threads |-> 0]
  /\ pending = [t \in Threads |-> {}]
  /\ pc \in [Threads -> {"idle", "unborn", "born"}]
  /\ \A c \in Clients : pc[c] = "idle"

Goto(t, label) == pc' = [pc EXCEPT ![t] = label]

\* The task that is submitted next.
NextTask(i) ==
  /\ stage[i] = "new" /\ \A k \in 1 .. i - 1 : stage[k] # "new"
  /\ trouble = "cuts" => i < MaxTasks

-----------------------------------------------------------------------------
\* "The submitted task will be run at some point in the future" (PoolExecutor.h:136),
\* also if the size of a pool is changed or it is canceled in the meantime.
TasksDone == []<>(\A i \in Tasks : stage[i] \notin {"queued", "taken", "running"})

=============================================================================
