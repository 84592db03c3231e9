-------------------------- MODULE ThreadedExecutor --------------------------
(***************************************************************************)
(* src/src/ThreadedExecutor.cxx: a thread for each task.  Its cancel() is  *)
(* left out: it sets a flag that execute() does not look at.               *)
(***************************************************************************)
EXTENDS WaiterQueue

CONSTANT
  MaxInterrupts   \* a bound of the model: how often interrupt() is called

VARIABLE
  threads   \* _threads

vars == <<waiterVars, threads>>

TypeOK ==
  /\ WaiterTypeOK({"e_spawn", "i_next", "born", "list", "run", "unlist"})
  /\ threads \in Seq(Workers)

Init ==
  /\ WaiterInit
  /\ trouble \in {"cuts", "interrupts"}
  /\ \A w \in Workers : pc[w] = "unborn"
  /\ threads = <<>>

-----------------------------------------------------------------------------
(* execute() *)

ExecuteCount(c) ==
  /\ c \in Submitters /\ pc[c] = "idle"
  /\ Increment(c, "e_spawn")
  /\ UNCHANGED threads

\* The thread for the task starts,
ExecuteSpawn(c) ==
  /\ pc[c] = "e_spawn"
  /\ LET i == job[c] IN
       /\ pc' = [pc EXCEPT ![c] = "idle", ![i] = "born"]
       /\ job' = [job EXCEPT ![c] = 0, ![i] = i]
       /\ stage' = [stage EXCEPT ![i] = "taken"]
  /\ UNCHANGED <<groups, freshId, generation, group, since, pending, result,
                 calls, trouble, threads>>

\* or not: the task remains counted.
ExecuteFails(c) ==
  /\ pc[c] = "e_spawn" /\ trouble = "cuts"
  /\ job' = [job EXCEPT ![c] = 0]
  /\ Goto(c, "idle")
  /\ UNCHANGED <<groups, freshId, generation, group, since, stage, pending,
                 result, calls, trouble, threads>>

Yielded(w) ==
  /\ DecrementAgain(w, "unlist")
  /\ UNCHANGED threads

-----------------------------------------------------------------------------
(* interrupt() holds _lock for two steps. *)

Locked == \E c \in Clients : pc[c] = "i_next"

InterruptAll(c) ==
  /\ c \in Managers /\ pc[c] = "idle" /\ ~Locked
  /\ trouble = "interrupts" /\ generation < MaxInterrupts
  /\ InterruptThreads(threads)
  /\ Goto(c, "i_next")
  /\ UNCHANGED <<groups, freshId, generation, group, since, stage, job, result,
                 calls, trouble, threads>>

InterruptEnd(c) ==
  /\ pc[c] = "i_next"
  /\ NextGeneration
  /\ Goto(c, "idle")
  /\ UNCHANGED threads

-----------------------------------------------------------------------------
(* Worker::run() *)

\* A thread that is late interrupts itself; the others enter the list,
Register(w) ==
  /\ pc[w] = "born"
  /\ IF since[w] = generation
     THEN Goto(w, "list") /\ UNCHANGED <<stage, pending>>
     ELSE /\ pending' = [pending EXCEPT ![w] = AfterInterrupt(@, ANYTHING)]
          /\ stage' = [stage EXCEPT ![w] = "running"]
          /\ Goto(w, "run")
  /\ UNCHANGED <<groups, freshId, generation, group, since, job, result, calls,
                 trouble, threads>>

\* for which they need _lock, and the task begins.
Enlist(w) ==
  /\ pc[w] = "list" /\ ~Locked
  /\ threads' = Append(threads, w)
  /\ stage' = [stage EXCEPT ![w] = "running"]
  /\ Goto(w, "run")
  /\ UNCHANGED <<groups, freshId, generation, group, since, job, pending, result,
                 calls, trouble>>

End(w) ==
  /\ pc[w] = "run"
  /\ Decrement(w, "done", "unlist")
  /\ UNCHANGED threads

Unlist(w) ==
  /\ pc[w] = "unlist" /\ ~Locked
  /\ threads' = Unlisted(threads, w)
  /\ Goto(w, "ended")
  /\ UNCHANGED <<groups, freshId, generation, group, since, stage, job, pending,
                 result, calls, trouble>>

-----------------------------------------------------------------------------
Serve(c) ==
  \/ Wait(c) /\ UNCHANGED threads
  \/ ExecuteSpawn(c) \/ InterruptEnd(c)

Work(w) == Register(w) \/ Enlist(w) \/ End(w) \/ Yielded(w) \/ Unlist(w)

Choose(c) ==
  \/ (WaitCall(c) \/ WaitExpire(c) \/ InterruptClient(c)) /\ UNCHANGED threads
  \/ ExecuteCount(c) \/ ExecuteFails(c) \/ InterruptAll(c)

Next ==
  \/ \E c \in Clients : Serve(c) \/ Choose(c)
  \/ \E w \in Workers : Work(w)

Fairness == WF_vars(\E c \in Clients : Serve(c)) /\ WF_vars(\E w \in Workers : Work(w))

Spec == Init /\ [][Next]_vars /\ Fairness

=============================================================================
