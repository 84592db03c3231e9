----------------------------- MODULE WaiterQueue -----------------------------
(***************************************************************************)
(* The WaiterQueue of src/src/PoolExecutor.cxx, of which ThreadedExecutor  *)
(* has a copy: how a thread waits for the tasks that an executor has got.  *)
(*                                                                         *)
(* Tasks are counted in groups.  A thread waits for the last group and all *)
(* before it; the task that comes next begins a new one.  What is done     *)
(* under _lock is one step.  A waiting thread locks its own Monitor before *)
(* it gives up _lock and holds it when it takes _lock back.                *)
(***************************************************************************)
EXTENDS Integers, Executor

VARIABLES
  groups,      \* _list, of [id, count, waiters]
  freshId,     \* _id
  generation,  \* _generation
  group,       \* the group of each task
  since,       \* the generation in which it was submitted
  result,      \* what each client's last wait() returned
  awaited,     \* the id of the group that each client waits for
  earlier,     \* history: how many tasks had been submitted when it called wait(), or
               \* 0 if a signal was left over from an earlier wait(): that ends it
  repeated     \* history: whether a group has got the id of another

calls      == <<awaited, earlier, repeated>>
waiterVars == <<groups, freshId, generation, group, since, result, calls,
                executorVars>>

WaiterTypeOK(Labels) ==
  /\ ExecutorTypeOK({"ended", "d_yield"} \cup Labels)
  /\ groups \in Seq([id : Nat, count : Int, waiters : Seq(Clients)])
  /\ groups # <<>>
  /\ freshId \in Nat /\ generation \in Nat
  /\ group \in [Tasks -> Nat] /\ since \in [Tasks -> Nat]
  /\ result \in [Clients -> States]
  /\ awaited \in [Clients -> Nat]
  /\ earlier \in [Clients -> 0 .. MaxTasks]
  /\ repeated \in BOOLEAN

Group(n) == [id |-> n, count |-> 0, waiters |-> <<>>]

WaiterInit ==
  /\ groups = <<Group(0)>>
  /\ freshId = 1
  /\ generation = 0
  /\ group = [i \in Tasks |-> 0] /\ since = [i \in Tasks |-> 0]
  /\ ExecutorInit
  /\ result = [c \in Clients |-> INVALID]
  /\ awaited = [c \in Clients |-> 0]
  /\ earlier = [c \in Clients |-> 0]
  /\ repeated = FALSE

-----------------------------------------------------------------------------
(* wait() and wait(timeout).  With no task under way they return at once.  *)

UnderWay == MapThenSumSet(LAMBDA n : groups[n].count, DOMAIN groups) > 0

\* A bound of the model: an entry that wait() has left behind in a group whose id is
\* not unique is there once at most.
LeftBehind(c) ==
  \E n \in DOMAIN groups : Cardinality({k \in DOMAIN groups[n].waiters :
                                         groups[n].waiters[k] = c}) > 1

WaitCall(c) ==
  /\ c \in Waiters /\ pc[c] = "idle" /\ UnderWay /\ ~LeftBehind(c)
  /\ groups' = [groups EXCEPT ![Len(groups)].waiters = Append(@, c)]
  /\ awaited' = [awaited EXCEPT ![c] = groups[Len(groups)].id]
  /\ earlier' = [earlier EXCEPT ![c] =
       IF SIGNALED \in pending[c] THEN 0 ELSE Cardinality({i \in Tasks : stage[i] # "new"})]
  /\ Goto(c, "w_enter")
  /\ UNCHANGED <<freshId, generation, group, since, stage, job, pending, result, trouble,
                 repeated>>

\* The wait on the Monitor ends with what p has for it.
Report(c, p, label) ==
  /\ result' = [result EXCEPT ![c] = NextState(p, ANYTHING)]
  /\ pending' = [pending EXCEPT ![c] = AfterNext(p, ANYTHING)]
  /\ Goto(c, label)
  /\ UNCHANGED <<groups, freshId, generation, group, since, stage, job, calls, trouble>>

WaitSkip(c) ==
  /\ pc[c] = "w_enter" /\ Pending(pending[c], ANYTHING, ANYTHING)
  /\ Report(c, pending[c], "w_return")

WaitSleep(c) ==
  /\ pc[c] = "w_enter" /\ ~Pending(pending[c], ANYTHING, ANYTHING)
  /\ Goto(c, "w_sleep")
  /\ UNCHANGED <<groups, freshId, generation, group, since, stage, job, pending,
                 result, calls, trouble>>

WaitWake(c) ==
  /\ pc[c] = "w_sleep" /\ Pending(pending[c], ANYTHING, ANYTHING)
  /\ Report(c, pending[c], "w_woken")

WaitExpire(c) ==
  /\ pc[c] = "w_sleep" /\ trouble = "cuts"
  /\ Report(c, pending[c] \cup {TIMEDOUT}, "w_woken")

WaitRelock(c) ==
  /\ pc[c] = "w_woken"
  /\ Goto(c, "w_return")
  /\ UNCHANGED <<groups, freshId, generation, group, since, stage, job, pending,
                 result, calls, trouble>>

\* std::find_if(): the first group with this id, or 0.
Find(id) == SelectInSeq(groups, LAMBDA g : g.id = id)

\* It leaves the group, if that is there and lists it.
WaitReturn(c) ==
  /\ pc[c] = "w_return"
  /\ LET n == Find(awaited[c]) IN
       groups' = IF n = 0 THEN groups
                 ELSE [groups EXCEPT ![n].waiters = RemoveFirst(@, c)]
  /\ result' = [result EXCEPT ![c] = INVALID]
  /\ awaited' = [awaited EXCEPT ![c] = 0]
  /\ earlier' = [earlier EXCEPT ![c] = 0]
  /\ Goto(c, "idle")
  /\ UNCHANGED <<freshId, generation, group, since, stage, job, pending, trouble,
                 repeated>>

InterruptClient(c) ==
  /\ trouble = "cuts" /\ pc[c] \in Waiting
  /\ pending' = [pending EXCEPT ![c] = AfterInterrupt(@, ANYTHING)]
  /\ UNCHANGED <<groups, freshId, generation, group, since, stage, job, result,
                 calls, pc, trouble>>

-----------------------------------------------------------------------------
\* Wrong on purpose: the task is counted in the group that follows its own.
Increment_Late(t, label) ==
  \E i \in Tasks :
    /\ NextTask(i)
    /\ LET n  == Len(groups)
           gs == IF groups[n].waiters = <<>> THEN groups ELSE Append(groups, Group(freshId))
       IN  /\ groups' = [gs EXCEPT ![Len(gs)].count = @ + 1]
           /\ freshId' = IF groups[n].waiters = <<>> THEN freshId ELSE freshId + 1
           /\ group' = [group EXCEPT ![i] = groups[n].id]
    /\ since' = [since EXCEPT ![i] = generation]
    /\ stage' = [stage EXCEPT ![i] = "counted"]
    /\ job' = [job EXCEPT ![t] = i]
    /\ Goto(t, label)
    /\ UNCHANGED <<generation, pending, result, calls, trouble>>

\* increment(): t submits the next task, which joins the last group; if threads
\* wait for that group already, the next task joins another one.
Increment(t, label) ==
  \E i \in Tasks :
    /\ NextTask(i)
    /\ LET n  == Len(groups)
           gs == [groups EXCEPT ![n].count = @ + 1]
       IN  /\ IF groups[n].waiters = <<>>
              THEN groups' = gs /\ UNCHANGED <<freshId, repeated>>
              ELSE /\ groups' = Append(gs, Group(freshId)) /\ freshId' = freshId + 1
                   /\ repeated' = (repeated \/ groups[n].id = freshId)
           /\ group' = [group EXCEPT ![i] = groups[n].id]
    /\ since' = [since EXCEPT ![i] = generation]
    /\ stage' = [stage EXCEPT ![i] = "counted"]
    /\ job' = [job EXCEPT ![t] = i]
    /\ Goto(t, label)
    /\ UNCHANGED <<generation, pending, result, awaited, earlier, trouble>>

\* A waiter whose Monitor cannot be locked: it is about to sleep or to return.
Busy(c) == pc[c] \in {"w_enter", "w_return"}

\* Wrong on purpose: a group is removed although some of its waiters are busy.
Complete_Busy(g) == g.count = 0

\* A group that can be removed: its waiters can all be notified.
Complete(g) == g.count = 0 /\ ~\E c \in ToSet(g.waiters) : Busy(c)

\* The elements of q that are in S, in their order.
Among(q, S) ==
  [n \in 1 .. Cardinality({i \in DOMAIN q : q[i] \in S}) |->
     q[CHOOSE i \in DOMAIN q :
         q[i] \in S /\ Cardinality({j \in 1 .. i : q[j] \in S}) = n]]

\* The loop of decrement() over gs: groups are removed as long as they are complete,
\* then those waiters are notified that are not busy, and for the others t gives up
\* _lock for a moment.  There is always a group.
Sweep(t, gs, label) ==
  LET n     == Min({k \in 1 .. Len(gs) + 1 : k <= Len(gs) => ~Complete(gs[k])})
      rest  == SubSeq(gs, n, Len(gs))
      again == n <= Len(gs) /\ gs[n].count = 0
      Woken == {c \in Clients :
                  /\ ~Busy(c)
                  /\ \E k \in 1 .. Len(gs) : /\ k < n \/ (k = n /\ again)
                                             /\ c \in ToSet(gs[k].waiters)}
  IN  /\ groups' = CASE n > Len(gs) -> <<Group(freshId + 1)>>
                     [] again -> [rest EXCEPT ![1].waiters = Among(@, {c \in Clients : Busy(c)})]
                     [] OTHER -> rest
      /\ freshId' = IF n > Len(gs) THEN freshId + 1 ELSE freshId
      /\ pending' = [u \in Threads |->
           IF u \in Woken THEN AfterNotify(pending[u], ANYTHING) ELSE pending[u]]
      /\ Goto(t, IF again THEN "d_yield" ELSE label)

\* decrement(): the task of t, which is at the given stage from now on, is counted off
\* the first group with its group's id.
Decrement(t, to, label) ==
  LET i  == job[t]
      n  == Find(group[i])
      gs == [groups EXCEPT ![n].count = @ - 1]
  IN  /\ IF n = 1 /\ gs[n].count = 0
         THEN Sweep(t, gs, label)
         ELSE groups' = gs /\ Goto(t, label) /\ UNCHANGED <<freshId, pending>>
      /\ stage' = [stage EXCEPT ![i] = to]
      /\ group' = [group EXCEPT ![i] = 0]
      /\ since' = [since EXCEPT ![i] = 0]
      /\ job' = [job EXCEPT ![t] = 0]
      /\ UNCHANGED <<generation, result, calls, trouble>>

DecrementAgain(t, label) ==
  /\ pc[t] = "d_yield"
  /\ Sweep(t, groups, label)
  /\ UNCHANGED <<generation, group, since, stage, job, result, calls, trouble>>

\* generation(true)
NextGeneration ==
  /\ generation' = generation + 1
  /\ UNCHANGED <<groups, freshId, group, since, stage, job, pending, result,
                 calls, trouble>>

\* The threads that the executor has listed are interrupted.
InterruptThreads(list) ==
  pending' = [t \in Threads |-> IF t \in ToSet(list) /\ pc[t] # "ended"
                                THEN AfterInterrupt(pending[t], ANYTHING)
                                ELSE pending[t]]

\* std::remove(), without an erase(): the list keeps its length, and its end.
Unlisted(list, t) ==
  LET kept == Among(list, Workers \ {t})
  IN  kept \o SubSeq(list, Len(kept) + 1, Len(list))

-----------------------------------------------------------------------------
Wait(c) ==
  \/ WaitSkip(c) \/ WaitSleep(c) \/ WaitWake(c) \/ WaitRelock(c) \/ WaitReturn(c)

\* The tasks that have been counted in a group with this id and have not been counted
\* off, whatever became of them.
Ended       == {"new", "done", "rejected"}
Members(id) == {i \in Tasks : stage[i] \notin Ended /\ group[i] = id}

\* Each group counts its tasks.  None but the first two have the same id: of those a task
\* may be counted off the wrong one.
Twins == Len(groups) > 1 /\ groups[1].id = groups[2].id

CountsMatch ==
  /\ \A m, n \in DOMAIN groups :
       m < n /\ groups[m].id = groups[n].id => m = 1 /\ n = 2
  /\ \A n \in DOMAIN groups :
       n > 2 \/ ~Twins => groups[n].count = Cardinality(Members(groups[n].id))
  /\ Twins => groups[1].count + groups[2].count = Cardinality(Members(groups[1].id))

\* "A group should never have been removed until the final task in that group
\* completed" (PoolExecutor.cxx:207-213, and an assertion): none is, although ids repeat.
GroupsStay ==
  \A i \in Tasks : stage[i] \notin Ended => \E n \in DOMAIN groups : groups[n].id = group[i]

\* c has been told that the tasks are done that had been submitted when it called wait(),
\* unless what it was told is older than that call.
ToldRightly(c) ==
  pc[c] \in {"w_woken", "w_return"} /\ result[c] = SIGNALED
    => \A i \in 1 .. earlier[c] : stage[i] \in {"done", "rejected"}

=============================================================================
