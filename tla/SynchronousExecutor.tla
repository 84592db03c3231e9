------------------------- MODULE SynchronousExecutor -------------------------
(***************************************************************************)
(* src/src/SynchronousExecutor.cxx: the thread that submits a task runs it *)
(* with _lock, a Mutex, locked.  A thread that waits for a Mutex can be    *)
(* interrupted.  interrupt() does nothing.                                 *)
(***************************************************************************)
EXTENDS Executor

VARIABLES
  holder,    \* the thread that holds _lock, or 0
  canceled   \* _canceled

vars == <<executorVars, holder, canceled>>

TypeOK ==
  /\ ExecutorTypeOK({"e_lock", "run"})
  /\ holder \in Submitters \cup {0}
  /\ canceled \in BOOLEAN

Init ==
  /\ ExecutorInit
  /\ trouble \in {"cuts", "sizes"}
  /\ \A w \in Workers : pc[w] = "unborn"
  /\ holder = 0
  /\ canceled = FALSE

-----------------------------------------------------------------------------
(* execute() *)

\* The quick check: a canceled executor takes no task.
Execute(c, i) ==
  /\ c \in Submitters /\ pc[c] = "idle" /\ ~canceled
  /\ NextTask(i)
  /\ stage' = [stage EXCEPT ![i] = "taken"]
  /\ job' = [job EXCEPT ![c] = i]
  /\ Goto(c, "e_lock")
  /\ UNCHANGED <<pending, trouble, holder, canceled>>

Ends(c, how) ==
  /\ stage' = [stage EXCEPT ![job[c]] = how]
  /\ job' = [job EXCEPT ![c] = 0]
  /\ Goto(c, "idle")

\* The double check: it has been canceled meanwhile.
DoubleCheck(c) ==
  /\ pc[c] = "e_lock" /\ holder = 0 /\ canceled
  /\ Ends(c, "rejected")
  /\ UNCHANGED <<pending, trouble, holder, canceled>>

Run(c) ==
  /\ pc[c] = "e_lock" /\ holder = 0 /\ ~canceled
  /\ holder' = c
  /\ stage' = [stage EXCEPT ![job[c]] = "running"]
  /\ Goto(c, "run")
  /\ UNCHANGED <<job, pending, trouble, canceled>>

\* The task ends or throws: either gives back the lock.
End(c) ==
  /\ pc[c] = "run"
  /\ Ends(c, "done")
  /\ holder' = 0
  /\ UNCHANGED <<pending, trouble, canceled>>

Interrupted(c) ==
  /\ pc[c] \in {"e_lock", "w_enter"} /\ holder # 0 /\ INTERRUPTED \in pending[c]
  /\ pending' = [pending EXCEPT ![c] = @ \ {INTERRUPTED}]
  /\ IF pc[c] = "e_lock" THEN Ends(c, "rejected")
     ELSE Goto(c, "idle") /\ UNCHANGED <<stage, job>>
  /\ UNCHANGED <<trouble, holder, canceled>>

-----------------------------------------------------------------------------
(* wait(), which throws at once in an interrupted thread, and cancel(). *)

WaitCall(c) ==
  /\ c \in Waiters /\ pc[c] = "idle" /\ INTERRUPTED \notin pending[c]
  /\ Goto(c, "w_enter")
  /\ UNCHANGED <<stage, job, pending, trouble, holder, canceled>>

WaitThrows(c) ==
  /\ c \in Waiters /\ pc[c] = "idle" /\ INTERRUPTED \in pending[c]
  /\ pending' = [pending EXCEPT ![c] = AfterIsInterrupted(@)]
  /\ UNCHANGED <<stage, job, pc, trouble, holder, canceled>>

WaitReturn(c) ==
  /\ pc[c] = "w_enter" /\ holder = 0
  /\ Goto(c, "idle")
  /\ UNCHANGED <<stage, job, pending, trouble, holder, canceled>>

Cancel(c) ==
  /\ c \in Managers /\ pc[c] = "idle" /\ holder = 0 /\ trouble = "sizes"
  /\ canceled' = TRUE
  /\ UNCHANGED <<executorVars, holder>>

InterruptClient(c) ==
  /\ trouble = "cuts"
  /\ pending' = [pending EXCEPT ![c] = AfterInterrupt(@, ANYTHING)]
  /\ UNCHANGED <<stage, job, pc, trouble, holder, canceled>>

-----------------------------------------------------------------------------
Serve(c) == WaitReturn(c)

Work(c) == DoubleCheck(c) \/ Run(c) \/ End(c)

Choose(c) ==
  \/ \E i \in Tasks : Execute(c, i)
  \/ Interrupted(c) \/ WaitCall(c) \/ WaitThrows(c) \/ Cancel(c) \/ InterruptClient(c)

Next == \E c \in Clients : Serve(c) \/ Work(c) \/ Choose(c)

\* The system runs one of the threads that can go on, and tasks end.
Fairness == WF_vars(\E c \in Clients : Serve(c)) /\ WF_vars(\E c \in Clients : Work(c))

Spec == Init /\ [][Next]_vars /\ Fairness

=============================================================================
