--------------------------- MODULE ReadWriteLocks ---------------------------
(***************************************************************************)
(* What the two ReadWriteLocks of src/include/zthread have in common: the  *)
(* threads that are inside, and what a read/write lock is for.  A thread   *)
(* uses a lock for reading or for writing, not for both at once, and does  *)
(* not enter it a second time.                                             *)
(***************************************************************************)
EXTENDS Conditions

VARIABLES
  inside,          \* of each thread: "none", "read" or "write"
  activeReaders    \* _activeReaders, or _readers

RWTypeOK(Names) ==
  /\ CondTypeOK({"read", "write", "wake"}, Names)
  /\ inside \in [Threads -> {"none", "read", "write"}]
  /\ activeReaders \in Nat

RWInit ==
  /\ CondInit
  /\ inside = [t \in Threads |-> "none"]
  /\ activeReaders = 0

Outside(t)   == inside[t] = "none"
Step(t, how) == inside' = [inside EXCEPT ![t] = how]

\* t begins operation o, or goes on with it after a wait on c that was signaled
\* or timed out: neither lock looks at which it was.
Tries(t, o) ==
  \/ Begins(t) /\ Outside(t)
  \/ op[t] = o /\ wait[t] \in {"signaled", "timedout"}

-----------------------------------------------------------------------------
\* A thread that is in for writing is in alone, whoever has been woken, has
\* overtaken others or has given up in the meantime.
WritersAlone ==
  \A t, u \in Threads : inside[t] = "write" /\ u # t => Outside(u)

=============================================================================
