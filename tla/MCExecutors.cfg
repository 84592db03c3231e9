\* One client that submits tasks and one that waits for them, interrupts, cancels.
SPECIFICATION Spec
CONSTANTS
  Submitters = {a}
  Waiters = {b}
  Managers = {b}
  MaxTasks = 3
  MaxSize = 2
  MaxInterrupts = 1
INVARIANTS
  CountsExact
  WaitMeansDone
PROPERTIES
  CleanSlate
  WaitersReturn
  TasksDone
\* Nobody has to submit a task or to wait: all clients may be idle forever.
CHECK_DEADLOCK FALSE
