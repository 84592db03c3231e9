\* Three threads on each of the classes; waits time out and are interrupted.
SPECIFICATION Spec
CONSTANTS
  Threads = {a, b, c}
  Cuts = {"timedout", "interrupted"}
  None = none
  MaxSize = 2
  Count = 3
  Word = 65536
  MaxLate = 1
  MaxRounds = 2
  ResetsAnytime = FALSE
  MaxDepth = 2
  GuardThreads = {a, b}
  Locks = {"fast", "mutex"}
  Checked = {"mutex"}
  MaxGuards = 4
INVARIANTS
  TypeOK
  NobodyForgotten
  HoldersAlone
  LockAssertions
  NobodyPassesEarly
  HeldAsGuarded
PROPERTIES
  CancelEndsNext
\* Nobody has to add an element or to leave a lock: all may wait forever.
CHECK_DEADLOCK FALSE
