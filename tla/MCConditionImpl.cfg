\* t1 and t2 wait, t2 and t3 signal and broadcast; t3 may hold the predicate lock.
SPECIFICATION Spec
CONSTANTS
  Threads = {t1, t2, t3}
  Observers = {}
  None = none
  Rank <- FifoRank
  Sleepers = {t1, t2}
  Wakers = {t2, t3}
  Interrupts = TRUE
  Timeouts = FALSE
INVARIANTS
  UnlistedWakes
PROPERTIES
  ImplementsCondition
  BroadcastReaches
\* Nobody has to signal: all may wait forever.
CHECK_DEADLOCK FALSE
