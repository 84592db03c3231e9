SPECIFICATION Spec
CONSTANTS
  Threads = {t1, t2, t3}
  Observers = {}
  None = none
  Rank <- FifoRank
  Interrupts = FALSE
  Timeouts = TRUE
INVARIANT
  MutualExclusion
