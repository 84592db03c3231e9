\* A binary semaphore: t1 and t2 use up permits, t3 gives back what it takes, or more,
\* and t4 makes permits.
SPECIFICATION Spec
CONSTANTS
  Threads = {t1, t2, t3, t4}
  Observers = {}
  None = none
  Rank <- FifoRank
  Acquirers = {t1, t2, t3}
  Releasers = {t3, t4}
  InitialCount = 1
  MaxCount = 1
  Interrupts = FALSE
  Timeouts = FALSE
INVARIANTS
  PermitsCovered
  SleepsOnlyWithoutPermit
PROPERTIES
  AcquireSucceeds
