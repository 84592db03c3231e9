\* A PrioritySemaphore with everything that can disturb it.
SPECIFICATION Spec
CONSTANTS
  Threads = {t1, t2}
  Observers = {x}
  None = none
  Rank <- PriorityRank
  Acquirers = {t1, t2}
  Releasers = {t1, t2}
  InitialCount = 0
  MaxCount = 1
  Interrupts = TRUE
  Timeouts = TRUE
INVARIANTS
  TypeOK
  EntriesExact
PROPERTIES
  InternalLocksFree
