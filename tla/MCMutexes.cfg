\* A Mutex or a RecursiveMutex, the latter up to two deep, whose three clients are
\* neither interrupted nor in a hurry.
SPECIFICATION MutexesSpec
CONSTANTS
  Threads = {t1, t2, t3}
  Observers = {}
  None = none
  Rank <- FifoRank
  MaxDepth = 2
  Interrupts = FALSE
  Timeouts = FALSE
INVARIANTS
  WaitersInside
  MutualExclusion
  OnlyOwnerEntered
  AssertFree
  NoLostWakeup
  NoStaleSignal
PROPERTIES
  AcquireSucceeds
