\* As many tasks as it takes for two groups with the same id to matter.
SPECIFICATION Spec
CONSTANTS
  Submitters = {a}
  Waiters = {b}
  Managers = {}
  MaxTasks = 4
  MaxSize = 1
  MaxInterrupts = 0
INVARIANT WaitsForAll
CHECK_DEADLOCK FALSE
