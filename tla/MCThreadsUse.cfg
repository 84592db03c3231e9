\* Main and the first thread create one thread each.
SPECIFICATION Spec
CONSTANTS
  N = 2
  Tasks = {}
  None = none
  Creators = {0, 1}
  AutoCancel = {}
  Disturbed = {0, 1}
INVARIANT
  UsersHold
CHECK_DEADLOCK FALSE
