\* Main and the first thread create up to two threads; each of these may be one
\* that runs until it is canceled. Main is interrupted, and its joins may expire.
SPECIFICATION Spec
CONSTANTS
  N = 2
  Tasks = {k}
  None = none
  Creators = {0, 1}
  AutoCancel = {1, 2}
  Disturbed = {0}
INVARIANTS
  ReferencesExact
  EndWaits
PROPERTIES
  JoinMeansEnded
  JoinersReturn
  EndComes
\* When Main has destroyed the ThreadQueue the program is over.
CHECK_DEADLOCK FALSE
