CONSTANTS
  NoTask = NoTask
  Tasks = {t1}
  Integrators = {i1, i2}
  Files = {f1}
  MaxRevisionRounds = 1
  RetryAnyTime = FALSE
  MaxRuns = 1
  MaxOutside = 0
  MaxCrashes = 0
SPECIFICATION Spec
SYMMETRY Symmetry
CHECK_DEADLOCK FALSE
INVARIANTS
  MergedIsNotReturned
