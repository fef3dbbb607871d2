CONSTANTS
  NoTask = NoTask
  Tasks = {t1, t2}
  Integrators = {i1}
  Files = {f1}
  MaxRevisionRounds = 1
  RetryAnyTime = FALSE
  MaxRuns = 2
  MaxOutside = 1
  MaxCrashes = 0
SPECIFICATION FairSpec
CHECK_DEADLOCK FALSE
INVARIANTS
  MergedIsNotReturned
  MergedIsInMain
  MergedOnce
PROPERTIES
  EventuallyDecided
