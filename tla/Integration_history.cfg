CONSTANTS
  NoTask = NoTask
  Tasks = {t1}
  Integrators = {i1, i2}
  Files = {f1}
  MaxRevisionRounds = 1
  RetryAnyTime = TRUE
  MaxRuns = 2
  MaxOutside = 1
  MaxCrashes = 1
SPECIFICATION Spec
SYMMETRY Symmetry
CHECK_DEADLOCK FALSE
INVARIANTS
  TypeOK
  MainIsTested
PROPERTIES
  OthersWorkIsKept
