CONSTANTS
  Procs = {p1, p2, p3}
  Batch = {p3}
  Clis = {c1}
  NoProc = NoProc
  MaxReused = 1
SPECIFICATION FairSpec
CHECK_DEADLOCK FALSE
INVARIANTS
  TypeOK
  HolderOwnsLock
  PidFileNamesRunner
  LeftoverIsStale
PROPERTIES
  LockKeepsPromise
  RefusedMeansOccupied
  LockIsGivenBack
