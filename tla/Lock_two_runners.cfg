CONSTANTS
  Procs = {p1, p2, p3}
  Batch = {p3}
  Clis = {c1}
  NoProc = NoProc
  MaxReused = 1
SPECIFICATION Spec
CHECK_DEADLOCK FALSE
INVARIANT
  MutualExclusion
