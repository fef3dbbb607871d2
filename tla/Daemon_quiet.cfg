CONSTANTS
  NoTask = NoTask
  Slots = {s1, s2}
  Tasks <- TwoTasks
  MaxRevisionRounds = 1
  ReturnBlockedForRevision = TRUE
  MoveUnrevisionableToNeedsHuman = TRUE
  CleanupAfterMerge = TRUE
  FromAnyState = FALSE
  AgentResults <- NoResults
  Faults <- MostFaults
  MaxRetries = 0
  MaxCrashes = 1
  MaxDamages = 0
SPECIFICATION OnceSpec
SYMMETRY SlotSymmetry
INVARIANTS
  TypeOK
  BatchLeavesNothing
  OneWorkerPerTask
  NoMergeUnderAgent
  DoneIsIntegrated
  RevisionKeepsBranch
PROPERTY
  SettledStays
  LifecycleIsKept
