CONSTANTS
  NoTask = NoTask
  Slots = {s1, s2}
  Tasks <- OneTask
  MaxRevisionRounds = 1
  ReturnBlockedForRevision = TRUE
  MoveUnrevisionableToNeedsHuman = TRUE
  CleanupAfterMerge = TRUE
  FromAnyState = TRUE
  AgentResults <- AnyResult
  Faults <- AllFaults
  MaxRetries = 1
  MaxCrashes = 1
  MaxDamages = 1
SPECIFICATION OnceSpec
SYMMETRY SlotSymmetry
INVARIANTS
  RunningHasWorker
  IntegratingIsPending
PROPERTY
  RoundsOnlyGrow
