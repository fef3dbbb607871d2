CONSTANTS
  NoTask = NoTask
  Slots = {s1}
  Tasks <- TwoTasks
  MaxRevisionRounds = 1
  ReturnBlockedForRevision = TRUE
  MoveUnrevisionableToNeedsHuman = TRUE
  CleanupAfterMerge = TRUE
  FromAnyState = FALSE
  AgentResults <- NoResults
  Faults <- NoFaults
  MaxRetries = 0
  MaxCrashes = 1
  MaxDamages = 0
SPECIFICATION FairOnceSpec
PROPERTY
  EventuallySettled
  BatchTerminates
