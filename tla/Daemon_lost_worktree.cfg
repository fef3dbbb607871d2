CONSTANTS
  NoTask = NoTask
  Slots = {s1}
  Tasks <- OneTask
  MaxRevisionRounds = 1
  ReturnBlockedForRevision = TRUE
  MoveUnrevisionableToNeedsHuman = TRUE
  CleanupAfterMerge = TRUE
  FromAnyState = FALSE
  AgentResults <- Success
  Faults <- NoFaults
  MaxRetries = 1
  MaxCrashes = 0
  MaxDamages = 0
SPECIFICATION OnceSpec
INVARIANT
  AgentHasWorktree
