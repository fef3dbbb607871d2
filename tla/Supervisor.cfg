CONSTANTS
  Workers = {w1, w2, w3}
  MaxWorkers = 2
  MaxFaults = 1
SPECIFICATION FairSpec
CHECK_DEADLOCK FALSE
INVARIANTS
  TypeOK
  EndedMeansExited
  LockCoversAgents
  SlotsAddUp
PROPERTIES
  RunnerEnds
  RunsEnd
