CONSTANTS
  Items = {"atomic", "slow", "bare"}
  Files <- Entries
  ItemOf <- OwnerOf
  Bare = {"bare"}
  Atomic = {"atomic"}
  NoItem = NoItem
  Faults <- AllFaults
  MaxFaults = 1
  MaxRestarts = 1
SPECIFICATION FairSpec
INVARIANTS
  TypeOK
  CarefulIsKept
  TaskIsWhole
  NothingHalfClaimed
PROPERTIES
  EventuallyClaimed
  StopIsHeeded
