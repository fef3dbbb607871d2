CONSTANTS
  Items = {"slow"}
  Files <- SlowEntries
  ItemOf <- SlowOwner
  Bare = {}
  Atomic = {}
  NoItem = NoItem
  Faults <- NoFaults
  MaxFaults = 0
  MaxRestarts = 0
SPECIFICATION Spec
INVARIANT
  FilesAreKept
