SPECIFICATION HSpec
CONSTANTS
  Key = {k1, k2, k3, k4, empty}
  Value = {v1, v2}
  EmptyKey = empty
  Capacity = 3
INVARIANTS
  TypeOK
  ListAndIndexAgree
  WithinCapacity
  RecentKeysAreKept
PROPERTIES
  EvictsOnlyOldestWhenFull
  ImplementsRecencyStore
