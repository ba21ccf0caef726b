SPECIFICATION Spec
CONSTANTS
  A = A
  B = B
  C = C
  c1 = c1
  c2 = c2
  k1 = k1
  k2 = k2
  k3 = k3
  NoNode = NoNode
  NoCaller = NoCaller
  Node = {A, B}
  Key = {k1, k2}
  Value = {v1, v2}
  Caller = {c1}
  Capacity <- RoomForTwo
  KeysOf <- SharedKeys
  DeletedKeys = {k1, k2}
  Calls = {"sync", "sync-set", "full-sync", "client-del"}
  Pairs <- OnePair
  Route <- MCRoute
  StoppingNodes = {A, B}
  MaxSynced = 3
INVARIANTS
  FullSyncCopiesMaster
CHECK_DEADLOCK FALSE
