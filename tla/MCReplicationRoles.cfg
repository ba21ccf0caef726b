SPECIFICATION FairSpec
CONSTANTS
  A = A
  B = B
  C = C
  c1 = c1
  c2 = c2
  k1 = k1
  k2 = k2
  k3 = k3
  NoNode = NoNode
  NoCaller = NoCaller
  Node = {A, B, C}
  Key = {k1}
  Value = {v1}
  Caller = {c1, c2}
  Capacity <- RoomForTwo
  KeysOf <- SharedKeys
  DeletedKeys = {k1}
  Calls = {"sync", "sync-set", "sync-del", "del-both", "full-sync", "client-get", "client-set", "client-del", "start-stop"}
  Pairs <- SwitchingPairs
  Route <- MCRoute
  StoppingNodes = {A}
  MaxSynced = 1
INVARIANTS
  TypeOK
  RolesAgree
PROPERTIES
  EveryCallReturns
CHECK_DEADLOCK FALSE
