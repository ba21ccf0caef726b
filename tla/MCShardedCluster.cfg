SPECIFICATION Spec
CONSTANTS
  A = A
  B = B
  D = D
  k1 = k1
  k2 = k2
  v1 = v1
  v2 = v2
  NoNode = NoNode
  NoValue = NoValue
  Node = {A, B, D}
  ServerNodes = {A, B}
  StoppingNodes = {A}
  Key = {k1, k2}
  Value = {v1, v2}
  Capacity <- RoomForOne
  Conn = {c1, c2}
  Command <- MCCommand
  VirtualNodes = 1
  HashSpace = 8
  virtualNodeHash <- MCLayout
  fnvHash <- MCFnvHash
SYMMETRY Connections
INVARIANT
  TypeOK
PROPERTY
  ImplementsCacheService
