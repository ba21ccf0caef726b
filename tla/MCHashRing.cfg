SPECIFICATION Spec
CONSTANTS
  n1 = n1
  n2 = n2
  n3 = n3
  n4 = n4
  n5 = n5
  n6 = n6
  k1 = k1
  k2 = k2
  EmptyID = EmptyID
  NodeID <- MCNodeID
  VirtualNodes = 2
  HashSpace = 20
  virtualNodeHash <- MCLayout
  Key = {k1, k2}
  fnvHash <- MCFnvHash
INVARIANTS
  TypeOK
  SortedHashesAgree
  OwnersAreMembers
  RoutesClockwise
  RingDependsOnMembersOnly
PROPERTIES
  OnlyNeededKeysMove
