--------------------------- MODULE HashRingProofs ---------------------------
(***************************************************************************)
(* Theorems about HashRing for every set of nodes, number of virtual nodes *)
(* and pair of hash functions.                                             *)
(***************************************************************************)
EXTENDS HashRing, FiniteSetTheorems, TLAPS

-----------------------------------------------------------------------------
(***************************************************************************)
(* Sets of naturals.                                                       *)
(***************************************************************************)

\* A nonempty set of naturals has a least element.
LEMMA LeastExists ==
  ASSUME NEW S \in SUBSET Nat, S # {}
  PROVE  \E x \in S : \A y \in S : x <= y
<1>1. IsWellFoundedOn(OpToRel(<, Nat), Nat)
  BY NatLessThanWellFounded
<1>2. PICK x \in S : \A y \in S : <<y, x>> \notin OpToRel(<, Nat)
  BY <1>1, WFMin
<1>3. \A y \in S : ~ (y < x)
  BY <1>2 DEF OpToRel
<1> QED BY <1>3

\* A nonempty bounded set of naturals has a greatest element.
LEMMA GreatestExists ==
  ASSUME NEW S \in SUBSET Nat, S # {}, NEW n \in Nat, \A x \in S : x <= n
  PROVE  \E x \in S : \A y \in S : y <= x
<1> DEFINE T == {n - x : x \in S}
<1>1. T \in SUBSET Nat /\ T # {}
  <2>1. \A x \in S : n - x \in Nat
    OBVIOUS
  <2>2. \A t \in T : t \in Nat
    BY <2>1
  <2> QED BY <2>2
<1>2. PICK t \in T : \A u \in T : t <= u
  <2> HIDE DEF T
  <2> QED BY <1>1, LeastExists
<1>3. PICK x \in S : t = n - x
  OBVIOUS
<1>4. ASSUME NEW y \in S PROVE y <= x
  <2>1. n - y \in T
    OBVIOUS
  <2>2. n - x <= n - y
    BY <1>2, <1>3, <2>1
  <2> QED BY <2>2
<1> QED BY <1>4

-----------------------------------------------------------------------------
(***************************************************************************)
(* Sorting.                                                                *)
(***************************************************************************)

Below(S, h) == {g \in S : g < h}

\* Distinct elements of a finite set of naturals have distinct ranks, and every rank
\* below the set's size is taken.
LEMMA Ranks ==
  ASSUME NEW S \in SUBSET Nat, IsFiniteSet(S)
  PROVE  /\ Cardinality(S) \in Nat
         /\ \A h \in S : /\ Cardinality(Below(S, h)) \in Nat
                        /\ Cardinality(Below(S, h)) \in 0 .. Cardinality(S) - 1
         /\ \A g, h \in S : g < h => Cardinality(Below(S, g)) < Cardinality(Below(S, h))
         /\ \A r \in 0 .. Cardinality(S) - 1 : \E h \in S : Cardinality(Below(S, h)) = r
<1> DEFINE n == Cardinality(S)
           rank == [h \in S |-> Cardinality(Below(S, h))]
<1>1. n \in Nat
  BY FS_CardinalityType
<1>2. \A h \in S : IsFiniteSet(Below(S, h)) /\ Cardinality(Below(S, h)) \in Nat
  <2> TAKE h \in S
  <2>1. Below(S, h) \in SUBSET S
    BY DEF Below
  <2> QED BY <2>1, FS_Subset, FS_CardinalityType
<1>3. ASSUME NEW h \in S PROVE Cardinality(Below(S, h)) \in 0 .. n - 1
  <2>1. Below(S, h) \in SUBSET S /\ h \notin Below(S, h)
    BY DEF Below
  <2>2. Cardinality(Below(S, h)) <= n /\ Cardinality(Below(S, h)) # n
    BY <2>1, FS_Subset
  <2> QED BY <1>1, <1>2, <2>2
<1>4. ASSUME NEW g \in S, NEW h \in S, g < h
      PROVE  Cardinality(Below(S, g)) < Cardinality(Below(S, h))
  <2>1. Below(S, g) \in SUBSET Below(S, h) /\ g \in Below(S, h) /\ g \notin Below(S, g)
    <3>1. \A x \in S : x \in Nat
      OBVIOUS
    <3>2. \A x \in S : x < g => x < h
      BY <1>4, <3>1
    <3>3. \A x : x \in Below(S, g) => x \in Below(S, h)
      BY <3>2 DEF Below
    <3>4. g \in Below(S, h) /\ g \notin Below(S, g)
      BY <1>4, <3>1 DEF Below
    <3> QED BY <3>3, <3>4
  <2>2. /\ Cardinality(Below(S, g)) <= Cardinality(Below(S, h))
        /\ Cardinality(Below(S, g)) # Cardinality(Below(S, h))
    BY <1>2, <2>1, FS_Subset
  <2> QED BY <1>2, <2>2
<1>5. rank \in Injection(S, 0 .. n - 1)
  <2>1. rank \in [S -> 0 .. n - 1]
    BY <1>3
  <2>2. ASSUME NEW g \in S, NEW h \in S, rank[g] = rank[h] PROVE g = h
    <3>1. ~ (g < h) /\ ~ (h < g)
      BY <1>2, <1>4, <2>2
    <3> QED BY <3>1
  <2> QED BY <2>1, <2>2 DEF Injection, IsInjective
<1>6. rank \in Surjection(S, 0 .. n - 1)
  <2>1. 0 \in Int /\ n - 1 \in Int
    BY <1>1
  <2>2. /\ IsFiniteSet(0 .. n - 1)
        /\ Cardinality(0 .. n - 1) = IF 0 > n - 1 THEN 0 ELSE n - 1 - 0 + 1
    BY <2>1, FS_Interval
  <2>3. Cardinality(0 .. n - 1) = n
    BY <1>1, <2>2
  <2> HIDE DEF rank
  <2> QED BY <1>5, <2>2, <2>3, FS_Injection
<1>7. \A r \in 0 .. n - 1 : \E h \in S : rank[h] = r
  BY <1>6 DEF Surjection
<1> QED BY <1>1, <1>2, <1>3, <1>4, <1>7

\* SortedSeq sorts: an increasing sequence of exactly the elements of the set.
LEMMA SortedSeqProperties ==
  ASSUME NEW S \in SUBSET Nat, IsFiniteSet(S)
  PROVE  LET s == SortedSeq(S)
         IN  /\ s \in Seq(S)
             /\ Len(s) = Cardinality(S)
             /\ \A i, j \in 1 .. Len(s) : i < j => s[i] < s[j]
             /\ {s[i] : i \in 1 .. Len(s)} = S
<1> DEFINE n == Cardinality(S)
           s == SortedSeq(S)
<1>1. /\ n \in Nat
      /\ \A h \in S : /\ Cardinality(Below(S, h)) \in Nat
                     /\ Cardinality(Below(S, h)) \in 0 .. n - 1
      /\ \A g, h \in S : g < h => Cardinality(Below(S, g)) < Cardinality(Below(S, h))
      /\ \A r \in 0 .. n - 1 : \E h \in S : Cardinality(Below(S, h)) = r
  BY Ranks
<1>2. s = [i \in 1 .. n |-> CHOOSE h \in S : Cardinality(Below(S, h)) = i - 1]
  BY DEF SortedSeq, Below
<1>3. \A i \in 1 .. n : s[i] \in S /\ Cardinality(Below(S, s[i])) = i - 1
  <2> TAKE i \in 1 .. n
  <2>1. i - 1 \in 0 .. n - 1
    BY <1>1
  <2>2. \E h \in S : Cardinality(Below(S, h)) = i - 1
    BY <1>1, <2>1
  <2>3. s[i] = CHOOSE h \in S : Cardinality(Below(S, h)) = i - 1
    BY <1>2
  <2> QED BY <2>2, <2>3
<1> HIDE DEF n, s
<1>4. s \in Seq(S) /\ Len(s) = n
  <2>1. s \in [1 .. n -> S]
    BY <1>2, <1>3
  <2> QED BY <1>1, <2>1
<1>5. ASSUME NEW i \in 1 .. n, NEW j \in 1 .. n, i < j PROVE s[i] < s[j]
  <2>1. /\ s[i] \in S /\ s[j] \in S
        /\ Cardinality(Below(S, s[i])) = i - 1 /\ Cardinality(Below(S, s[j])) = j - 1
    BY <1>3
  <2>2. s[i] \in Nat /\ s[j] \in Nat
    BY <2>1
  <2>3. Cardinality(Below(S, s[i])) < Cardinality(Below(S, s[j]))
    BY <1>1, <1>5, <2>1
  <2>4. s[i] # s[j]
    BY <2>3, <2>1
  <2>5. ~ (s[j] < s[i])
    <3>1. SUFFICES ASSUME s[j] < s[i] PROVE FALSE
      OBVIOUS
    <3>2. Cardinality(Below(S, s[j])) < Cardinality(Below(S, s[i]))
      BY <1>1, <2>1, <3>1
    <3> QED BY <2>1, <2>3, <3>2
  <2> QED BY <2>2, <2>4, <2>5
<1>6. ASSUME NEW h \in S PROVE \E i \in 1 .. n : s[i] = h
  <2>1. PICK i \in 1 .. n : Cardinality(Below(S, h)) = i - 1
    <3>1. Cardinality(Below(S, h)) \in 0 .. n - 1
      BY <1>1
    <3>2. Cardinality(Below(S, h)) + 1 \in 1 .. n
      BY <1>1, <3>1
    <3> QED BY <1>1, <3>1, <3>2
  <2>2. s[i] \in S /\ Cardinality(Below(S, s[i])) = Cardinality(Below(S, h))
    BY <1>3, <2>1
  <2>3. /\ s[i] \in Nat /\ h \in Nat
        /\ Cardinality(Below(S, h)) \in Nat
        /\ Cardinality(Below(S, s[i])) \in Nat
    BY <1>1, <2>1, <2>2
  <2>4. ~ (s[i] < h) /\ ~ (h < s[i])
    BY <1>1, <2>2, <2>3
  <2> QED BY <2>1, <2>3, <2>4
<1>7. {s[i] : i \in 1 .. n} = S
  BY <1>3, <1>6
<1>8. /\ s \in Seq(S)
      /\ Len(s) = n
      /\ \A i, j \in 1 .. Len(s) : i < j => s[i] < s[j]
      /\ {s[i] : i \in 1 .. Len(s)} = S
  BY <1>4, <1>5, <1>7
<1> QED BY <1>8 DEF n, s

-----------------------------------------------------------------------------
(***************************************************************************)
(* The members of the ring and the map of hashes.                          *)
(***************************************************************************)

\* A node's hashes are hashes, and it has one at least.
LEMMA HashesType == \A n \in NodeID : Hashes(n) \in SUBSET Hash /\ Hashes(n) # {}
<1> TAKE n \in NodeID
<1>1. virtualNodeHash \in [NodeID \X Index -> Hash]
  BY RingAssumption
<1>2. \A i \in Index : virtualNodeHash[<<n, i>>] \in Hash
  BY <1>1
<1>3. 0 \in Index
  BY RingAssumption DEF Index
<1> QED BY <1>2, <1>3 DEF Hashes

\* What the methods keep true of physicalSet and hashToNode.
MembersOK ==
  /\ physicalSet \in SUBSET (NodeID \ {EmptyID})
  /\ IsFiniteSet(physicalSet)
  /\ DOMAIN hashToNode \in SUBSET Hash
  /\ hashToNode \in [DOMAIN hashToNode -> NodeID \ {EmptyID}]
  /\ OwnersAreMembers
  /\ RingDependsOnMembersOnly

\* The inductive invariant: sortedHashes is always what rebuildSortedHashes makes it.
IInv == MembersOK /\ sortedHashes = SortedSeq(DOMAIN hashToNode)

LEMMA AddNodeKeepsMembers ==
  ASSUME MembersOK, NEW n \in NodeID, AddNode(n)
  PROVE  MembersOK'
<1> DEFINE D == DOMAIN hashToNode
           E == D \cup Hashes(n)
<1>1. /\ n \in NodeID \ {EmptyID}
      /\ physicalSet' = physicalSet \cup {n}
      /\ hashToNode' = [h \in E |-> IF h \in Hashes(n) THEN n ELSE hashToNode[h]]
  BY DEF AddNode
<1>2. Hashes(n) \in SUBSET Hash
  BY HashesType
<1>3. /\ physicalSet \in SUBSET (NodeID \ {EmptyID})
      /\ IsFiniteSet(physicalSet)
      /\ D \in SUBSET Hash
      /\ hashToNode \in [D -> NodeID \ {EmptyID}]
  BY DEF MembersOK
<1>4. \A h \in D : hashToNode[h] \in physicalSet /\ h \in Hashes(hashToNode[h])
  BY DEF MembersOK, OwnersAreMembers
<1> HIDE DEF D
<1>5. DOMAIN hashToNode' = E
  BY <1>1
<1>6. IsFiniteSet(physicalSet')
  BY <1>1, <1>3, FS_AddElement
<1>7. hashToNode' \in [E -> NodeID \ {EmptyID}] /\ E \in SUBSET Hash
  BY <1>1, <1>2, <1>3
<1>8. OwnersAreMembers'
  <2> SUFFICES ASSUME NEW h \in E
               PROVE  hashToNode'[h] \in physicalSet' /\ h \in Hashes(hashToNode'[h])
    BY <1>5 DEF OwnersAreMembers, Hashes
  <2>1. CASE h \in Hashes(n)
    BY <1>1, <2>1
  <2>2. CASE h \notin Hashes(n)
    BY <1>1, <1>4, <2>2
  <2> QED BY <2>1, <2>2
<1>9. RingDependsOnMembersOnly'
  <2> SUFFICES ASSUME NEW m \in NodeID \ {EmptyID}, NEW h \in Hashes(m), ~ Shared(h)
               PROVE  IF m \in physicalSet' THEN h \in E /\ hashToNode'[h] = m
                      ELSE h \notin E
    BY <1>5 DEF RingDependsOnMembersOnly, Hashes, Shared
  <2>1. IF m \in physicalSet THEN h \in D /\ hashToNode[h] = m ELSE h \notin D
    BY DEF MembersOK, RingDependsOnMembersOnly, D
  <2>2. CASE m = n
    BY <1>1, <2>2
  <2>3. CASE m # n
    <3>1. h \notin Hashes(n)
      BY <1>1, <2>3 DEF Shared
    <3> QED BY <1>1, <2>1, <2>3, <3>1
  <2> QED BY <2>2, <2>3
<1> QED BY <1>1, <1>3, <1>5, <1>6, <1>7, <1>8, <1>9 DEF MembersOK

LEMMA RemoveNodeKeepsMembers ==
  ASSUME MembersOK, NEW n \in NodeID, RemoveNode(n)
  PROVE  MembersOK'
<1> DEFINE D == DOMAIN hashToNode
           E == D \ Hashes(n)
<1>1. /\ n \in physicalSet
      /\ physicalSet' = physicalSet \ {n}
      /\ hashToNode' = [h \in E |-> hashToNode[h]]
  BY DEF RemoveNode
<1>2. /\ physicalSet \in SUBSET (NodeID \ {EmptyID})
      /\ IsFiniteSet(physicalSet)
      /\ D \in SUBSET Hash
      /\ hashToNode \in [D -> NodeID \ {EmptyID}]
  BY DEF MembersOK
<1>3. \A h \in D : hashToNode[h] \in physicalSet /\ h \in Hashes(hashToNode[h])
  BY DEF MembersOK, OwnersAreMembers
<1> HIDE DEF D
<1>4. DOMAIN hashToNode' = E
  BY <1>1
<1>5. IsFiniteSet(physicalSet')
  BY <1>1, <1>2, FS_RemoveElement
<1>6. hashToNode' \in [E -> NodeID \ {EmptyID}] /\ E \in SUBSET Hash
  BY <1>1, <1>2
<1>7. OwnersAreMembers'
  <2> SUFFICES ASSUME NEW h \in E
               PROVE  hashToNode'[h] \in physicalSet' /\ h \in Hashes(hashToNode'[h])
    BY <1>4 DEF OwnersAreMembers, Hashes
  <2>1. hashToNode'[h] = hashToNode[h] /\ hashToNode[h] # n
    BY <1>1, <1>3
  <2> QED BY <1>1, <1>3, <2>1
<1>8. RingDependsOnMembersOnly'
  <2> SUFFICES ASSUME NEW m \in NodeID \ {EmptyID}, NEW h \in Hashes(m), ~ Shared(h)
               PROVE  IF m \in physicalSet' THEN h \in E /\ hashToNode'[h] = m
                      ELSE h \notin E
    BY <1>4 DEF RingDependsOnMembersOnly, Hashes, Shared
  <2>1. IF m \in physicalSet THEN h \in D /\ hashToNode[h] = m ELSE h \notin D
    BY DEF MembersOK, RingDependsOnMembersOnly, D
  <2>2. CASE m = n
    BY <1>1, <2>2
  <2>3. CASE m # n
    <3>1. h \notin Hashes(n)
      BY <1>1, <1>2, <2>3 DEF Shared
    <3> QED BY <1>1, <2>1, <2>3, <3>1
  <2> QED BY <2>2, <2>3
<1> QED BY <1>1, <1>2, <1>4, <1>5, <1>6, <1>7, <1>8 DEF MembersOK

\* Whatever the order of the visits, a hash of some member gets an owner: the member
\* visited last of those that have it.
LEMMA LastVisitorExists ==
  ASSUME IsFiniteSet(physicalSet),
         NEW visit \in Bijection(physicalSet, 1 .. Cardinality(physicalSet)),
         NEW h \in UNION {Hashes(n) : n \in physicalSet}
  PROVE  \E n \in physicalSet :
           /\ h \in Hashes(n)
           /\ \A m \in physicalSet : h \in Hashes(m) => visit[m] <= visit[n]
<1> DEFINE V == {visit[m] : m \in {x \in physicalSet : h \in Hashes(x)}}
           c == Cardinality(physicalSet)
<1>1. visit \in [physicalSet -> 1 .. c]
  BY DEF Bijection, Injection
<1>2. c \in Nat
  BY FS_CardinalityType
<1>3. V \in SUBSET Nat /\ V # {} /\ \A v \in V : v <= c
  BY <1>1, <1>2
<1>4. PICK v \in V : \A u \in V : u <= v
  <2> HIDE DEF V, c
  <2> QED BY <1>2, <1>3, GreatestExists
<1> QED BY <1>4

LEMMA RebuildKeepsMembers ==
  ASSUME MembersOK, Rebuild
  PROVE  /\ MembersOK'
         /\ DOMAIN hashToNode' = UNION {Hashes(n) : n \in physicalSet}
<1> DEFINE E == UNION {Hashes(n) : n \in physicalSet}
<1>1. /\ physicalSet \in SUBSET (NodeID \ {EmptyID})
      /\ IsFiniteSet(physicalSet)
      /\ physicalSet' = physicalSet
  BY DEF MembersOK, Rebuild
<1>2. PICK visit \in Bijection(physicalSet, 1 .. Cardinality(physicalSet)) :
        hashToNode' = [h \in E |->
          CHOOSE n \in physicalSet :
            /\ h \in Hashes(n)
            /\ \A m \in physicalSet : h \in Hashes(m) => visit[m] <= visit[n]]
  BY DEF Rebuild
<1>3. DOMAIN hashToNode' = E
  BY <1>2
<1>4. ASSUME NEW h \in E
      PROVE  hashToNode'[h] \in physicalSet /\ h \in Hashes(hashToNode'[h])
  <2>1. \E n \in physicalSet :
           /\ h \in Hashes(n)
           /\ \A m \in physicalSet : h \in Hashes(m) => visit[m] <= visit[n]
    BY <1>1, LastVisitorExists
  <2>2. hashToNode'[h] =
          CHOOSE n \in physicalSet :
            /\ h \in Hashes(n)
            /\ \A m \in physicalSet : h \in Hashes(m) => visit[m] <= visit[n]
    BY <1>2
  <2> QED BY <2>1, <2>2
<1>5. hashToNode' \in [E -> NodeID \ {EmptyID}]
  <2>1. hashToNode' = [h \in E |-> hashToNode'[h]]
    BY <1>2
  <2> HIDE DEF E
  <2>2. \A h \in E : hashToNode'[h] \in NodeID \ {EmptyID}
    BY <1>1, <1>4
  <2> QED BY <2>1, <2>2
<1>6. E \in SUBSET Hash
  BY <1>1, HashesType
<1> HIDE DEF E
<1>7. OwnersAreMembers'
  BY <1>1, <1>3, <1>4 DEF OwnersAreMembers, Hashes
<1>8. RingDependsOnMembersOnly'
  <2> SUFFICES ASSUME NEW m \in NodeID \ {EmptyID}, NEW h \in Hashes(m), ~ Shared(h)
               PROVE  IF m \in physicalSet THEN h \in E /\ hashToNode'[h] = m
                      ELSE h \notin E
    BY <1>1, <1>3 DEF RingDependsOnMembersOnly, Hashes, Shared
  <2>1. \A n \in physicalSet : h \in Hashes(n) => n = m
    BY <1>1 DEF Shared
  <2>2. h \in E <=> m \in physicalSet
    BY <2>1 DEF E
  <2> QED BY <1>4, <2>1, <2>2
<1> QED BY <1>1, <1>3, <1>5, <1>6, <1>7, <1>8 DEF MembersOK, E

LEMMA IInvInitially == Init => IInv
<1> SUFFICES ASSUME Init PROVE IInv
  OBVIOUS
<1>1. physicalSet = {} /\ hashToNode = <<>> /\ sortedHashes = <<>>
  BY DEF Init
<1>2. DOMAIN hashToNode = {} /\ hashToNode \in [{} -> NodeID \ {EmptyID}]
  BY <1>1
<1>3. IsFiniteSet({}) /\ Cardinality({}) = 0
  BY FS_EmptySet
<1>4. SortedSeq({}) = <<>>
  <2>1. SortedSeq({}) \in Seq({}) /\ Len(SortedSeq({})) = 0
    BY <1>3, SortedSeqProperties
  <2> QED BY <2>1
<1> QED BY <1>1, <1>2, <1>3, <1>4
        DEF IInv, MembersOK, OwnersAreMembers, RingDependsOnMembersOnly

LEMMA IInvInductive == IInv /\ [Next]_ring => IInv'
<1> SUFFICES ASSUME IInv, [Next]_ring PROVE IInv'
  OBVIOUS
<1>1. MembersOK /\ sortedHashes = SortedSeq(DOMAIN hashToNode)
  BY DEF IInv
<1>2. ASSUME NEW n \in NodeID, AddNode(n) PROVE IInv'
  <2>1. sortedHashes' = SortedSeq(DOMAIN hashToNode')
    BY <1>2 DEF AddNode, RebuildSortedHashes
  <2> QED BY <1>1, <1>2, <2>1, AddNodeKeepsMembers DEF IInv, SortedSeq
<1>3. ASSUME NEW n \in NodeID, RemoveNode(n) PROVE IInv'
  <2>1. sortedHashes' = SortedSeq(DOMAIN hashToNode')
    BY <1>3 DEF RemoveNode, RebuildSortedHashes
  <2> QED BY <1>1, <1>3, <2>1, RemoveNodeKeepsMembers DEF IInv, SortedSeq
<1>4. CASE Rebuild
  <2>1. sortedHashes' = SortedSeq(DOMAIN hashToNode')
    BY <1>4 DEF Rebuild, RebuildSortedHashes
  <2> QED BY <1>1, <1>4, <2>1, RebuildKeepsMembers DEF IInv, SortedSeq
<1>5. CASE UNCHANGED ring
  <2>1. physicalSet' = physicalSet /\ hashToNode' = hashToNode /\ sortedHashes' = sortedHashes
    BY <1>5 DEF ring
  <2>2. OwnersAreMembers'
    BY <1>1, <2>1 DEF MembersOK, OwnersAreMembers, Hashes
  <2>3. RingDependsOnMembersOnly'
    BY <1>1, <2>1 DEF MembersOK, RingDependsOnMembersOnly, Hashes, Shared
  <2> QED BY <1>1, <2>1, <2>2, <2>3 DEF IInv, MembersOK, SortedSeq
<1>6. ASSUME NEW n \in NodeID, AddNodeRejected(n) \/ RemoveNodeRejected(n) PROVE IInv'
  BY <1>5, <1>6 DEF AddNodeRejected, RemoveNodeRejected
<1> QED BY <1>2, <1>3, <1>4, <1>5, <1>6 DEF Next

LEMMA IInvAlways == Spec => []IInv
BY IInvInitially, IInvInductive, PTL DEF Spec

\* sortedHashes lists the ring's hashes in increasing order, and is empty with the ring.
LEMMA SortedHashesProperties ==
  IInv => /\ sortedHashes \in Seq(Hash)
          /\ Len(sortedHashes) \in Nat
          /\ \A i \in 1 .. Len(sortedHashes) : sortedHashes[i] \in DOMAIN hashToNode
          /\ \A g \in DOMAIN hashToNode : \E i \in 1 .. Len(sortedHashes) : g = sortedHashes[i]
          /\ \A i, j \in 1 .. Len(sortedHashes) : i < j => sortedHashes[i] < sortedHashes[j]
          /\ sortedHashes = <<>> <=> DOMAIN hashToNode = {}
<1> SUFFICES ASSUME IInv
             PROVE  /\ sortedHashes \in Seq(Hash)
                    /\ Len(sortedHashes) \in Nat
                    /\ \A i \in 1 .. Len(sortedHashes) : sortedHashes[i] \in DOMAIN hashToNode
                    /\ \A g \in DOMAIN hashToNode :
                         \E i \in 1 .. Len(sortedHashes) : g = sortedHashes[i]
                    /\ \A i, j \in 1 .. Len(sortedHashes) :
                         i < j => sortedHashes[i] < sortedHashes[j]
                    /\ sortedHashes = <<>> <=> DOMAIN hashToNode = {}
  OBVIOUS
<1> DEFINE D == DOMAIN hashToNode
<1>1. D \in SUBSET Hash /\ sortedHashes = SortedSeq(D)
  BY DEF IInv, MembersOK
<1>2. HashSpace \in Nat /\ Hash \in SUBSET Nat
  BY RingAssumption DEF Hash
<1>3. IsFiniteSet(Hash)
  <2>1. 0 \in Int /\ HashSpace - 1 \in Int
    BY <1>2
  <2> QED BY <2>1, FS_Interval DEF Hash
<1>4. IsFiniteSet(D) /\ D \in SUBSET Nat
  BY <1>1, <1>2, <1>3, FS_Subset
<1> HIDE DEF D
<1>5. /\ sortedHashes \in Seq(D)
      /\ \A i, j \in 1 .. Len(sortedHashes) : i < j => sortedHashes[i] < sortedHashes[j]
      /\ {sortedHashes[i] : i \in 1 .. Len(sortedHashes)} = D
  BY <1>1, <1>4, SortedSeqProperties
<1>6. \A i \in 1 .. Len(sortedHashes) : sortedHashes[i] \in D
  BY <1>5
<1>7. sortedHashes \in Seq(Hash) /\ Len(sortedHashes) \in Nat
  BY <1>1, <1>5
<1>8. sortedHashes = <<>> <=> D = {}
  <2>1. Len(sortedHashes) = 0 <=> D = {}
    BY <1>5, <1>6, <1>7
  <2> QED BY <1>5, <2>1
<1> QED BY <1>5, <1>6, <1>7, <1>8 DEF D

\* The state of the ring has its type.
THEOREM TypeCorrect == Spec => []TypeOK
<1>1. IInv => TypeOK
  BY SortedHashesProperties DEF IInv, MembersOK, TypeOK
<1> QED BY <1>1, IInvAlways, PTL

\* The sorted array of shard.go:20 is always the keys of the map, in order.
THEOREM SortedHashesAlwaysAgree == Spec => []SortedHashesAgree
<1>1. IInv => SortedHashesAgree
  BY SortedHashesProperties DEF SortedHashesAgree
<1> QED BY <1>1, IInvAlways, PTL

\* No sequence of joins, departures and rebuilds leaves a hash with a node that is gone.
THEOREM OwnersAreAlwaysMembers == Spec => []OwnersAreMembers
<1>1. IInv => OwnersAreMembers
  BY DEF IInv, MembersOK
<1> QED BY <1>1, IInvAlways, PTL

\* Where hashes do not collide the ring's history leaves no trace.
THEOREM RingAlwaysDependsOnMembersOnly == Spec => []RingDependsOnMembersOnly
<1>1. IInv => RingDependsOnMembersOnly
  BY DEF IInv, MembersOK
<1> QED BY <1>1, IInvAlways, PTL

-----------------------------------------------------------------------------
(***************************************************************************)
(* Routing.                                                                *)
(***************************************************************************)

\* The clockwise distance, by cases.
LEMMA ClockwiseIs ==
  ASSUME NEW a \in Hash, NEW b \in Hash
  PROVE  Clockwise(a, b) = IF a <= b THEN b - a ELSE b - a + HashSpace
<1>1. HashSpace \in Nat \ {0} /\ a \in 0 .. HashSpace - 1 /\ b \in 0 .. HashSpace - 1
  BY RingAssumption DEF Hash
<1>2. CASE a <= b
  BY <1>1, <1>2 DEF Clockwise
<1>3. CASE ~ (a <= b)
  BY <1>1, <1>3 DEF Clockwise
<1> QED BY <1>2, <1>3

\* From a given point, different hashes are at different distances.
LEMMA ClockwiseInjective ==
  ASSUME NEW a \in Hash, NEW b \in Hash, NEW c \in Hash, Clockwise(a, b) <= Clockwise(a, c),
         Clockwise(a, c) <= Clockwise(a, b)
  PROVE  b = c
<1>1. HashSpace \in Nat \ {0} /\ a \in 0 .. HashSpace - 1 /\ b \in 0 .. HashSpace - 1
      /\ c \in 0 .. HashSpace - 1
  BY RingAssumption DEF Hash
<1> QED BY <1>1, ClockwiseIs

\* g is the hash of D that is nearest clockwise from h.
Nearest(D, h, g) == g \in D /\ \A x \in D : Clockwise(h, g) <= Clockwise(h, x)

LEMMA NearestIsUnique ==
  ASSUME NEW D \in SUBSET Hash, NEW h \in Hash, NEW f, NEW g, Nearest(D, h, f), Nearest(D, h, g)
  PROVE  f = g
BY ClockwiseInjective DEF Nearest

\* The position that the search of shard.go:165-171 stops at, back to the first one from
\* past the end, holds the nearest hash.
LEMMA HashAtIsNearest ==
  IInv => \A h \in Hash : DOMAIN hashToNode # {} => Nearest(DOMAIN hashToNode, h, HashAt(h))
<1> SUFFICES ASSUME IInv, NEW h \in Hash, DOMAIN hashToNode # {}
             PROVE  Nearest(DOMAIN hashToNode, h, HashAt(h))
  OBVIOUS
<1> DEFINE D == DOMAIN hashToNode
           s == sortedHashes
           at == {i \in 1 .. Len(s) : s[i] >= h}
<1>1. /\ Len(s) \in Nat
      /\ \A i \in 1 .. Len(s) : s[i] \in D
      /\ \A g \in D : \E i \in 1 .. Len(s) : g = s[i]
      /\ \A i, j \in 1 .. Len(s) : i < j => s[i] < s[j]
      /\ s # <<>> /\ s \in Seq(Hash)
  BY SortedHashesProperties
<1>2. D \in SUBSET Hash /\ HashSpace \in Nat \ {0} /\ \A x \in Hash : x \in 0 .. HashSpace - 1
  BY RingAssumption DEF IInv, MembersOK, Hash
<1>3. 1 \in 1 .. Len(s)
  BY <1>1
<1> HIDE DEF D, s
<1>4. CASE at = {}
  <2>1. HashAt(h) = s[1]
    BY <1>1, <1>4 DEF HashAt, Search, s
  <2>2. ASSUME NEW x \in D PROVE Clockwise(h, s[1]) <= Clockwise(h, x)
    <3>1. PICK j \in 1 .. Len(s) : x = s[j]
      BY <1>1
    <3>2. s[1] \in Hash /\ s[j] \in Hash /\ s[1] \in Int /\ s[j] \in Int /\ h \in Int
      BY <1>1, <1>2, <1>3
    <3>3. s[1] < h /\ s[j] < h
      BY <1>3, <1>4, <3>2
    <3>4. s[1] <= s[j]
      <4>1. j = 1 \/ 1 < j
        BY <1>1
      <4> QED BY <1>1, <1>3, <3>2, <4>1
    <3> QED BY <1>2, <3>1, <3>2, <3>3, <3>4, ClockwiseIs
  <2> QED BY <1>1, <1>3, <2>1, <2>2 DEF Nearest, D
<1>5. CASE at # {}
  <2> DEFINE i == CHOOSE x \in at : \A y \in at : x <= y
  <2>1. i \in at /\ \A y \in at : i <= y
    <3>1. at \in SUBSET Nat
      BY <1>1
    <3> HIDE DEF at
    <3>2. \E x \in at : \A y \in at : x <= y
      BY <1>5, <3>1, LeastExists
    <3> QED BY <3>2
  <2>2. HashAt(h) = s[i]
    <3>1. Search(h) = i
      BY <1>5 DEF Search, s
    <3>2. i \in 1 .. Len(s)
      BY <2>1
    <3> HIDE DEF i
    <3> QED BY <1>1, <3>1, <3>2 DEF HashAt, s
  <2> HIDE DEF i
  <2>3. ASSUME NEW x \in D PROVE Clockwise(h, s[i]) <= Clockwise(h, x)
    <3>1. PICK j \in 1 .. Len(s) : x = s[j]
      BY <1>1
    <3>2. i \in 1 .. Len(s) /\ h <= s[i] /\ s[i] \in Hash /\ s[j] \in Hash
      BY <1>1, <1>2, <2>1
    <3>3. CASE i <= j
      <4>1. s[i] <= s[j]
        BY <1>1, <1>2, <3>2, <3>3
      <4> QED BY <1>2, <3>1, <3>2, <4>1, ClockwiseIs
    <3>4. CASE ~ (i <= j)
      <4>1. s[j] < h
        BY <1>2, <2>1, <3>2, <3>4
      <4> QED BY <1>2, <3>1, <3>2, <4>1, ClockwiseIs
    <3> QED BY <3>3, <3>4
  <2> QED BY <1>1, <2>1, <2>2, <2>3 DEF Nearest, D
<1> QED BY <1>4, <1>5

\* GetNode finds the owner of the nearest hash, and nobody on an empty ring.
LEMMA NodeAtIs ==
  IInv => \A h \in Hash : NodeAt(h) = IF DOMAIN hashToNode = {} THEN EmptyID
                                      ELSE hashToNode[HashAt(h)]
BY SortedHashesProperties DEF NodeAt

\* Every key goes to the owner of the virtual node nearest clockwise from it.
THEOREM AlwaysRoutesClockwise == Spec => []RoutesClockwise
<1>1. IInv => RoutesClockwise
  BY HashAtIsNearest, NodeAtIs DEF RoutesClockwise, Nearest
<1> QED BY <1>1, IInvAlways, PTL

-----------------------------------------------------------------------------
(***************************************************************************)
(* Which keys a step moves.                                                *)
(***************************************************************************)

\* What IInv says of the place of the key at h, now and after the step.
Placed(h) ==
  /\ (sortedHashes = <<>>) <=> (DOMAIN hashToNode = {})
  /\ DOMAIN hashToNode \in SUBSET Hash
  /\ DOMAIN hashToNode # {} => Nearest(DOMAIN hashToNode, h, HashAt(h))
  /\ NodeAt(h) = IF DOMAIN hashToNode = {} THEN EmptyID ELSE hashToNode[HashAt(h)]

AllPlaced == \A h \in Hash : Placed(h)

LEMMA IInvPlaces == IInv => AllPlaced
BY SortedHashesProperties, HashAtIsNearest, NodeAtIs DEF IInv, MembersOK, Placed, AllPlaced

\* A key whose nearest hash is there before and after the step, with the same owner,
\* does not move.
LEMMA SameHashSameNode ==
  ASSUME NEW h \in Hash, Placed(h), Placed(h)',
         NEW D \in SUBSET Hash, D = DOMAIN hashToNode \/ D = DOMAIN hashToNode',
         NEW g, Nearest(D, h, g), g \in DOMAIN hashToNode, g \in DOMAIN hashToNode',
         DOMAIN hashToNode \subseteq D, DOMAIN hashToNode' \subseteq D,
         hashToNode[g] = hashToNode'[g]
  PROVE  NodeAt(h)' = NodeAt(h) /\ HashAt(h) = g /\ HashAt(h)' = g
<1>1. /\ Nearest(DOMAIN hashToNode, h, g)
      /\ Nearest(DOMAIN hashToNode', h, g)
  BY DEF Nearest
<1>2. HashAt(h) = g /\ NodeAt(h) = hashToNode[g]
  BY <1>1, NearestIsUnique DEF Placed
<1>3. HashAt(h)' = g /\ NodeAt(h)' = hashToNode'[g]
  <2>1. /\ DOMAIN hashToNode' \in SUBSET Hash
        /\ Nearest(DOMAIN hashToNode', h, HashAt(h)')
        /\ NodeAt(h)' = hashToNode'[HashAt(h)']
    BY DEF Placed, Nearest, Clockwise
  <2> QED BY <1>1, <2>1, NearestIsUnique
<1> QED BY <1>2, <1>3

\* A node that joins takes keys from the others and moves no other key.
LEMMA AddNodeMoves ==
  ASSUME IInv, IInv', NEW n \in NodeID, AddNode(n),
         NEW h \in Hash, Placed(h), Placed(h)', NodeAt(h)' # NodeAt(h)
  PROVE  MayMove(h)
<1> DEFINE D == DOMAIN hashToNode
           E == D \cup Hashes(n)
           g == HashAt(h)'
<1>1. /\ n \notin physicalSet
      /\ physicalSet' = physicalSet \cup {n}
      /\ DOMAIN hashToNode' = E
      /\ \A x \in E : hashToNode'[x] = IF x \in Hashes(n) THEN n ELSE hashToNode[x]
  BY DEF AddNode
<1>2. E \in SUBSET Hash /\ E # {}
  BY HashesType DEF Placed
<1>3. Nearest(E, h, g) /\ NodeAt(h)' = hashToNode'[g]
  BY <1>1, <1>2 DEF Placed, Nearest, Clockwise
<1>4. g \in E
  BY <1>3 DEF Nearest
<1> HIDE DEF D, g
<1>5. CASE g \in Hashes(n)
  BY <1>1, <1>3, <1>4, <1>5 DEF MayMove
<1>6. CASE g \notin Hashes(n)
  <2>1. g \in D /\ hashToNode[g] = hashToNode'[g]
    BY <1>1, <1>4, <1>6
  <2> QED BY <1>1, <1>2, <1>3, <1>4, <2>1, SameHashSameNode DEF D
<1> QED BY <1>5, <1>6

\* A node that leaves gives its keys to the others; where it shared a hash with another
\* member, it takes that member's virtual node along.
LEMMA RemoveNodeMoves ==
  ASSUME IInv, IInv', NEW n \in NodeID, RemoveNode(n),
         NEW h \in Hash, Placed(h), Placed(h)', NodeAt(h)' # NodeAt(h)
  PROVE  MayMove(h)
<1> DEFINE D == DOMAIN hashToNode
           E == D \ Hashes(n)
           g == HashAt(h)
<1>1. /\ n \in physicalSet
      /\ physicalSet' = physicalSet \ {n}
      /\ DOMAIN hashToNode' = E
      /\ \A x \in E : hashToNode'[x] = hashToNode[x]
  BY DEF RemoveNode
<1>2. /\ physicalSet \in SUBSET (NodeID \ {EmptyID})
      /\ D \in SUBSET Hash
      /\ \A x \in D : hashToNode[x] \in physicalSet /\ x \in Hashes(hashToNode[x])
  BY DEF IInv, MembersOK, OwnersAreMembers
<1>3. D # {}
  <2>1. SUFFICES ASSUME D = {} PROVE FALSE
    OBVIOUS
  <2>2. NodeAt(h) = EmptyID
    BY <2>1 DEF Placed
  <2>3. NodeAt(h)' = EmptyID
    BY <1>1, <2>1 DEF Placed
  <2> QED BY <2>2, <2>3
<1>4. Nearest(D, h, g) /\ NodeAt(h) = hashToNode[g] /\ sortedHashes # <<>>
  BY <1>3 DEF Placed
<1>5. g \in D
  BY <1>4 DEF Nearest
<1> HIDE DEF D
<1>6. CASE g \in Hashes(n)
  <2>1. CASE hashToNode[g] = n
    BY <1>1, <1>4, <2>1 DEF MayMove
  <2>2. CASE hashToNode[g] # n
    <3>1. Shared(g)
      BY <1>1, <1>2, <1>5, <1>6, <2>2 DEF Shared
    <3> QED BY <1>4, <3>1 DEF MayMove
  <2> QED BY <2>1, <2>2
<1>7. CASE g \notin Hashes(n)
  <2> HIDE DEF g
  <2>1. g \in E /\ hashToNode[g] = hashToNode'[g]
    BY <1>1, <1>5, <1>7
  <2> QED BY <1>1, <1>2, <1>4, <1>5, <2>1, SameHashSameNode DEF D
<1> QED BY <1>6, <1>7

\* A rebuild moves a key only to a hash that nodes share.
LEMMA RebuildMoves ==
  ASSUME IInv, IInv', Rebuild,
         NEW h \in Hash, Placed(h), Placed(h)', NodeAt(h)' # NodeAt(h)
  PROVE  MayMove(h)
<1> DEFINE D == DOMAIN hashToNode
           E == UNION {Hashes(n) : n \in physicalSet}
           g == HashAt(h)'
<1>1. DOMAIN hashToNode' = E /\ physicalSet' = physicalSet
  BY RebuildKeepsMembers DEF IInv, Rebuild
<1>2. /\ physicalSet \in SUBSET (NodeID \ {EmptyID})
      /\ \A x \in D : hashToNode[x] \in physicalSet /\ x \in Hashes(hashToNode[x])
      /\ RingDependsOnMembersOnly
  BY DEF IInv, MembersOK, OwnersAreMembers
<1>3. E \in SUBSET Hash /\ D \subseteq E
  BY <1>2, HashesType
<1>4. E # {}
  <2>1. SUFFICES ASSUME E = {} PROVE FALSE
    OBVIOUS
  <2>2. D = {}
    BY <1>3, <2>1
  <2>3. NodeAt(h) = EmptyID
    BY <2>2 DEF Placed
  <2>4. NodeAt(h)' = EmptyID
    BY <1>1, <2>1 DEF Placed
  <2> QED BY <2>3, <2>4
<1>5. Nearest(E, h, g) /\ NodeAt(h)' = hashToNode'[g] /\ sortedHashes' # <<>>
  BY <1>1, <1>4 DEF Placed, Nearest, Clockwise
<1>6. g \in E
  BY <1>5 DEF Nearest
<1>7. CASE Shared(g)
  BY <1>5, <1>7 DEF MayMove
<1>8. CASE ~ Shared(g)
  <2> HIDE DEF D, g
  <2>1. PICK m \in physicalSet : g \in Hashes(m)
    BY <1>6
  <2>2. g \in D /\ hashToNode[g] = m
    BY <1>2, <1>8, <2>1 DEF RingDependsOnMembersOnly, D
  <2>3. hashToNode'[g] = m
    <3>1. hashToNode'[g] \in physicalSet /\ g \in Hashes(hashToNode'[g])
      BY <1>1, <1>6 DEF IInv, MembersOK, OwnersAreMembers, Hashes
    <3> QED BY <1>2, <1>8, <2>1, <3>1 DEF Shared
  <2> HIDE DEF E
  <2> QED BY <1>1, <1>3, <1>5, <1>6, <2>2, <2>3, SameHashSameNode DEF D
<1> QED BY <1>7, <1>8

\* Consistent hashing: joining and leaving move the keys they must and, but for hashes
\* that collide, no others.
THEOREM OnlyNeededKeysEverMove == Spec => OnlyNeededKeysMove
<1>1. ASSUME IInv, IInv', AllPlaced, AllPlaced', [Next]_ring
      PROVE  [\A h \in Hash : NodeAt(h)' # NodeAt(h) => MayMove(h)]_ring
  <2> SUFFICES ASSUME Next, NEW h \in Hash, NodeAt(h)' # NodeAt(h)
               PROVE  MayMove(h)
    BY <1>1
  <2>1. Placed(h) /\ Placed(h)'
    BY <1>1 DEF AllPlaced
  <2>2. ASSUME NEW n \in NodeID, AddNode(n) PROVE MayMove(h)
    BY <1>1, <2>1, <2>2, AddNodeMoves
  <2>3. ASSUME NEW n \in NodeID, RemoveNode(n) PROVE MayMove(h)
    BY <1>1, <2>1, <2>3, RemoveNodeMoves
  <2>4. CASE Rebuild
    BY <1>1, <2>1, <2>4, RebuildMoves
  <2>5. ASSUME UNCHANGED ring PROVE FALSE
    BY <2>5 DEF ring, NodeAt, HashAt, Search
  <2>6. ASSUME NEW n \in NodeID, AddNodeRejected(n) \/ RemoveNodeRejected(n) PROVE FALSE
    BY <2>5, <2>6 DEF AddNodeRejected, RemoveNodeRejected
  <2> QED BY <2>2, <2>3, <2>4, <2>6 DEF Next
<1> QED BY <1>1, IInvAlways, IInvPlaces, PTL DEF Spec, OnlyNeededKeysMove
=============================================================================
