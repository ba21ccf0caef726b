------------------------------ MODULE HashRing ------------------------------
(***************************************************************************)
(* pkg/shard/shard.go: the consistent-hash ring.  Every method holds r.mu  *)
(* for its whole body, so every method is one step.  The two hash          *)
(* functions are parameters: nothing here depends on FNV-1a but its range. *)
(***************************************************************************)
EXTENDS Integers, Sequences, FiniteSets, Functions

CONSTANTS NodeID,           \* node names, the empty string among them
          EmptyID,          \* the empty string
          VirtualNodes,     \* virtual nodes per physical node
          HashSpace,        \* the number of hash values, 2^64 in the code
          virtualNodeHash,  \* virtualNodeHash[<<n, i>>]: the hash of virtual node i of n
          Key,
          fnvHash           \* fnvHash[k]: the hash of a key

Hash == 0 .. HashSpace - 1
Index == 0 .. VirtualNodes - 1

ASSUME RingAssumption ==
  /\ VirtualNodes \in Nat \ {0}
  /\ HashSpace \in Nat \ {0}
  /\ EmptyID \in NodeID
  /\ virtualNodeHash \in [NodeID \X Index -> Hash]
  /\ fnvHash \in [Key -> Hash]

VARIABLES physicalSet, hashToNode, sortedHashes

ring == <<physicalSet, hashToNode, sortedHashes>>

-----------------------------------------------------------------------------

Hashes(n) == {virtualNodeHash[<<n, i>>] : i \in Index}

\* Two nodes have a virtual node with this hash value.
Shared(h) == \E n, m \in NodeID \ {EmptyID} : n # m /\ h \in Hashes(n) \cap Hashes(m)

\* The elements of a set of hashes in increasing order: position i holds the one
\* with i - 1 smaller ones.
SortedSeq(S) ==
  [i \in 1 .. Cardinality(S) |-> CHOOSE h \in S : Cardinality({g \in S : g < h}) = i - 1]

\* rebuildSortedHashes: the keys of hashToNode, sorted.
RebuildSortedHashes == sortedHashes' = SortedSeq(DOMAIN hashToNode')

\* Faulty variant: the search stops at the first greater hash.
SearchStrictly(h) ==
  LET at == {i \in 1 .. Len(sortedHashes) : sortedHashes[i] > h}
  IN  IF at = {} THEN Len(sortedHashes) + 1 ELSE CHOOSE i \in at : \A j \in at : i <= j

\* sort.Search over an increasing sequence: the first position whose hash is at
\* least h, or the one past the end.
Search(h) ==
  LET at == {i \in 1 .. Len(sortedHashes) : sortedHashes[i] >= h}
  IN  IF at = {} THEN Len(sortedHashes) + 1 ELSE CHOOSE i \in at : \A j \in at : i <= j

\* The hash of the ring that a key with hash h is at, and its owner: GetNode.
HashAt(h) == LET idx == Search(h)
             IN  sortedHashes[IF idx > Len(sortedHashes) THEN 1 ELSE idx]

NodeAt(h) == IF sortedHashes = <<>> THEN EmptyID ELSE hashToNode[HashAt(h)]

GetNode(k) == NodeAt(fnvHash[k])

-----------------------------------------------------------------------------

Init == /\ physicalSet = {}
        /\ hashToNode = <<>>
        /\ sortedHashes = <<>>

\* Faulty variant: the empty name is accepted.
AddNodeUnchecked(n) ==
  /\ n \notin physicalSet
  /\ physicalSet' = physicalSet \cup {n}
  /\ hashToNode' = [h \in DOMAIN hashToNode \cup Hashes(n) |->
                      IF h \in Hashes(n) THEN n ELSE hashToNode[h]]
  /\ RebuildSortedHashes

\* The node's virtual nodes are written into hashToNode over whatever is there.
AddNode(n) ==
  /\ n # EmptyID
  /\ n \notin physicalSet
  /\ physicalSet' = physicalSet \cup {n}
  /\ hashToNode' = [h \in DOMAIN hashToNode \cup Hashes(n) |->
                      IF h \in Hashes(n) THEN n ELSE hashToNode[h]]
  /\ RebuildSortedHashes

\* An empty name is an error, a node that is there already is no change.
AddNodeRejected(n) == (n = EmptyID \/ n \in physicalSet) /\ UNCHANGED ring

\* Faulty variants: virtual node 0 is left behind; the sorted array is not rebuilt.
RemoveNodeButFirst(n) ==
  /\ n \in physicalSet
  /\ physicalSet' = physicalSet \ {n}
  /\ hashToNode' = [h \in DOMAIN hashToNode \ {virtualNodeHash[<<n, i>>] : i \in Index \ {0}} |->
                      hashToNode[h]]
  /\ RebuildSortedHashes

RemoveNodeUnsorted(n) ==
  /\ n \in physicalSet
  /\ physicalSet' = physicalSet \ {n}
  /\ hashToNode' = [h \in DOMAIN hashToNode \ Hashes(n) |-> hashToNode[h]]
  /\ UNCHANGED sortedHashes

\* The node's hashes are deleted from hashToNode, whoever owns them.
RemoveNode(n) ==
  /\ n \in physicalSet
  /\ physicalSet' = physicalSet \ {n}
  /\ hashToNode' = [h \in DOMAIN hashToNode \ Hashes(n) |-> hashToNode[h]]
  /\ RebuildSortedHashes

RemoveNodeRejected(n) == n \notin physicalSet /\ UNCHANGED ring

\* Faulty variant: the loop over virtual nodes starts at 1.
RebuildFromOne ==
  /\ hashToNode' = [h \in {virtualNodeHash[<<n, i>>] : n \in physicalSet, i \in Index \ {0}} |->
                      CHOOSE n \in physicalSet : h \in Hashes(n)]
  /\ RebuildSortedHashes
  /\ UNCHANGED physicalSet

\* Go visits the map physicalSet in any order; the last node visited owns a hash
\* that several nodes have.
Rebuild ==
  /\ \E visit \in Bijection(physicalSet, 1 .. Cardinality(physicalSet)) :
       hashToNode' = [h \in UNION {Hashes(n) : n \in physicalSet} |->
                        CHOOSE n \in physicalSet :
                          /\ h \in Hashes(n)
                          /\ \A m \in physicalSet : h \in Hashes(m) => visit[m] <= visit[n]]
  /\ RebuildSortedHashes
  /\ UNCHANGED physicalSet

Next == \/ \E n \in NodeID : \/ AddNode(n) \/ AddNodeRejected(n)
                             \/ RemoveNode(n) \/ RemoveNodeRejected(n)
        \/ Rebuild

Spec == Init /\ [][Next]_ring

-----------------------------------------------------------------------------

\* The type invariant.
TypeOK == /\ physicalSet \subseteq NodeID \ {EmptyID}
          /\ DOMAIN hashToNode \subseteq Hash
          /\ hashToNode \in [DOMAIN hashToNode -> NodeID \ {EmptyID}]
          /\ sortedHashes \in Seq(Hash)

\* sortedHashes is strictly increasing and holds exactly the keys of hashToNode:
\* the binary search of shard.go:166-168 is sound and its result is always mapped.
SortedHashesAgree ==
  /\ \A i, j \in 1 .. Len(sortedHashes) : i < j => sortedHashes[i] < sortedHashes[j]
  /\ {sortedHashes[i] : i \in 1 .. Len(sortedHashes)} = DOMAIN hashToNode

\* A hash on the ring belongs to a member that has a virtual node there, so that a key
\* is never routed to a node that has left, collisions or not.
OwnersAreMembers ==
  \A h \in DOMAIN hashToNode : hashToNode[h] \in physicalSet /\ h \in Hashes(hashToNode[h])

\* The distance from a to b, walking clockwise.
Clockwise(a, b) == (b - a) % HashSpace

\* GetNode (shard.go:154-176) finds the owner of the virtual node that is nearest
\* clockwise from the key, past the end of the array as well.
RoutesClockwise ==
  \A h \in Hash :
    IF DOMAIN hashToNode = {} THEN NodeAt(h) = EmptyID
    ELSE \E g \in DOMAIN hashToNode :
           /\ NodeAt(h) = hashToNode[g]
           /\ \A x \in DOMAIN hashToNode : Clockwise(h, g) <= Clockwise(h, x)

\* The ring is a function of its members but where hashes collide: whatever joined, left
\* and was rebuilt before, in whatever order, a virtual node that shares its hash with no
\* other is on the ring exactly while its node is a member, and is its node's.
RingDependsOnMembersOnly ==
  \A n \in NodeID \ {EmptyID} : \A h \in Hashes(n) :
    ~Shared(h) => IF n \in physicalSet THEN h \in DOMAIN hashToNode /\ hashToNode[h] = n
                  ELSE h \notin DOMAIN hashToNode

\* The key at h has a reason to change its node in this step: its node joins or leaves,
\* or it comes from or goes to a hash on which two nodes collide.
MayMove(h) ==
  \/ NodeAt(h)' \in physicalSet' \ physicalSet
  \/ NodeAt(h) \in physicalSet \ physicalSet'
  \/ sortedHashes # <<>> /\ Shared(HashAt(h))
  \/ sortedHashes' # <<>> /\ Shared(HashAt(h)')

\* Consistent hashing: a key changes its node only to a node that joins or from a node
\* that leaves, and Rebuild (shard.go:129-149) moves no key, but for the keys that come
\* from or go to a hash on which two nodes collide.
OnlyNeededKeysMove == [][\A h \in Hash : NodeAt(h)' # NodeAt(h) => MayMove(h)]_ring
=============================================================================
