------------------------ MODULE ShardedClusterProofs ------------------------
(***************************************************************************)
(* Theorems about ShardedCluster for any nodes, ring, connections and      *)
(* commands.  What is proved of the ring alone is taken from               *)
(* HashRingProofs, what is proved of one cache from LRUListProofs.         *)
(***************************************************************************)
EXTENDS ShardedCluster, LRUListProofs

RingProof == INSTANCE HashRingProofs WITH NodeID <- Node \cup {NoNode}, EmptyID <- NoNode

-----------------------------------------------------------------------------
(***************************************************************************)
(* The ring.                                                               *)
(***************************************************************************)

LEMMA RingParameters == RingProof!RingAssumption
  BY ShardedAssumption DEF RingProof!RingAssumption, RingProof!Index, RingProof!Hash

RingOK == RingProof!IInv

LEMMA RingInitially == Ring!Init => RingOK
  BY RingParameters, RingProof!IInvInitially DEF Ring!Init, RingProof!Init, RingOK

\* The two instances of HashRing sort alike.
LEMMA SameSortedSeq == \A S : Ring!SortedSeq(S) = RingProof!SortedSeq(S)
  BY DEF Ring!SortedSeq, RingProof!SortedSeq, Ring!Cardinality, RingProof!Cardinality

LEMMA RingKept ==
  ASSUME RingOK, NEW n \in Node, Ring!AddNode(n) \/ Ring!RemoveNode(n)
  PROVE  RingOK'
  <1>1. RingProof!Next
    <2>1. CASE Ring!AddNode(n)
      <3>1. RingProof!AddNode(n)
        BY <2>1, SameSortedSeq DEF Ring!AddNode, RingProof!AddNode, Ring!Hashes, RingProof!Hashes,
           Ring!Index, RingProof!Index, Ring!RebuildSortedHashes, RingProof!RebuildSortedHashes
      <3> QED
        BY <3>1 DEF RingProof!Next
    <2>2. CASE Ring!RemoveNode(n)
      <3>1. RingProof!RemoveNode(n)
        BY <2>2, SameSortedSeq DEF Ring!RemoveNode, RingProof!RemoveNode, Ring!Hashes, RingProof!Hashes,
           Ring!Index, RingProof!Index, Ring!RebuildSortedHashes, RingProof!RebuildSortedHashes
      <3> QED
        BY <3>1 DEF RingProof!Next
    <2> QED
      BY <2>1, <2>2
  <1>2. [RingProof!Next]_(RingProof!ring)
    BY <1>1
  <1> QED
    BY <1>2, RingParameters, RingProof!IInvInductive DEF RingOK

LEMMA RingStays == RingOK /\ UNCHANGED ring => RingOK'
  <1> SUFFICES ASSUME RingOK, UNCHANGED ring  PROVE RingOK'
    OBVIOUS
  <1>1. [RingProof!Next]_(RingProof!ring)
    BY DEF ring, RingProof!ring
  <1> QED
    BY <1>1, RingParameters, RingProof!IInvInductive DEF RingOK

\* A key's owner is a node, or there is none.
LEMMA OwnerType == RingOK => OwnerOf \in [Key -> Node \cup {NoNode}]
  <1> SUFFICES ASSUME RingOK, NEW k \in Key  PROVE Ring!GetNode(k) \in Node \cup {NoNode}
    BY DEF OwnerOf
  <1>1. fnvHash[k] \in RingProof!Hash
    BY ShardedAssumption DEF RingProof!Hash
  <1>2. RingProof!IInv
    BY DEF RingOK
  <1>3. RingProof!NodeAt(fnvHash[k]) =
          IF DOMAIN hashToNode = {} THEN NoNode ELSE hashToNode[RingProof!HashAt(fnvHash[k])]
    BY <1>1, <1>2, RingParameters, RingProof!NodeAtIs
  <1>4. DOMAIN hashToNode # {} => RingProof!HashAt(fnvHash[k]) \in DOMAIN hashToNode
    BY <1>1, <1>2, RingParameters, RingProof!HashAtIsNearest DEF RingProof!Nearest
  <1>5. hashToNode \in [DOMAIN hashToNode -> (Node \cup {NoNode}) \ {NoNode}]
    BY <1>2 DEF RingProof!IInv, RingProof!MembersOK
  <1>6. RingProof!NodeAt(fnvHash[k]) \in Node \cup {NoNode}
    BY <1>3, <1>4, <1>5
  <1> QED
    BY <1>6 DEF Ring!GetNode, Ring!NodeAt, Ring!HashAt, Ring!Search, RingProof!NodeAt,
       RingProof!HashAt, RingProof!Search

LEMMA OwnersStay == UNCHANGED ring => UNCHANGED OwnerOf
  BY DEF ring, OwnerOf, Ring!GetNode, Ring!NodeAt, Ring!HashAt, Ring!Search

-----------------------------------------------------------------------------
(***************************************************************************)
(* The nodes' caches.                                                      *)
(***************************************************************************)

CacheOK(n, c) == WellFormed(c, Key, Value) /\ Len(c.list) <= Capacity[n]

NodesOK ==
  /\ status \in [Node -> Status]
  /\ masterID \in [Node -> Node \cup {NoNode}]
  /\ DOMAIN lru = Node
  /\ \A n \in Node : CacheOK(n, lru[n])

\* What the cache operations do to the index.
LEMMA GetIndex ==
  ASSUME NEW n \in Node, NEW c, CacheOK(n, c), NEW k
  PROVE  CacheOK(n, AfterGet(c, k)) /\ AfterGet(c, k).cache = c.cache
  BY GetKeepsWellFormed DEF CacheOK, AfterGet

LEMMA UpdateIndex ==
  ASSUME NEW n \in Node, NEW c, CacheOK(n, c), NEW k \in Cached(c), NEW v \in Value
  PROVE  /\ CacheOK(n, AfterSet(c, k, v, Capacity[n]))
         /\ AfterSet(c, k, v, Capacity[n]).cache = [c.cache EXCEPT ![k] = v]
  BY UpdateKeepsWellFormed DEF CacheOK, AfterSet, AfterUpdate

\* The keys E that an insertion evicts: none, or one.
Evicts(c, d, k, v, E) ==
  /\ E \in SUBSET Cached(c) /\ IsFiniteSet(E) /\ Cardinality(E) <= 1
  /\ d.cache = [x \in (Cached(c) \ E) \cup {k} |-> IF x = k THEN v ELSE c.cache[x]]

LEMMA InsertIndex ==
  ASSUME NEW n \in Node, NEW c, CacheOK(n, c), NEW k \in Key \ Cached(c), NEW v \in Value
  PROVE  /\ CacheOK(n, AfterSet(c, k, v, Capacity[n]))
         /\ \E E : Evicts(c, AfterSet(c, k, v, Capacity[n]), k, v, E)
  <1> DEFINE a == AfterSet(c, k, v, Capacity[n])
             o == c.list[Len(c.list)]
  <1>1. /\ WellFormed(c, Key, Value) /\ Len(c.list) <= Capacity[n]
        /\ Capacity[n] \in Nat \ {0}
    BY NodeAssumption DEF CacheOK
  <1>2. a = AfterInsert(c, k, v, Capacity[n])
    BY DEF AfterSet
  <1>3. CacheOK(n, a)
    BY <1>1, <1>2, InsertKeepsWellFormed DEF CacheOK
  <1>4. Cardinality({}) = 0 /\ IsFiniteSet({}) /\ \A x : Cardinality({x}) = 1 /\ IsFiniteSet({x})
    BY FS_EmptySet, FS_Singleton
  <1>5. CASE IsFull(c, Capacity[n]) /\ c.list # <<>>
    <2>1. c.list \in Seq(Key) /\ Len(c.list) \in Nat
      BY <1>1, WellFormedParts
    <2>2. Len(c.list) > 0
      BY <1>5, <2>1, EmptySeq
    <2>3. o \in Cached(c)
      BY <1>1, <2>2, LastIsOldest
    <2>4. PushFront(EvictOldest(c), k, v).cache = Joined(c.cache, k, v, (Cached(c) \ {o}) \cup {k})
      <3> HIDE DEF o
      <3>1. WellFormed(c, Key, Value) /\ k \in Key \ Cached(c) /\ v \in Value /\ Len(c.list) > 0
        BY <1>1, <2>2
      <3>2. PushFront(EvictOldest(c), k, v).cache =
              Joined(c.cache, k, v, (Cached(c) \ {c.list[Len(c.list)]}) \cup {k})
        BY <3>1, InsertAfterEviction
      <3> QED
        BY <3>2 DEF o
    <2>5. a = PushFront(EvictOldest(c), k, v)
      BY <1>2, <1>5 DEF AfterInsert
    <2>6. Evicts(c, a, k, v, {o})
      <3> HIDE DEF a, o
      <3>1. {o} \in SUBSET Cached(c) /\ IsFiniteSet({o}) /\ Cardinality({o}) <= 1
        BY <1>4, <2>3
      <3>2. a.cache = [x \in (Cached(c) \ {o}) \cup {k} |-> IF x = k THEN v ELSE c.cache[x]]
        BY <2>4, <2>5 DEF Joined
      <3> QED
        BY <3>1, <3>2 DEF Evicts
    <2> QED
      BY <1>3, <2>6
  <1>6. CASE ~(IsFull(c, Capacity[n]) /\ c.list # <<>>)
    <2>1. a = PushFront(c, k, v)
      BY <1>2, <1>6 DEF AfterInsert
    <2>2. a.cache = [x \in Cached(c) \cup {k} |-> IF x = k THEN v ELSE c.cache[x]]
      BY <2>1 DEF PushFront
    <2>3. (Cached(c) \ {}) \cup {k} = Cached(c) \cup {k}
      OBVIOUS
    <2>4. Evicts(c, a, k, v, {})
      BY <1>4, <2>2, <2>3 DEF Evicts
    <2> QED
      BY <1>3, <2>4
  <1> QED
    BY <1>5, <1>6

LEMMA DeleteIndex ==
  ASSUME NEW n \in Node, NEW c, CacheOK(n, c), NEW k
  PROVE  /\ CacheOK(n, AfterDelete(c, k))
         /\ AfterDelete(c, k).cache = [x \in Cached(c) \ {k} |-> c.cache[x]]
  <1>1. /\ WellFormed(c, Key, Value) /\ Len(c.list) <= Capacity[n]
        /\ Capacity[n] \in Nat \ {0} /\ Len(c.list) \in Nat
        /\ c.cache \in [Cached(c) -> Value]
    BY NodeAssumption, WellFormedParts DEF CacheOK
  <1>2. WellFormed(AfterDelete(c, k), Key, Value) /\ Len(AfterDelete(c, k).list) <= Len(c.list)
    BY <1>1, DeleteKeepsWellFormed
  <1>3. Len(AfterDelete(c, k).list) \in Nat
    BY <1>2, WellFormedParts
  <1>4. AfterDelete(c, k).cache = [x \in Cached(c) \ {k} |-> c.cache[x]]
    <2>1. CASE k \in Cached(c)
      BY <2>1 DEF AfterDelete, Unlink, Reindex
    <2>2. CASE k \notin Cached(c)
      <3>1. Cached(c) \ {k} = Cached(c)
        BY <2>2
      <3> QED
        BY <1>1, <2>2, <3>1 DEF AfterDelete
    <2> QED
      BY <2>1, <2>2
  <1> QED
    BY <1>1, <1>2, <1>3, <1>4 DEF CacheOK

LEMMA OneCacheChanges ==
  ASSUME NodesOK, NEW n \in Node, NEW c, CacheOK(n, c),
         lru' = [lru EXCEPT ![n] = c], UNCHANGED <<status, masterID>>
  PROVE  NodesOK'
  <1>1. DOMAIN lru' = Node /\ lru'[n] = c /\ \A x \in Node \ {n} : lru'[x] = lru[x]
    BY DEF NodesOK
  <1>2. \A x \in Node : CacheOK(x, lru'[x])
    BY <1>1 DEF NodesOK
  <1> QED
    BY <1>1, <1>2 DEF NodesOK

LEMMA NodesStay == NodesOK /\ UNCHANGED nodeVars => NodesOK'
  BY DEF NodesOK, nodeVars, CacheOK

\* What a command does to its node: a read leaves the index as it is.
LEMMA NodeGetEffect ==
  ASSUME NodesOK, NEW n \in Node, NEW k, NodeGet(n, k)
  PROVE  NodesOK' /\ \E d : d.cache = lru[n].cache /\ lru' = [lru EXCEPT ![n] = d]
  <1>1. CacheOK(n, AfterGet(lru[n], k)) /\ AfterGet(lru[n], k).cache = lru[n].cache
    BY GetIndex DEF NodesOK
  <1> QED
    BY <1>1, OneCacheChanges DEF NodeGet

\* A write of a key that is there replaces its value.
LEMMA NodeUpdateEffect ==
  ASSUME NodesOK, NEW n \in Node, NEW k \in Cached(lru[n]), NEW v \in Value, NodeSet(n, k, v)
  PROVE  NodesOK' /\ \E d : /\ d.cache = [lru[n].cache EXCEPT ![k] = v]
                            /\ lru' = [lru EXCEPT ![n] = d]
  <1> DEFINE d == AfterSet(lru[n], k, v, Capacity[n])
  <1>1. CacheOK(n, d) /\ d.cache = [lru[n].cache EXCEPT ![k] = v]
    BY UpdateIndex DEF NodesOK
  <1>2. lru' = [lru EXCEPT ![n] = d] /\ UNCHANGED <<status, masterID>>
    BY DEF NodeSet
  <1> HIDE DEF d
  <1> QED
    BY <1>1, <1>2, OneCacheChanges

\* A write of another key may evict one.
LEMMA NodeInsertEffect ==
  ASSUME NodesOK, NEW n \in Node, NEW k \in Key \ Cached(lru[n]), NEW v \in Value, NodeSet(n, k, v)
  PROVE  NodesOK' /\ \E d, E : Evicts(lru[n], d, k, v, E) /\ lru' = [lru EXCEPT ![n] = d]
  <1> DEFINE d == AfterSet(lru[n], k, v, Capacity[n])
  <1>1. CacheOK(n, d) /\ \E E : Evicts(lru[n], d, k, v, E)
    BY InsertIndex DEF NodesOK
  <1>2. lru' = [lru EXCEPT ![n] = d] /\ UNCHANGED <<status, masterID>>
    BY DEF NodeSet
  <1> HIDE DEF d
  <1> QED
    BY <1>1, <1>2, OneCacheChanges

LEMMA NodeDeleteEffect ==
  ASSUME NodesOK, NEW n \in Node, NEW k, NodeDelete(n, k)
  PROVE  NodesOK' /\ \E d : /\ d.cache = [x \in Cached(lru[n]) \ {k} |-> lru[n].cache[x]]
                            /\ lru' = [lru EXCEPT ![n] = d]
  <1> DEFINE d == AfterDelete(lru[n], k)
  <1>1. CacheOK(n, d) /\ d.cache = [x \in Cached(lru[n]) \ {k} |-> lru[n].cache[x]]
    BY DeleteIndex DEF NodesOK
  <1>2. lru' = [lru EXCEPT ![n] = d] /\ UNCHANGED <<status, masterID>>
    BY DEF NodeDelete
  <1> HIDE DEF d
  <1> QED
    BY <1>1, <1>2, OneCacheChanges

-----------------------------------------------------------------------------
(***************************************************************************)
(* The inductive invariant, and the types.                                 *)
(***************************************************************************)

HandlerOK(h) ==
  \/ h.at = "reading"
  \/ h.at = "route" /\ h.m \in Command
  \/ h.at = "act" /\ h.m \in Command /\ h.node \in ServerNodes
  \/ h.at = "answer" /\ h.value \in Value \cup {NoValue}

HandlersOK == DOMAIN conn = Conn /\ \A c \in Conn : HandlerOK(conn[c])

\* The ring's own invariant is HashRingProofs'.
IInv == NodesOK /\ RingOK /\ HandlersOK

LEMMA CommandIs ==
  ASSUME NEW m \in Command
  PROVE  /\ m.cmd \in {"GET", "SET", "DELETE"} /\ m.key \in Key
         /\ m.cmd = "SET" => m.value \in Value
  BY ShardedAssumption

\* A handler goes on to h.
LEMMA HandlerMoves ==
  ASSUME HandlersOK, NEW c \in Conn, NEW h, HandlerOK(h), Moves(c, h)
  PROVE  HandlersOK'
  BY DEF HandlersOK, Moves

LEMMA HandlersStay == HandlersOK /\ UNCHANGED conn => HandlersOK'
  BY DEF HandlersOK

\* The value that a read on the node of the handler finds.
Found(n, k) == IF k \in Cached(lru[n]) THEN lru[n].cache[k] ELSE NoValue

LEMMA FoundType ==
  ASSUME NodesOK, NEW n \in Node, NEW k  PROVE Found(n, k) \in Value \cup {NoValue}
  <1>1. lru[n].cache \in [Cached(lru[n]) -> Value]
    BY WellFormedParts DEF NodesOK, CacheOK
  <1> QED
    BY <1>1 DEF Found

\* The cases of Acts: refused, or one of the commands.
Refuses(c) == /\ ~Serving(conn[c].node)
              /\ Answers(c, Refusal(conn[c].m.cmd), NoValue)
              /\ UNCHANGED nodeVars

ActsGet(c) == /\ conn[c].m.cmd = "GET"
              /\ NodeGet(conn[c].node, conn[c].m.key)
              /\ Answers(c, "SUCCESS", Found(conn[c].node, conn[c].m.key))

ActsSet(c) == /\ conn[c].m.cmd = "SET"
              /\ NodeSet(conn[c].node, conn[c].m.key, conn[c].m.value)
              /\ Answers(c, "SUCCESS", NoValue)

ActsDelete(c) == /\ conn[c].m.cmd = "DELETE"
                 /\ NodeDelete(conn[c].node, conn[c].m.key)
                 /\ Answers(c, "SUCCESS", NoValue)

LEMMA ActsCases ==
  ASSUME NEW c, Acts(c)
  PROVE  /\ conn[c].at = "act" /\ UNCHANGED ring
         /\ Refuses(c) \/ ActsGet(c) \/ ActsSet(c) \/ ActsDelete(c)
  BY DEF Acts, Refuses, ActsGet, ActsSet, ActsDelete, Found

LEMMA ActsKeepsInvariant ==
  ASSUME IInv, NEW c \in Conn, Acts(c)  PROVE IInv'
  <1> DEFINE n == conn[c].node
             m == conn[c].m
  <1>0. conn[c].at = "act" /\ UNCHANGED ring /\ NodesOK /\ HandlersOK /\ RingOK
    BY ActsCases DEF IInv
  <1>1. n \in Node /\ m \in Command
    BY <1>0, ShardedAssumption DEF HandlersOK, HandlerOK
  <1>2. RingOK'
    BY <1>0, RingStays
  <1>3. \A s, v : v \in Value \cup {NoValue} /\ Answers(c, s, v) => HandlersOK'
    BY <1>0, HandlerMoves DEF Answers, HandlerOK
  <1> HIDE DEF n, m
  <1>4. CASE Refuses(c)
    BY <1>0, <1>3, <1>4, NodesStay, <1>2 DEF Refuses, IInv
  <1>5. CASE ActsGet(c)
    <2>1. NodeGet(n, m.key) /\ Answers(c, "SUCCESS", Found(n, m.key))
      BY <1>5 DEF ActsGet, n, m
    <2> QED
      BY <1>0, <1>1, <1>2, <1>3, <2>1, NodeGetEffect, FoundType DEF IInv
  <1>6. CASE ActsSet(c)
    <2>1. NodeSet(n, m.key, m.value) /\ Answers(c, "SUCCESS", NoValue) /\ m.cmd = "SET"
      BY <1>6 DEF ActsSet, n, m
    <2>2. m.key \in Key /\ m.value \in Value
      BY <1>1, <2>1, CommandIs
    <2>3. NodesOK'
      <3>1. CASE m.key \in Cached(lru[n])
        BY <1>0, <1>1, <2>1, <2>2, <3>1, NodeUpdateEffect
      <3>2. CASE m.key \notin Cached(lru[n])
        BY <1>0, <1>1, <2>1, <2>2, <3>2, NodeInsertEffect
      <3> QED
        BY <3>1, <3>2
    <2> QED
      BY <1>2, <1>3, <2>1, <2>3 DEF IInv
  <1>7. CASE ActsDelete(c)
    <2>1. NodeDelete(n, m.key) /\ Answers(c, "SUCCESS", NoValue)
      BY <1>7 DEF ActsDelete, n, m
    <2> QED
      BY <1>0, <1>1, <1>2, <1>3, <2>1, NodeDeleteEffect DEF IInv
  <1> QED
    BY <1>4, <1>5, <1>6, <1>7, ActsCases

LEMMA IInvInitially == Init => IInv
  <1> SUFFICES ASSUME Init  PROVE IInv
    OBVIOUS
  <1>1. RingOK
    BY RingInitially DEF Init
  <1>2. WellFormed(EmptyLRU, Key, Value) /\ Len(EmptyLRU.list) = 0
    BY EmptyIsWellFormed
  <1>3. \A n \in Node : Capacity[n] \in Nat \ {0}
    BY NodeAssumption
  <1>4. NodesOK
    BY <1>2, <1>3 DEF Init, NodesOK, CacheOK, Status
  <1>5. HandlersOK
    BY DEF Init, HandlersOK, HandlerOK, Reading
  <1> QED
    BY <1>1, <1>4, <1>5 DEF IInv

LEMMA IInvInductive == IInv /\ [Next]_vars => IInv'
  <1> SUFFICES ASSUME IInv, [Next]_vars  PROVE IInv'
    OBVIOUS
  <1>0. NodesOK /\ RingOK /\ HandlersOK
    BY DEF IInv
  <1>1. ASSUME NEW c \in Conn, Receives(c)  PROVE IInv'
    <2>1. PICK m \in Command : Moves(c, [at |-> "route", m |-> m])
      BY <1>1 DEF Receives
    <2>2. HandlersOK'
      BY <1>0, <2>1, HandlerMoves DEF HandlerOK
    <2> QED
      BY <1>0, <1>1, <2>2, NodesStay, RingStays DEF Receives, IInv
  <1>2. ASSUME NEW c \in Conn, Routes(c)  PROVE IInv'
    <2>1. PICK n : n = Ring!GetNode(conn[c].m.key)
      OBVIOUS
    <2>2. /\ conn[c].at = "route" /\ UNCHANGED <<nodeVars, ring>>
          /\ \/ Answers(c, "ERROR_INVALID_KEY", NoValue)
             \/ n \in ServerNodes /\ Moves(c, [at |-> "act", m |-> conn[c].m, node |-> n])
      BY <1>2, <2>1 DEF Routes
    <2>3. conn[c].m \in Command
      BY <1>0, <2>2 DEF HandlersOK, HandlerOK
    <2>4. HandlersOK'
      <3>1. CASE Answers(c, "ERROR_INVALID_KEY", NoValue)
        BY <1>0, <3>1, HandlerMoves DEF HandlerOK, Answers
      <3>2. CASE n \in ServerNodes /\ Moves(c, [at |-> "act", m |-> conn[c].m, node |-> n])
        BY <1>0, <2>3, <3>2, HandlerMoves DEF HandlerOK
      <3> QED
        BY <2>2, <3>1, <3>2
    <2> QED
      BY <1>0, <2>2, <2>4, NodesStay, RingStays DEF IInv
  <1>3. ASSUME NEW c \in Conn, Acts(c)  PROVE IInv'
    BY <1>3, ActsKeepsInvariant
  <1>4. ASSUME NEW c \in Conn, Responds(c)  PROVE IInv'
    <2>1. HandlersOK'
      BY <1>0, <1>4, HandlerMoves DEF Responds, HandlerOK, Reading
    <2> QED
      BY <1>0, <1>4, <2>1, NodesStay, RingStays DEF Responds, IInv
  <1>5. ASSUME NEW n \in Node, Joins(n) \/ Leaves(n)  PROVE IInv'
    BY <1>0, <1>5, RingKept, NodesStay, HandlersStay DEF Joins, Leaves, IInv
  <1>6. ASSUME NEW n \in StoppingNodes, StartsNode(n) \/ StopsNode(n)  PROVE IInv'
    <2>1. NodesOK' /\ UNCHANGED <<ring, conn>>
      BY <1>0, <1>6 DEF StartsNode, StopsNode, Start, Stop, SetStatus, NodesOK, CacheOK
    <2> QED
      BY <1>0, <2>1, RingStays, HandlersStay DEF IInv
  <1>7. CASE UNCHANGED vars
    BY <1>0, <1>7, NodesStay, RingStays, HandlersStay DEF vars, IInv
  <1> QED
    BY <1>1, <1>2, <1>3, <1>4, <1>5, <1>6, <1>7 DEF Next

LEMMA IInvAlways == Spec => []IInv
  BY IInvInitially, IInvInductive, PTL DEF Spec

\* The type invariant: among the rest, a handler acts on a node of the server and never on
\* another one that the ring names (server.go:325-407).
THEOREM TypeCorrect == Spec => []TypeOK
  <1>1. IInv => TypeOK
    BY DEF IInv, NodesOK, CacheOK, WellFormed, HandlersOK, HandlerOK, TypeOK, NodeTypeOK
  <1> QED
    BY <1>1, IInvAlways, PTL

-----------------------------------------------------------------------------
(***************************************************************************)
(* The store that clients see, when one node's cache changes.              *)
(***************************************************************************)

Shown(o, l) ==
  [k \in {x \in Key : o[x] # NoNode /\ x \in Cached(l[o[x]])} |-> l[o[k]].cache[k]]

LEMMA VisibleIs == Visible = Shown(OwnerOf, lru) /\ Visible' = Shown(OwnerOf', lru')
  BY DEF Visible, Shown

\* s is a function, and holds the keys that the owners o hold, with their values.
Shows(s, o, l) ==
  /\ s = [k \in DOMAIN s |-> s[k]]
  /\ \A k : k \in DOMAIN s <=> k \in Key /\ o[k] # NoNode /\ k \in Cached(l[o[k]])
  /\ \A k \in DOMAIN s : s[k] = l[o[k]].cache[k]

LEMMA ShownShows ==
  ASSUME NEW o, NEW l
  PROVE  Shows(Shown(o, l), o, l)
  BY DEF Shows, Shown

LEMMA SameFunction ==
  ASSUME NEW f, NEW g, f = [x \in DOMAIN f |-> f[x]], g = [x \in DOMAIN g |-> g[x]],
         DOMAIN f = DOMAIN g, \A x \in DOMAIN f : f[x] = g[x]
  PROVE  f = g
  OBVIOUS

Owners == [Key -> Node \cup {NoNode}]

\* Node n, and no other, comes to hold d.
Becomes(l, n, d, u) == DOMAIN l = Node /\ n \in Node /\ u = [l EXCEPT ![n] = d]

\* s is the store seen, t that after node n has come to hold d: the keys of the other owners
\* stay, and those that n owns are what it held and holds.
Elsewhere(o, l, n, d, s, t) ==
  /\ s = [x \in DOMAIN s |-> s[x]] /\ t = [x \in DOMAIN t |-> t[x]]
  /\ \A x : o[x] # n => /\ x \in DOMAIN t <=> x \in DOMAIN s
                        /\ x \in DOMAIN s => t[x] = s[x]
  /\ \A x : x \in Key /\ o[x] = n => /\ x \in DOMAIN s <=> x \in Cached(l[n])
                                     /\ x \in DOMAIN s => s[x] = l[n].cache[x]
                                     /\ x \in DOMAIN t <=> x \in Cached(d)
                                     /\ x \in DOMAIN t => t[x] = d.cache[x]
  /\ DOMAIN s \subseteq Key /\ DOMAIN t \subseteq Key

LEMMA ShownElsewhere ==
  ASSUME NEW o \in Owners, NEW l, NEW n, NEW d,
         NEW u, Becomes(l, n, d, u), NEW s, s = Shown(o, l), NEW t, t = Shown(o, u)
  PROVE  Elsewhere(o, l, n, d, s, t)
  <1>1. Shows(s, o, l) /\ Shows(t, o, u)
    BY ShownShows
  <1>2. \A x \in Key : o[x] # NoNode => o[x] \in Node
    BY DEF Owners
  <1>3. n # NoNode /\ u[n] = d /\ \A x \in Node : x # n => u[x] = l[x]
    BY NodeAssumption DEF Becomes
  <1>4. \A x : x \in DOMAIN s <=> x \in Key /\ o[x] # NoNode /\ x \in Cached(l[o[x]])
    BY <1>1 DEF Shows
  <1>5. \A x : x \in DOMAIN t <=> x \in Key /\ o[x] # NoNode /\ x \in Cached(u[o[x]])
    BY <1>1 DEF Shows
  <1>6. /\ s = [x \in DOMAIN s |-> s[x]] /\ t = [x \in DOMAIN t |-> t[x]]
        /\ \A x \in DOMAIN s : s[x] = l[o[x]].cache[x]
        /\ \A x \in DOMAIN t : t[x] = u[o[x]].cache[x]
    BY <1>1 DEF Shows
  <1>7. ASSUME NEW x, o[x] # n
        PROVE  /\ x \in DOMAIN t <=> x \in DOMAIN s
               /\ x \in DOMAIN s => t[x] = s[x]
    <2>1. CASE x \in Key /\ o[x] # NoNode
      <3>1. u[o[x]] = l[o[x]]
        BY <1>2, <1>3, <1>7, <2>1
      <3>2. x \in DOMAIN t <=> x \in DOMAIN s
        BY <1>4, <1>5, <3>1
      <3>3. ASSUME x \in DOMAIN s  PROVE t[x] = s[x]
        <4>1. s[x] = l[o[x]].cache[x] /\ t[x] = u[o[x]].cache[x]
          BY <1>6, <3>2, <3>3
        <4> QED
          BY <3>1, <4>1
      <3> QED
        BY <3>2, <3>3
    <2>2. CASE ~(x \in Key /\ o[x] # NoNode)
      BY <1>4, <1>5, <2>2
    <2> QED
      BY <2>1, <2>2
  <1>8. ASSUME NEW x, x \in Key, o[x] = n
        PROVE  /\ x \in DOMAIN s <=> x \in Cached(l[n])
               /\ x \in DOMAIN s => s[x] = l[n].cache[x]
               /\ x \in DOMAIN t <=> x \in Cached(d)
               /\ x \in DOMAIN t => t[x] = d.cache[x]
    BY <1>3, <1>4, <1>5, <1>6, <1>8
  <1>9. DOMAIN s \subseteq Key /\ DOMAIN t \subseteq Key
    BY <1>4, <1>5
  <1> QED
    BY <1>6, <1>7, <1>8, <1>9 DEF Elsewhere

LEMMA ShownSameIndex ==
  ASSUME NEW o \in Owners, NEW l, NEW n, NEW d,
         d.cache = l[n].cache, NEW u, Becomes(l, n, d, u)
  PROVE  Shown(o, u) = Shown(o, l)
  <1>1. PICK s, t : s = Shown(o, l) /\ t = Shown(o, u)
    OBVIOUS
  <1>2. Cached(d) = Cached(l[n])
    BY DEF Cached
  <1>3. /\ s = [x \in DOMAIN s |-> s[x]] /\ t = [x \in DOMAIN t |-> t[x]]
        /\ DOMAIN s = DOMAIN t /\ \A x \in DOMAIN s : s[x] = t[x]
    <2>1. Elsewhere(o, l, n, d, s, t)
      BY <1>1, ShownElsewhere
    <2> QED
      BY <1>2, <2>1 DEF Elsewhere
  <1> QED
    BY <1>1, <1>3, SameFunction

LEMMA ShownUpdate ==
  ASSUME NEW o \in Owners, NEW l, NEW n, NEW d, NEW v,
         l[n].cache = [x \in Cached(l[n]) |-> l[n].cache[x]],
         NEW k \in Key \cap Cached(l[n]), d.cache = [l[n].cache EXCEPT ![k] = v],
         NEW u, Becomes(l, n, d, u)
  PROVE  /\ o[k] = n => /\ k \in DOMAIN Shown(o, l)
                        /\ Shown(o, u) = [Shown(o, l) EXCEPT ![k] = v]
         /\ o[k] # n => Shown(o, u) = Shown(o, l)
  <1>1. PICK s, t : s = Shown(o, l) /\ t = Shown(o, u)
    OBVIOUS
  <1>2. Cached(d) = Cached(l[n]) /\ \A x \in Cached(d) : d.cache[x] = IF x = k THEN v ELSE l[n].cache[x]
    BY DEF Cached
  <1>3. /\ s = [x \in DOMAIN s |-> s[x]] /\ t = [x \in DOMAIN t |-> t[x]]
        /\ DOMAIN s = DOMAIN t /\ (o[k] = n => k \in DOMAIN s)
        /\ \A x \in DOMAIN s : t[x] = IF x = k /\ o[k] = n THEN v ELSE s[x]
    <2>1. Elsewhere(o, l, n, d, s, t)
      BY <1>1, ShownElsewhere
    <2>2. DOMAIN s = DOMAIN t /\ (o[k] = n => k \in DOMAIN s)
      BY <1>2, <2>1 DEF Elsewhere
    <2>3. ASSUME NEW x \in DOMAIN s  PROVE t[x] = IF x = k /\ o[k] = n THEN v ELSE s[x]
      <3>1. CASE o[x] = n
        BY <1>2, <2>1, <2>2, <2>3, <3>1 DEF Elsewhere
      <3>2. CASE o[x] # n
        BY <2>1, <2>3, <3>2 DEF Elsewhere
      <3> QED
        BY <3>1, <3>2
    <2> QED
      BY <2>1, <2>2, <2>3 DEF Elsewhere
  <1>4. CASE o[k] = n
    <2>1. t = [s EXCEPT ![k] = v]
      BY <1>3, <1>4
    <2> QED
      BY <1>1, <1>3, <1>4, <2>1
  <1>5. CASE o[k] # n
    <2>1. \A x \in DOMAIN s : s[x] = t[x]
      BY <1>3, <1>5
    <2>2. s = t
      BY <1>3, <2>1, SameFunction
    <2> QED
      BY <1>1, <1>5, <2>2
  <1> QED
    BY <1>4, <1>5

\* Of the keys E that an insertion evicts, those that clients saw.
Dropped(o, n, E) == {x \in E : o[x] = n}

\* Node n has taken in k, and the clients see it if n owns k, and miss D.
Inserted(o, n, k, v, D, s, t) ==
  /\ D \in SUBSET {x \in DOMAIN s : o[x] = n} /\ IsFiniteSet(D) /\ Cardinality(D) <= 1
  /\ o[k] = n => /\ k \notin DOMAIN s
                 /\ t = [x \in (DOMAIN s \ D) \cup {k} |-> IF x = k THEN v ELSE s[x]]
  /\ o[k] # n => t = [x \in DOMAIN s \ D |-> s[x]]

LEMMA ShownInsert ==
  ASSUME NEW o \in Owners, NEW l, NEW n, NEW d, NEW v, NEW E,
         Cached(l[n]) \subseteq Key, NEW k \in Key \ Cached(l[n]), Evicts(l[n], d, k, v, E),
         NEW u, Becomes(l, n, d, u), NEW s, s = Shown(o, l), NEW D, D = Dropped(o, n, E),
         NEW t, t = Shown(o, u)
  PROVE  Inserted(o, n, k, v, D, s, t)
  <1>1. /\ E \in SUBSET Cached(l[n]) /\ IsFiniteSet(E) /\ Cardinality(E) <= 1
        /\ Cached(d) = (Cached(l[n]) \ E) \cup {k}
        /\ \A x \in Cached(d) : d.cache[x] = IF x = k THEN v ELSE l[n].cache[x]
    BY DEF Evicts, Cached
  <1>2. D \in SUBSET E
    BY DEF Dropped
  <1>3. IsFiniteSet(D) /\ Cardinality(D) <= 1
    BY <1>1, <1>2, FS_Subset, FS_CardinalityType
  <1>4. /\ t = [x \in DOMAIN t |-> t[x]] /\ DOMAIN s \subseteq Key /\ DOMAIN t \subseteq Key
        /\ \A x : o[x] # n => /\ x \in DOMAIN t <=> x \in DOMAIN s
                              /\ x \in DOMAIN s => t[x] = s[x]
        /\ \A x : x \in Key /\ o[x] = n =>
                              /\ x \in DOMAIN s <=> x \in Cached(l[n])
                              /\ x \in DOMAIN s => s[x] = l[n].cache[x]
                              /\ x \in DOMAIN t <=> x \in Cached(d)
                              /\ x \in DOMAIN t => t[x] = d.cache[x]
    <2>1. Elsewhere(o, l, n, d, s, t)
      BY ShownElsewhere
    <2> QED
      BY <2>1 DEF Elsewhere
  <1>5. D \in SUBSET {x \in DOMAIN s : o[x] = n}
    BY <1>1, <1>4 DEF Dropped
  <1>6. CASE o[k] = n
    <2>1. k \notin DOMAIN s
      BY <1>4, <1>6
    <2>2. \A x : x \in DOMAIN t <=> x \in (DOMAIN s \ D) \cup {k}
      <3> TAKE x
      <3>1. CASE o[x] = n /\ x \in Key
        BY <1>1, <1>4, <3>1 DEF Dropped
      <3>2. CASE o[x] # n
        BY <1>4, <1>6, <3>2 DEF Dropped
      <3>3. CASE x \notin Key
        BY <1>4, <3>3
      <3> QED
        BY <3>1, <3>2, <3>3
    <2>3. \A x \in DOMAIN t : t[x] = IF x = k THEN v ELSE s[x]
      <3> TAKE x \in DOMAIN t
      <3>1. CASE o[x] = n
        BY <1>1, <1>4, <3>1
      <3>2. CASE o[x] # n
        BY <1>4, <1>6, <3>2
      <3> QED
        BY <3>1, <3>2
    <2>4. DOMAIN t = (DOMAIN s \ D) \cup {k}
      BY <2>2
    <2>5. t = [x \in (DOMAIN s \ D) \cup {k} |-> IF x = k THEN v ELSE s[x]]
      BY <1>4, <2>3, <2>4
    <2> QED
      BY <1>3, <1>5, <1>6, <2>1, <2>5 DEF Inserted
  <1>7. CASE o[k] # n
    <2>1. \A x : x \in DOMAIN t <=> x \in DOMAIN s \ D
      <3> TAKE x
      <3>1. CASE o[x] = n /\ x \in Key
        BY <1>1, <1>4, <1>7, <3>1 DEF Dropped
      <3>2. CASE o[x] # n
        BY <1>4, <3>2 DEF Dropped
      <3>3. CASE x \notin Key
        BY <1>4, <3>3
      <3> QED
        BY <3>1, <3>2, <3>3
    <2>2. \A x \in DOMAIN t : t[x] = s[x]
      <3> TAKE x \in DOMAIN t
      <3>1. CASE o[x] = n
        BY <1>1, <1>4, <1>7, <3>1
      <3>2. CASE o[x] # n
        BY <1>4, <3>2
      <3> QED
        BY <3>1, <3>2
    <2>3. DOMAIN t = DOMAIN s \ D
      BY <2>1
    <2>4. t = [x \in DOMAIN s \ D |-> s[x]]
      BY <1>4, <2>2, <2>3
    <2> QED
      BY <1>3, <1>5, <1>7, <2>4 DEF Inserted
  <1> QED
    BY <1>6, <1>7

\* Node n has deleted k.
Deleted(o, n, k, s, t) == /\ o[k] = n => t = [x \in DOMAIN s \ {k} |-> s[x]]
                          /\ o[k] # n => t = s

LEMMA ShownDelete ==
  ASSUME NEW o \in Owners, NEW l, NEW n, NEW d, NEW k \in Key,
         d.cache = [x \in Cached(l[n]) \ {k} |-> l[n].cache[x]],
         NEW u, Becomes(l, n, d, u), NEW s, s = Shown(o, l), NEW t, t = Shown(o, u)
  PROVE  Deleted(o, n, k, s, t)
  <1>1. Cached(d) = Cached(l[n]) \ {k} /\ \A x \in Cached(d) : d.cache[x] = l[n].cache[x]
    BY DEF Cached
  <1>2. /\ s = [x \in DOMAIN s |-> s[x]] /\ t = [x \in DOMAIN t |-> t[x]]
        /\ DOMAIN s \subseteq Key /\ DOMAIN t \subseteq Key
        /\ \A x : o[x] # n => /\ x \in DOMAIN t <=> x \in DOMAIN s
                              /\ x \in DOMAIN s => t[x] = s[x]
        /\ \A x : x \in Key /\ o[x] = n =>
                              /\ x \in DOMAIN s <=> x \in Cached(l[n])
                              /\ x \in DOMAIN s => s[x] = l[n].cache[x]
                              /\ x \in DOMAIN t <=> x \in Cached(d)
                              /\ x \in DOMAIN t => t[x] = d.cache[x]
    <2>1. Elsewhere(o, l, n, d, s, t)
      BY ShownElsewhere
    <2> QED
      BY <2>1 DEF Elsewhere
  <1>3. \A x \in DOMAIN t : t[x] = s[x]
    BY <1>1, <1>2
  <1>4. CASE o[k] = n
    <2>1. DOMAIN t = DOMAIN s \ {k}
      BY <1>1, <1>2, <1>4
    <2> QED
      BY <1>2, <1>3, <1>4, <2>1 DEF Deleted
  <1>5. CASE o[k] # n
    <2>1. DOMAIN t = DOMAIN s
      BY <1>1, <1>2, <1>5
    <2>2. t = s
      BY <1>2, <1>3, <2>1, SameFunction
    <2> QED
      BY <1>5, <2>2 DEF Deleted
  <1> QED
    BY <1>4, <1>5

-----------------------------------------------------------------------------
(***************************************************************************)
(* The requests that clients see.                                          *)
(***************************************************************************)

\* The request of a handler at h, under the owners o.
ReqOf(h, o) ==
  CASE h.at = "reading" -> [is |-> "none"]
    [] h.at = "route" -> Is(h.m, "waiting")
    [] h.at = "act" -> Is(h.m, IF h.node = o[h.m.key] THEN "waiting" ELSE "disturbed")
    [] h.at = "answer" -> [is |-> "done", ok |-> h.status = "SUCCESS", value |-> h.value]

Req == [c \in Conn |-> RequestOf(c)]

LEMMA OwnerIs == /\ \A k \in Key : OwnerOf[k] = Ring!GetNode(k)
                 /\ \A k \in Key : OwnerOf'[k] = Ring!GetNode(k)'
  BY DEF OwnerOf

LEMMA RequestIs ==
  ASSUME HandlersOK, NEW c \in Conn
  PROVE  Req[c] = ReqOf(conn[c], OwnerOf)
  <1>1. HandlerOK(conn[c])
    BY DEF HandlersOK
  <1>2. Req[c] = RequestOf(c)
    BY DEF Req
  <1>3. CASE conn[c].at = "act"
    <2>1. Ring!GetNode(conn[c].m.key) = OwnerOf[conn[c].m.key]
      BY <1>1, <1>3, CommandIs, OwnerIs DEF HandlerOK
    <2> QED
      BY <1>2, <1>3, <2>1 DEF RequestOf, ReqOf
  <1>4. CASE conn[c].at # "act"
    BY <1>1, <1>2, <1>4 DEF RequestOf, ReqOf, HandlerOK
  <1> QED
    BY <1>3, <1>4

LEMMA RequestWillBe ==
  ASSUME HandlersOK', NEW c \in Conn
  PROVE  Req'[c] = ReqOf(conn'[c], OwnerOf')
  <1>1. HandlerOK(conn'[c])
    BY DEF HandlersOK, HandlerOK
  <1>2. Req'[c] = RequestOf(c)'
    BY DEF Req
  <1>3. CASE conn'[c].at = "act"
    <2>1. Ring!GetNode(conn[c].m.key)' = OwnerOf'[conn'[c].m.key]
      <3>1. conn'[c].m.key \in Key
        BY <1>1, <1>3, CommandIs DEF HandlerOK
      <3> QED
        BY <3>1 DEF OwnerOf
    <2> QED
      BY <1>2, <1>3, <2>1 DEF RequestOf, ReqOf
  <1>4. CASE conn'[c].at # "act"
    BY <1>1, <1>2, <1>4 DEF RequestOf, ReqOf, HandlerOK
  <1> QED
    BY <1>3, <1>4

\* One handler goes on, and the ring stays.
LEMMA RequestGoesOn ==
  ASSUME HandlersOK, NEW c \in Conn, NEW h, HandlerOK(h), Moves(c, h), UNCHANGED ring
  PROVE  /\ Req' = [Req EXCEPT ![c] = ReqOf(h, OwnerOf)]
         /\ Req[c] = ReqOf(conn[c], OwnerOf) /\ UNCHANGED OwnerOf
  <1>1. HandlersOK' /\ UNCHANGED OwnerOf
    BY HandlerMoves, OwnersStay
  <1>2. \A d \in Conn : conn'[d] = IF d = c THEN h ELSE conn[d]
    BY DEF HandlersOK, Moves
  <1>3. \A d \in Conn : Req'[d] = ReqOf(conn'[d], OwnerOf) /\ Req[d] = ReqOf(conn[d], OwnerOf)
    BY <1>1, RequestIs, RequestWillBe
  <1>4. \A d \in Conn : Req'[d] = IF d = c THEN ReqOf(h, OwnerOf) ELSE Req[d]
    BY <1>2, <1>3
  <1>5. Req = [d \in Conn |-> Req[d]] /\ Req' = [d \in Conn |-> Req'[d]]
    BY DEF Req
  <1>6. PICK r, q, a : r = Req /\ q = Req' /\ a = ReqOf(h, OwnerOf)
    OBVIOUS
  <1>7. q = [r EXCEPT ![c] = a]
    BY <1>4, <1>5, <1>6
  <1> QED
    BY <1>1, <1>3, <1>6, <1>7

-----------------------------------------------------------------------------
(***************************************************************************)
(* Every step is a step of CacheService, or none.                          *)
(***************************************************************************)

LEMMA SameCardinality == \A S : Service!Cardinality(S) = Cardinality(S)
  BY DEF Service!Cardinality, Cardinality

\* The abstract variables, and the abstract steps of the caller of connection c.
Abstract == <<OwnerOf, Visible, Req>>

Step(c) == \/ Service!Arrives(c) \/ Service!Reads(c) \/ Service!Overwrites(c)
           \/ Service!Writes(c) \/ Service!Removes(c) \/ Service!Refused(c)
           \/ Service!Misdirected(c) \/ Service!Returns(c)

LEMMA StepIs ==
  ASSUME NEW c \in Conn, Step(c) \/ Service!Moves \/ UNCHANGED Abstract
  PROVE  [Service!SNext]_(Service!svars)
  BY DEF Step, Abstract, Req, Service!SNext, Service!svars

\* The commands seen as requests.
LEMMA WaitingIs ==
  ASSUME NEW m, NEW state
  PROVE  /\ Is(m, state).is = state /\ Is(m, state).cmd = m.cmd
         /\ Is(m, state).key = m.key /\ Is(m, state).value = m.value
         /\ Service!Is(m, state) = Is(m, state)
  BY DEF Is, Service!Is

LEMMA VisibleStays == UNCHANGED <<nodeVars, ring>> => UNCHANGED <<OwnerOf, Visible>>
  <1> SUFFICES ASSUME UNCHANGED <<nodeVars, ring>>  PROVE UNCHANGED <<OwnerOf, Visible>>
    OBVIOUS
  <1>1. OwnerOf' = OwnerOf /\ lru' = lru
    BY OwnersStay DEF nodeVars
  <1> QED
    BY <1>1, VisibleIs

LEMMA ReceivesImplements ==
  ASSUME IInv, NEW c \in Conn, Receives(c)  PROVE Step(c)
  <1>1. PICK m \in Command : Moves(c, [at |-> "route", m |-> m])
    BY DEF Receives
  <1>2. HandlersOK /\ UNCHANGED <<nodeVars, ring>> /\ conn[c].at = "reading"
    BY DEF Receives, IInv
  <1>3. PICK h : h = [at |-> "route", m |-> m]
    OBVIOUS
  <1>4. HandlerOK(h) /\ Moves(c, h) /\ UNCHANGED ring
    BY <1>1, <1>2, <1>3 DEF HandlerOK
  <1>5. Req' = [Req EXCEPT ![c] = ReqOf(h, OwnerOf)] /\ Req[c] = ReqOf(conn[c], OwnerOf)
    BY <1>2, <1>4, RequestGoesOn
  <1>6. Req[c].is = "none"
    BY <1>2, <1>5 DEF ReqOf
  <1>7. Req' = [Req EXCEPT ![c] = Is(m, "waiting")]
    BY <1>3, <1>5 DEF ReqOf
  <1>8. Req' = [Req EXCEPT ![c] = Service!Is(m, "waiting")]
    BY <1>7, WaitingIs
  <1>9. UNCHANGED <<OwnerOf, Visible>>
    BY <1>2, VisibleStays
  <1>10. Service!Arrives(c)
    BY <1>6, <1>8, <1>9 DEF Service!Arrives, Req
  <1> QED
    BY <1>10 DEF Step

\* A handler that answers.
LEMMA AnswerGoesOn ==
  ASSUME HandlersOK, NEW c \in Conn, NEW s, NEW v \in Value \cup {NoValue}, Answers(c, s, v),
         UNCHANGED ring
  PROVE  /\ Req' = [Req EXCEPT ![c] = [is |-> "done", ok |-> s = "SUCCESS", value |-> v]]
         /\ Req[c] = ReqOf(conn[c], OwnerOf) /\ UNCHANGED OwnerOf
  <1>1. PICK h : h = [at |-> "answer", status |-> s, value |-> v]
    OBVIOUS
  <1>2. HandlerOK(h) /\ Moves(c, h)
    BY <1>1 DEF HandlerOK, Answers
  <1>3. ReqOf(h, OwnerOf) = [is |-> "done", ok |-> s = "SUCCESS", value |-> v]
    BY <1>1 DEF ReqOf
  <1> QED
    BY <1>2, <1>3, RequestGoesOn

LEMMA RefusalImplements ==
  ASSUME HandlersOK, NEW c \in Conn, conn[c].at \in {"route", "act"}, NEW s, s # "SUCCESS",
         Answers(c, s, NoValue), UNCHANGED <<nodeVars, ring>>
  PROVE  Step(c)
  <1>1. /\ Req' = [Req EXCEPT ![c] = [is |-> "done", ok |-> s = "SUCCESS", value |-> NoValue]]
        /\ Req[c] = ReqOf(conn[c], OwnerOf)
    BY AnswerGoesOn
  <1>2. Req[c].is \in {"waiting", "disturbed"}
    BY <1>1 DEF ReqOf, Is
  <1>3. (s = "SUCCESS") = FALSE
    OBVIOUS
  <1>4. Req' = [Req EXCEPT ![c] = [is |-> "done", ok |-> FALSE, value |-> NoValue]]
    BY <1>1, <1>3
  <1>5. UNCHANGED <<OwnerOf, Visible>>
    BY VisibleStays
  <1>6. Service!Refused(c)
    BY <1>2, <1>4, <1>5 DEF Service!Refused, Service!Done, Req
  <1> QED
    BY <1>6 DEF Step

LEMMA RoutesImplements ==
  ASSUME IInv, NEW c \in Conn, Routes(c)  PROVE Step(c) \/ UNCHANGED Abstract
  <1>1. PICK n : n = Ring!GetNode(conn[c].m.key)
    OBVIOUS
  <1>2. /\ conn[c].at = "route" /\ UNCHANGED <<nodeVars, ring>>
        /\ \/ Answers(c, "ERROR_INVALID_KEY", NoValue)
           \/ n \in ServerNodes /\ Moves(c, [at |-> "act", m |-> conn[c].m, node |-> n])
    BY <1>1 DEF Routes
  <1>3. HandlersOK /\ conn[c].m \in Command
    BY <1>2 DEF IInv, HandlersOK, HandlerOK
  <1>4. CASE Answers(c, "ERROR_INVALID_KEY", NoValue)
    BY <1>2, <1>3, <1>4, RefusalImplements
  <1>5. CASE n \in ServerNodes /\ Moves(c, [at |-> "act", m |-> conn[c].m, node |-> n])
    <2>1. PICK h : h = [at |-> "act", m |-> conn[c].m, node |-> n]
      OBVIOUS
    <2>2. HandlerOK(h) /\ Moves(c, h) /\ UNCHANGED ring
      BY <1>2, <1>3, <1>5, <2>1 DEF HandlerOK
    <2>3. Req' = [Req EXCEPT ![c] = ReqOf(h, OwnerOf)] /\ Req[c] = ReqOf(conn[c], OwnerOf)
      BY <1>3, <2>2, RequestGoesOn
    <2>4. n = OwnerOf[conn[c].m.key]
      BY <1>1, <1>3, OwnerIs, CommandIs
    <2>5. ReqOf(h, OwnerOf) = Is(conn[c].m, "waiting") /\ Req[c] = Is(conn[c].m, "waiting")
      BY <1>2, <2>1, <2>3, <2>4 DEF ReqOf
    <2>6. Req' = Req
      <3>1. Req' = [Req EXCEPT ![c] = Req[c]]
        BY <2>3, <2>5
      <3>2. PICK r : r = Req
        OBVIOUS
      <3>3. r = [d \in Conn |-> r[d]]
        BY <3>2 DEF Req
      <3>4. [r EXCEPT ![c] = r[c]] = r
        BY <3>3
      <3> QED
        BY <3>1, <3>2, <3>4
    <2> QED
      BY <1>2, <2>6, VisibleStays DEF Abstract
  <1> QED
    BY <1>2, <1>4, <1>5

LEMMA RespondsImplements ==
  ASSUME IInv, NEW c \in Conn, Responds(c)  PROVE Step(c)
  <1>1. HandlersOK /\ UNCHANGED <<nodeVars, ring>> /\ conn[c].at = "answer" /\ Moves(c, Reading)
    BY DEF Responds, IInv
  <1>2. HandlerOK(Reading)
    BY DEF HandlerOK, Reading
  <1>3. Req' = [Req EXCEPT ![c] = ReqOf(Reading, OwnerOf)] /\ Req[c] = ReqOf(conn[c], OwnerOf)
    BY <1>1, <1>2, RequestGoesOn
  <1>4. Req[c].is = "done"
    BY <1>1, <1>3 DEF ReqOf
  <1>5. Req' = [Req EXCEPT ![c] = [is |-> "none"]]
    BY <1>3 DEF ReqOf, Reading
  <1>6. UNCHANGED <<OwnerOf, Visible>>
    BY <1>1, VisibleStays
  <1>7. Service!Returns(c)
    BY <1>4, <1>5, <1>6 DEF Service!Returns, Req
  <1> QED
    BY <1>7 DEF Step

\* What the proofs about the three commands share: of the node n of the handler, its command
\* m, and the owners, caches and store before the step.
LEMMA ActingIs ==
  ASSUME IInv, NEW c \in Conn, conn[c].at = "act", UNCHANGED ring,
         NEW n, n = conn[c].node, NEW m, m = conn[c].m
  PROVE  /\ NodesOK /\ HandlersOK /\ n \in Node /\ n # NoNode /\ m \in Command /\ m.key \in Key
         /\ OwnerOf \in Owners /\ DOMAIN lru = Node /\ CacheOK(n, lru[n])
         /\ OwnerOf' = OwnerOf /\ Shows(Visible, OwnerOf, lru)
         /\ Visible = Shown(OwnerOf, lru) /\ Visible' = Shown(OwnerOf, lru')
  <1>1. NodesOK /\ HandlersOK /\ RingOK /\ n \in Node /\ n # NoNode /\ m \in Command
    BY ShardedAssumption, NodeAssumption DEF IInv, HandlersOK, HandlerOK
  <1>2. m.key \in Key
    BY <1>1, CommandIs
  <1>3. OwnerOf \in Owners /\ DOMAIN lru = Node /\ CacheOK(n, lru[n])
    BY <1>1, OwnerType DEF Owners, NodesOK
  <1>4. OwnerOf' = OwnerOf
    BY OwnersStay
  <1>5. Visible = Shown(OwnerOf, lru) /\ Visible' = Shown(OwnerOf, lru')
    BY <1>4, VisibleIs
  <1> QED
    BY <1>1, <1>2, <1>3, <1>4, <1>5, ShownShows

\* Its answer.
LEMMA ActingAnswers ==
  ASSUME IInv, NEW c \in Conn, conn[c].at = "act", UNCHANGED ring,
         NEW v \in Value \cup {NoValue}, Answers(c, "SUCCESS", v)
  PROVE  /\ Req' = [Req EXCEPT ![c] = [is |-> "done", ok |-> TRUE, value |-> v]]
         /\ Req[c] = Is(conn[c].m, IF conn[c].node = OwnerOf[conn[c].m.key] THEN "waiting"
                                   ELSE "disturbed")
  <1>1. HandlersOK
    BY DEF IInv
  <1>2. /\ Req' = [Req EXCEPT ![c] = [is |-> "done", ok |-> "SUCCESS" = "SUCCESS", value |-> v]]
        /\ Req[c] = ReqOf(conn[c], OwnerOf)
    BY <1>1, AnswerGoesOn
  <1>3. ("SUCCESS" = "SUCCESS") = TRUE
    OBVIOUS
  <1> QED
    BY <1>2, <1>3 DEF ReqOf

\* A request that its node's loss of the key has disturbed.
LEMMA DisturbedImplements ==
  ASSUME NEW c \in Conn, Req[c].is = "disturbed", NEW v \in Value \cup {NoValue},
         Req' = [Req EXCEPT ![c] = [is |-> "done", ok |-> TRUE, value |-> v]], UNCHANGED OwnerOf,
         NEW D \in SUBSET {x \in DOMAIN Visible : OwnerOf[x] # OwnerOf[Req[c].key]},
         Cardinality(D) <= 1, Visible' = [x \in DOMAIN Visible \ D |-> Visible[x]]
  PROVE  Step(c)
  <1>1. Service!Cardinality(D) <= 1
    BY SameCardinality
  <1>2. PICK K : K = {k \in DOMAIN Visible : OwnerOf[k] # OwnerOf[Req[c].key]}
    OBVIOUS
  <1>3. D \in SUBSET (K \cap DOMAIN Visible)
    BY <1>2
  <1>4. Service!DropsOneOf(K)
    BY <1>1, <1>3 DEF Service!DropsOneOf, Service!Stored
  <1>5. Service!Done(c, TRUE, v)
    BY DEF Service!Done, Req
  <1>6. Service!Misdirected(c)
    BY <1>2, <1>4, <1>5 DEF Service!Misdirected, Service!Stored, Req
  <1> QED
    BY <1>6 DEF Step

\* If it left the store alone.
LEMMA HarmlesslyDisturbed ==
  ASSUME NEW c \in Conn, Req[c].is = "disturbed", NEW v \in Value \cup {NoValue},
         Req' = [Req EXCEPT ![c] = [is |-> "done", ok |-> TRUE, value |-> v]], UNCHANGED OwnerOf,
         Shows(Visible, OwnerOf, lru), Visible' = Visible
  PROVE  Step(c)
  <1>1. PICK D : D = {}
    OBVIOUS
  <1>2. D \in SUBSET {x \in DOMAIN Visible : OwnerOf[x] # OwnerOf[Req[c].key]} /\ Cardinality(D) <= 1
    BY <1>1, FS_EmptySet
  <1>3. Visible' = [x \in DOMAIN Visible \ D |-> Visible[x]]
    <2>1. Visible = [x \in DOMAIN Visible |-> Visible[x]] /\ DOMAIN Visible \ D = DOMAIN Visible
      BY <1>1 DEF Shows
    <2> QED
      BY <2>1
  <1> QED
    BY <1>2, <1>3, DisturbedImplements

LEMMA GetImplements ==
  ASSUME IInv, NEW c \in Conn, conn[c].at = "act", UNCHANGED ring, ActsGet(c)
  PROVE  Step(c)
  <1>0. PICK n, m, o, l, s : n = conn[c].node /\ m = conn[c].m /\ o = OwnerOf /\ l = lru /\ s = Visible
    OBVIOUS
  <1>1. /\ NodesOK /\ n \in Node /\ n # NoNode /\ m.key \in Key /\ o \in Owners /\ DOMAIN l = Node
        /\ OwnerOf' = o /\ Shows(s, o, l) /\ s = Shown(o, l) /\ Visible' = Shown(o, lru')
    BY <1>0, ActingIs
  <1>2. NodeGet(n, m.key) /\ Answers(c, "SUCCESS", Found(n, m.key)) /\ m.cmd = "GET"
    BY <1>0 DEF ActsGet
  <1>3. PICK d, u : d.cache = l[n].cache /\ lru' = u /\ u = [l EXCEPT ![n] = d]
    BY <1>0, <1>1, <1>2, NodeGetEffect
  <1>4. Visible' = s
    <2>1. o \in Owners /\ Becomes(l, n, d, u)
      BY <1>1, <1>3 DEF Becomes
    <2>2. d.cache = l[n].cache
      BY <1>3
    <2>3. Shown(o, u) = Shown(o, l)
      BY <2>1, <2>2, ShownSameIndex
    <2> QED
      BY <1>1, <1>3, <2>3
  <1>5. PICK v \in Value \cup {NoValue} : v = Found(n, m.key)
    BY <1>1, FoundType
  <1>6. /\ Req' = [Req EXCEPT ![c] = [is |-> "done", ok |-> TRUE, value |-> v]]
        /\ Req[c] = Is(m, IF n = o[m.key] THEN "waiting" ELSE "disturbed")
    BY <1>0, <1>2, <1>5, ActingAnswers
  <1>7. CASE n = o[m.key]
    <2>1. Req[c].is = "waiting" /\ Req[c].cmd = "GET" /\ Req[c].key = m.key
      BY <1>2, <1>6, <1>7, WaitingIs
    <2>2. v = IF m.key \in DOMAIN s THEN s[m.key] ELSE NoValue
      <3>1. m.key \in DOMAIN s <=> m.key \in Cached(l[n])
        BY <1>1, <1>7 DEF Shows
      <3>2. m.key \in DOMAIN s => s[m.key] = l[n].cache[m.key]
        BY <1>1, <1>7 DEF Shows
      <3> QED
        BY <1>0, <1>5, <3>1, <3>2 DEF Found
    <2>3. Service!Lookup(m.key) = v
      BY <1>0, <2>2 DEF Service!Lookup, Service!Stored
    <2>4. Service!Reads(c)
      BY <1>0, <1>1, <1>4, <1>6, <2>1, <2>3 DEF Service!Reads, Service!Waiting, Service!Done, Req
    <2> QED
      BY <2>4 DEF Step
  <1>8. CASE n # o[m.key]
    <2>1. Req[c].is = "disturbed"
      BY <1>6, <1>8, WaitingIs
    <2> QED
      BY <1>0, <1>1, <1>4, <1>6, <2>1, HarmlesslyDisturbed
  <1> QED
    BY <1>7, <1>8

LEMMA OverwriteImplements ==
  ASSUME IInv, NEW c \in Conn, conn[c].at = "act", UNCHANGED ring, ActsSet(c),
         conn[c].m.key \in Cached(lru[conn[c].node])
  PROVE  Step(c)
  <1>0. PICK n, m, o, l, s : n = conn[c].node /\ m = conn[c].m /\ o = OwnerOf /\ l = lru /\ s = Visible
    OBVIOUS
  <1>1. /\ NodesOK /\ n \in Node /\ m.key \in Key /\ o \in Owners /\ DOMAIN l = Node
        /\ OwnerOf' = o /\ Shows(s, o, l) /\ s = Shown(o, l) /\ Visible' = Shown(o, lru')
        /\ m \in Command /\ CacheOK(n, l[n])
    BY <1>0, ActingIs
  <1>2. NodeSet(n, m.key, m.value) /\ Answers(c, "SUCCESS", NoValue) /\ m.cmd = "SET"
    BY <1>0 DEF ActsSet
  <1>3. PICK v \in Value, k \in Key \cap Cached(l[n]) : v = m.value /\ k = m.key
    BY <1>0, <1>1, <1>2, CommandIs
  <1>4. PICK d, u : /\ d.cache = [l[n].cache EXCEPT ![k] = v]
                    /\ lru' = u /\ u = [l EXCEPT ![n] = d]
    BY <1>0, <1>1, <1>2, <1>3, NodeUpdateEffect
  <1>5. l[n].cache = [x \in Cached(l[n]) |-> l[n].cache[x]]
    <2>1. l[n].cache \in [Cached(l[n]) -> Value]
      BY <1>1, WellFormedParts DEF CacheOK
    <2> QED
      BY <2>1
  <1>6. /\ o[k] = n => k \in DOMAIN s /\ Visible' = [s EXCEPT ![k] = v]
        /\ o[k] # n => Visible' = s
    <2>1. o \in Owners /\ Becomes(l, n, d, u)
      BY <1>1, <1>4 DEF Becomes
    <2>2. d.cache = [l[n].cache EXCEPT ![k] = v]
      BY <1>4
    <2>3. /\ o[k] = n => /\ k \in DOMAIN Shown(o, l)
                         /\ Shown(o, u) = [Shown(o, l) EXCEPT ![k] = v]
          /\ o[k] # n => Shown(o, u) = Shown(o, l)
      BY <1>5, <2>1, <2>2, ShownUpdate
    <2> QED
      BY <1>1, <1>4, <2>3
  <1>7. /\ Req' = [Req EXCEPT ![c] = [is |-> "done", ok |-> TRUE, value |-> NoValue]]
        /\ Req[c] = Is(m, IF n = o[k] THEN "waiting" ELSE "disturbed")
    BY <1>0, <1>2, <1>3, ActingAnswers
  <1>8. CASE n = o[k]
    <2>1. Req[c].is = "waiting" /\ Req[c].cmd = "SET" /\ Req[c].key = k /\ Req[c].value = v
      BY <1>2, <1>3, <1>7, <1>8, WaitingIs
    <2>2. k \in DOMAIN s /\ Visible' = [s EXCEPT ![k] = v]
      BY <1>6, <1>8
    <2>3. Service!Overwrites(c)
      BY <1>0, <1>1, <1>7, <2>1, <2>2
         DEF Service!Overwrites, Service!Waiting, Service!Done, Service!Stored, Req
    <2> QED
      BY <2>3 DEF Step
  <1>9. CASE n # o[k]
    <2>1. Req[c].is = "disturbed" /\ Visible' = s
      BY <1>6, <1>7, <1>9, WaitingIs
    <2> QED
      BY <1>0, <1>1, <1>7, <2>1, HarmlesslyDisturbed
  <1> QED
    BY <1>8, <1>9

LEMMA WriteImplements ==
  ASSUME IInv, NEW c \in Conn, conn[c].at = "act", UNCHANGED ring, ActsSet(c),
         conn[c].m.key \notin Cached(lru[conn[c].node])
  PROVE  Step(c)
  <1>0. PICK n, m, o, l, s : n = conn[c].node /\ m = conn[c].m /\ o = OwnerOf /\ l = lru /\ s = Visible
    OBVIOUS
  <1>1. /\ NodesOK /\ n \in Node /\ m.key \in Key /\ o \in Owners /\ DOMAIN l = Node
        /\ OwnerOf' = o /\ s = Shown(o, l) /\ Visible' = Shown(o, lru')
        /\ m \in Command /\ CacheOK(n, l[n])
    BY <1>0, ActingIs
  <1>2. NodeSet(n, m.key, m.value) /\ Answers(c, "SUCCESS", NoValue) /\ m.cmd = "SET"
    BY <1>0 DEF ActsSet
  <1>3. PICK v \in Value, k \in Key \ Cached(l[n]) : v = m.value /\ k = m.key
    BY <1>0, <1>1, <1>2, CommandIs
  <1>4. PICK d, E, u : Evicts(l[n], d, k, v, E) /\ lru' = u /\ u = [l EXCEPT ![n] = d]
    BY <1>0, <1>1, <1>2, <1>3, NodeInsertEffect
  <1>5. PICK D : D = Dropped(o, n, E)
    OBVIOUS
  <1>6. Cached(l[n]) \subseteq Key
    BY <1>1, WellFormedParts DEF CacheOK
  <1>7. /\ D \in SUBSET {x \in DOMAIN s : o[x] = n} /\ Cardinality(D) <= 1
        /\ o[k] = n => /\ k \notin DOMAIN s
                       /\ Visible' = [x \in (DOMAIN s \ D) \cup {k} |-> IF x = k THEN v ELSE s[x]]
        /\ o[k] # n => Visible' = [x \in DOMAIN s \ D |-> s[x]]
    <2>1. o \in Owners /\ Becomes(l, n, d, u)
      BY <1>1, <1>4 DEF Becomes
    <2>2. Evicts(l[n], d, k, v, E) /\ s = Shown(o, l)
      BY <1>1, <1>4
    <2>3. PICK t : t = Visible' /\ t = Shown(o, u)
      BY <1>1, <1>4
    <2>4. Inserted(o, n, k, v, D, s, t)
      BY <1>5, <1>6, <2>1, <2>2, <2>3, ShownInsert
    <2> QED
      BY <2>3, <2>4 DEF Inserted
  <1>8. /\ Req' = [Req EXCEPT ![c] = [is |-> "done", ok |-> TRUE, value |-> NoValue]]
        /\ Req[c] = Is(m, IF n = o[k] THEN "waiting" ELSE "disturbed")
    BY <1>0, <1>2, <1>3, ActingAnswers
  <1>9. CASE n = o[k]
    <2>1. Req[c].is = "waiting" /\ Req[c].cmd = "SET" /\ Req[c].key = k /\ Req[c].value = v
      BY <1>2, <1>3, <1>8, <1>9, WaitingIs
    <2>2. /\ k \notin DOMAIN s
          /\ Visible' = [x \in (DOMAIN s \ D) \cup {k} |-> IF x = k THEN v ELSE s[x]]
      BY <1>7, <1>9
    <2>3. D \in SUBSET {x \in DOMAIN s : o[x] = o[k]} /\ Service!Cardinality(D) <= 1
      BY <1>7, <1>9, SameCardinality
    <2>4. Service!Writes(c)
      BY <1>0, <1>1, <1>8, <2>1, <2>2, <2>3
         DEF Service!Writes, Service!Waiting, Service!Done, Service!Stored, Req
    <2> QED
      BY <2>4 DEF Step
  <1>10. CASE n # o[k]
    <2>1. Req[c].is = "disturbed" /\ Req[c].key = k
      BY <1>3, <1>8, <1>10, WaitingIs
    <2>2. D \in SUBSET {x \in DOMAIN s : o[x] # o[k]} /\ Visible' = [x \in DOMAIN s \ D |-> s[x]]
      BY <1>7, <1>10
    <2> QED
      BY <1>0, <1>1, <1>7, <1>8, <2>1, <2>2, DisturbedImplements
  <1> QED
    BY <1>9, <1>10

LEMMA DeleteImplements ==
  ASSUME IInv, NEW c \in Conn, conn[c].at = "act", UNCHANGED ring, ActsDelete(c)
  PROVE  Step(c)
  <1>0. PICK n, m, o, l, s : n = conn[c].node /\ m = conn[c].m /\ o = OwnerOf /\ l = lru /\ s = Visible
    OBVIOUS
  <1>1. /\ NodesOK /\ n \in Node /\ m.key \in Key /\ o \in Owners /\ DOMAIN l = Node
        /\ OwnerOf' = o /\ Shows(s, o, l) /\ s = Shown(o, l) /\ Visible' = Shown(o, lru')
    BY <1>0, ActingIs
  <1>2. NodeDelete(n, m.key) /\ Answers(c, "SUCCESS", NoValue) /\ m.cmd = "DELETE"
    BY <1>0 DEF ActsDelete
  <1>3. PICK k \in Key : k = m.key
    BY <1>1
  <1>4. PICK d, u : /\ d.cache = [x \in Cached(l[n]) \ {k} |-> l[n].cache[x]]
                    /\ lru' = u /\ u = [l EXCEPT ![n] = d]
    <2>1. NodesOK /\ n \in Node /\ NodeDelete(n, k)
      BY <1>1, <1>2, <1>3
    <2>2. \E d : /\ d.cache = [x \in Cached(lru[n]) \ {k} |-> lru[n].cache[x]]
                 /\ lru' = [lru EXCEPT ![n] = d]
      BY <2>1, NodeDeleteEffect
    <2> QED
      BY <1>0, <2>2
  <1>5. /\ o[k] = n => Visible' = [x \in DOMAIN s \ {k} |-> s[x]]
        /\ o[k] # n => Visible' = s
    <2>1. o \in Owners /\ Becomes(l, n, d, u)
      BY <1>1, <1>4 DEF Becomes
    <2>2. d.cache = [x \in Cached(l[n]) \ {k} |-> l[n].cache[x]] /\ s = Shown(o, l)
      BY <1>1, <1>4
    <2>3. PICK t : t = Visible' /\ t = Shown(o, u)
      BY <1>1, <1>4
    <2>4. Deleted(o, n, k, s, t)
      BY <2>1, <2>2, <2>3, ShownDelete
    <2> QED
      BY <2>3, <2>4 DEF Deleted
  <1>6. /\ Req' = [Req EXCEPT ![c] = [is |-> "done", ok |-> TRUE, value |-> NoValue]]
        /\ Req[c] = Is(m, IF n = o[k] THEN "waiting" ELSE "disturbed")
    BY <1>0, <1>2, <1>3, ActingAnswers
  <1>7. CASE n = o[k]
    <2>1. Req[c].is = "waiting" /\ Req[c].cmd = "DELETE" /\ Req[c].key = k
      BY <1>2, <1>3, <1>6, <1>7, WaitingIs
    <2>2. Visible' = [x \in DOMAIN s \ {k} |-> s[x]]
      BY <1>5, <1>7
    <2>3. Service!Removes(c)
      BY <1>0, <1>1, <1>6, <2>1, <2>2
         DEF Service!Removes, Service!Waiting, Service!Done, Service!Stored, Req
    <2> QED
      BY <2>3 DEF Step
  <1>8. CASE n # o[k]
    <2>1. Req[c].is = "disturbed" /\ Visible' = s
      BY <1>5, <1>6, <1>8, WaitingIs
    <2> QED
      BY <1>0, <1>1, <1>6, <2>1, HarmlesslyDisturbed
  <1> QED
    BY <1>7, <1>8

LEMMA ActsImplements ==
  ASSUME IInv, NEW c \in Conn, Acts(c)  PROVE Step(c)
  <1>1. /\ conn[c].at = "act" /\ UNCHANGED ring
        /\ Refuses(c) \/ ActsGet(c) \/ ActsSet(c) \/ ActsDelete(c)
    BY ActsCases
  <1>2. CASE Refuses(c)
    <2>1. PICK s : s = Refusal(conn[c].m.cmd)
      OBVIOUS
    <2>2. s # "SUCCESS" /\ Answers(c, s, NoValue) /\ UNCHANGED <<nodeVars, ring>>
      BY <1>1, <1>2, <2>1 DEF Refuses, Refusal
    <2>3. HandlersOK
      BY DEF IInv
    <2> QED
      BY <1>1, <2>2, <2>3, RefusalImplements
  <1>3. CASE ActsGet(c)
    BY <1>1, <1>3, GetImplements
  <1>4. CASE ActsSet(c)
    BY <1>1, <1>4, OverwriteImplements, WriteImplements
  <1>5. CASE ActsDelete(c)
    BY <1>1, <1>5, DeleteImplements
  <1> QED
    BY <1>1, <1>2, <1>3, <1>4, <1>5

\* A change of the ring: what the clients see is the same where the owner is.
LEMMA MovesImplements ==
  ASSUME IInv, IInv', UNCHANGED <<nodeVars, conn>>
  PROVE  Service!Moves \/ UNCHANGED Abstract
  <1>0. PICK o, p, s, t, r, q : /\ o = OwnerOf /\ p = OwnerOf' /\ s = Visible /\ t = Visible'
                                /\ r = Req /\ q = Req'
    OBVIOUS
  <1>1. HandlersOK /\ HandlersOK' /\ RingOK /\ RingOK' /\ conn' = conn /\ lru' = lru
    BY DEF IInv, nodeVars
  <1>2. o \in Owners /\ p \in Owners
    <2>1. OwnerOf \in [Key -> Node \cup {NoNode}]
      BY <1>1, OwnerType
    <2>2. (OwnerOf \in [Key -> Node \cup {NoNode}])'
      BY <1>1, OwnerType, PTL
    <2> QED
      BY <1>0, <2>1, <2>2 DEF Owners
  <1>3. Shows(s, o, lru) /\ Shows(t, p, lru)
    BY <1>0, <1>1, ShownShows, VisibleIs
  <1>4. \A c \in Conn : r[c] = ReqOf(conn[c], o) /\ q[c] = ReqOf(conn[c], p) /\ HandlerOK(conn[c])
    BY <1>0, <1>1, RequestIs, RequestWillBe DEF HandlersOK
  <1>5. CASE o = p
    <2>1. s = t
      <3>1. s = Shown(o, lru)
        BY <1>0, VisibleIs
      <3>2. t = Shown(p, lru')
        BY <1>0, VisibleIs
      <3> QED
        BY <1>1, <1>5, <3>1, <3>2
    <2>2. r = [c \in Conn |-> r[c]] /\ q = [c \in Conn |-> q[c]]
      BY <1>0 DEF Req
    <2>3. \A c \in Conn : r[c] = q[c]
      BY <1>4, <1>5
    <2>4. r = q
      BY <2>2, <2>3
    <2> QED
      BY <1>0, <1>5, <2>1, <2>4 DEF Abstract
  <1>6. CASE o # p
    <2> DEFINE stays == {k \in Key : p[k] = o[k]}
    <2>1. DOMAIN s \cap stays = DOMAIN t \cap stays
      <3>1. ASSUME NEW k \in stays  PROVE k \in DOMAIN s <=> k \in DOMAIN t
        BY <1>3, <3>1 DEF Shows
      <3> QED
        BY <3>1
    <2>2. \A k \in DOMAIN s \cap stays : t[k] = s[k]
      <3>1. TAKE k \in DOMAIN s \cap stays
      <3>2. k \in DOMAIN t /\ p[k] = o[k]
        BY <2>1, <3>1
      <3>3. t[k] = lru[p[k]].cache[k] /\ s[k] = lru[o[k]].cache[k]
        BY <1>3, <3>1, <3>2 DEF Shows
      <3> QED
        BY <3>2, <3>3
    <2>3. ASSUME NEW c \in Conn
          PROVE  \/ q[c] = r[c]
                 \/ /\ r[c].is \in {"waiting", "disturbed"}
                    /\ r[c].key \notin stays
                    /\ q[c] \in {Service!Is(r[c], "waiting"), Service!Is(r[c], "disturbed")}
      <3>1. PICK h : h = conn[c] /\ HandlerOK(h) /\ r[c] = ReqOf(h, o) /\ q[c] = ReqOf(h, p)
        BY <1>4
      <3>2. CASE h.at # "act"
        BY <3>1, <3>2 DEF ReqOf, HandlerOK
      <3>3. CASE h.at = "act"
        <4>1. h.m \in Command /\ h.m.key \in Key
          BY <3>1, <3>3, CommandIs DEF HandlerOK
        <4>2. PICK a, b : /\ a \in {"waiting", "disturbed"} /\ b \in {"waiting", "disturbed"}
                          /\ r[c] = Is(h.m, a) /\ q[c] = Is(h.m, b)
                          /\ a = IF h.node = o[h.m.key] THEN "waiting" ELSE "disturbed"
                          /\ b = IF h.node = p[h.m.key] THEN "waiting" ELSE "disturbed"
          BY <3>1, <3>3 DEF ReqOf
        <4>3. CASE h.m.key \in stays
          BY <4>2, <4>3
        <4>4. CASE h.m.key \notin stays
          <5>1. r[c].is = a /\ r[c].key = h.m.key
            BY <4>2, WaitingIs
          <5>2. \A x : Service!Is(r[c], x) = Is(h.m, x)
            BY <4>2 DEF Service!Is, Is
          <5> QED
            BY <4>2, <4>4, <5>1, <5>2
        <4> QED
          BY <4>3, <4>4
      <3> QED
        BY <3>2, <3>3
    <2>4. p \in [Key -> Node \cup {NoNode}]
      BY <1>2 DEF Owners
    <2>5. Service!Moves
      <3> QED
        BY <1>0, <1>6, <2>1, <2>2, <2>3, <2>4 DEF Service!Moves, Service!Stored, Req
    <2> QED
      BY <2>5
  <1> QED
    BY <1>5, <1>6

LEMMA InitImplements == Init => Service!SInit
  <1> SUFFICES ASSUME Init  PROVE Service!SInit
    OBVIOUS
  <1>1. RingOK /\ HandlersOK
    BY IInvInitially DEF IInv
  <1>2. OwnerOf \in Owners
    BY <1>1, OwnerType DEF Owners
  <1>3. \A k \in Key : OwnerOf[k] \in Node => Cached(lru[OwnerOf[k]]) = {}
    BY DEF Init, EmptyLRU, Cached
  <1>4. PICK s : s = Visible
    OBVIOUS
  <1>5. Shows(s, OwnerOf, lru)
    BY <1>4, VisibleIs, ShownShows
  <1>6. DOMAIN s = {} /\ s = [k \in DOMAIN s |-> s[k]]
    BY <1>2, <1>3, <1>5 DEF Shows, Owners
  <1>7. Visible = <<>>
    BY <1>4, <1>6
  <1>8. \A c \in Conn : Req[c] = [is |-> "none"]
    BY <1>1, RequestIs DEF ReqOf, Init, Reading
  <1>9. Req = [c \in Conn |-> [is |-> "none"]]
    BY <1>8 DEF Req
  <1> QED
    BY <1>2, <1>7, <1>9 DEF Service!SInit, Req, Owners

LEMMA NextImplements == IInv /\ IInv' /\ [Next]_vars => [Service!SNext]_(Service!svars)
  <1> SUFFICES ASSUME IInv, IInv', [Next]_vars  PROVE [Service!SNext]_(Service!svars)
    OBVIOUS
  <1>1. ASSUME UNCHANGED <<lru, ring, conn>>  PROVE UNCHANGED Abstract
    <2>1. UNCHANGED OwnerOf /\ UNCHANGED Visible
      BY <1>1, OwnersStay, VisibleIs
    <2>2. PICK r, q : r = Req /\ q = Req'
      OBVIOUS
    <2>3. r = [c \in Conn |-> r[c]] /\ q = [c \in Conn |-> q[c]]
      BY <2>2 DEF Req
    <2>4. \A c \in Conn : r[c] = q[c]
      BY <1>1, <2>1, <2>2, RequestIs, RequestWillBe DEF IInv
    <2>5. r = q
      BY <2>3, <2>4
    <2> QED
      BY <2>1, <2>2, <2>5 DEF Abstract
  <1>2. ASSUME NEW c \in Conn, Receives(c)  PROVE Step(c)
    BY <1>2, ReceivesImplements
  <1>3. ASSUME NEW c \in Conn, Routes(c)  PROVE Step(c) \/ UNCHANGED Abstract
    BY <1>3, RoutesImplements
  <1>4. ASSUME NEW c \in Conn, Acts(c)  PROVE Step(c)
    BY <1>4, ActsImplements
  <1>5. ASSUME NEW c \in Conn, Responds(c)  PROVE Step(c)
    BY <1>5, RespondsImplements
  <1>6. ASSUME NEW n \in Node, Joins(n) \/ Leaves(n)  PROVE Service!Moves \/ UNCHANGED Abstract
    <2>1. UNCHANGED <<nodeVars, conn>>
      BY <1>6 DEF Joins, Leaves
    <2> QED
      BY <2>1, MovesImplements
  <1>7. ASSUME NEW n \in StoppingNodes, StartsNode(n) \/ StopsNode(n)  PROVE UNCHANGED Abstract
    BY <1>1, <1>7 DEF StartsNode, StopsNode, Start, Stop, SetStatus
  <1>8. ASSUME UNCHANGED vars  PROVE UNCHANGED Abstract
    <2>1. UNCHANGED <<lru, ring, conn>>
      BY <1>8 DEF vars, nodeVars
    <2> QED
      BY <1>1, <2>1
  <1>9. ASSUME Service!Moves \/ UNCHANGED Abstract  PROVE [Service!SNext]_(Service!svars)
    BY <1>9 DEF Abstract, Req, Service!SNext, Service!svars
  <1>10. ASSUME NEW c \in Conn, Step(c) \/ UNCHANGED Abstract  PROVE [Service!SNext]_(Service!svars)
    BY <1>10, StepIs
  <1> QED
    BY <1>2, <1>3, <1>4, <1>5, <1>6, <1>7, <1>8, <1>9, <1>10 DEF Next

\* The handlers (server.go:325-407) implement CacheService, for any nodes, capacities, ring,
\* connections and commands: between changes of the ring the server's answers are those of one
\* store, through evictions and nodes that stop.
THEOREM HandlersImplementCacheService == Spec => ImplementsCacheService
  <1>1. Init => Service!SInit
    BY InitImplements
  <1>2. IInv /\ IInv' /\ [Next]_vars => [Service!SNext]_(Service!svars)
    BY NextImplements
  <1>3. Spec => []IInv
    BY IInvAlways
  <1>4. Spec => Service!SSpec
    BY <1>1, <1>2, <1>3, PTL DEF Spec, Service!SSpec
  <1> QED
    BY <1>4 DEF ImplementsCacheService
=============================================================================
