--------------------------- MODULE LRUCacheProofs ---------------------------
(***************************************************************************)
(* Theorems about LRUCache for every Key, Value and Capacity.              *)
(***************************************************************************)
EXTENDS LRUHistory, LRUListProofs

-----------------------------------------------------------------------------
(***************************************************************************)
(* The invariants.                                                         *)
(***************************************************************************)

\* The inductive invariant, in the form in which a step preserves it.
IInv == WellFormed(lru, StoredKey, Value) /\ Len(lru.list) <= Capacity

LEMMA IInvImpliesInv == IInv => Inv
<1> SUFFICES ASSUME IInv PROVE Inv
  OBVIOUS
<1>1. Cardinality(Cached(lru)) = Len(lru.list)
  BY CachedCardinality DEF IInv
<1> QED BY <1>1 DEF IInv, Inv, WellFormed, TypeOK, ListAndIndexAgree, WithinCapacity

LEMMA IInvInitially == Init => IInv
<1> SUFFICES ASSUME Init PROVE IInv
  OBVIOUS
<1>1. WellFormed(EmptyLRU, StoredKey, Value) /\ Len(EmptyLRU.list) = 0
  BY EmptyIsWellFormed
<1> QED BY <1>1, CapacityAssumption DEF Init, IInv

LEMMA IInvInductive == IInv /\ [Next]_lru => IInv'
<1> SUFFICES ASSUME IInv, [Next]_lru PROVE IInv'
  OBVIOUS
<1> USE CapacityAssumption
<1>1. /\ WellFormed(lru, StoredKey, Value)
      /\ Len(lru.list) <= Capacity
      /\ Len(lru.list) \in Nat
  BY WellFormedParts DEF IInv
<1>2. ASSUME NEW k \in Key, Get(k) PROVE IInv'
  BY <1>1, <1>2, GetKeepsWellFormed DEF Get, IInv
<1>3. ASSUME NEW k \in Key, Delete(k) PROVE IInv'
  <2>1. /\ WellFormed(AfterDelete(lru, k), StoredKey, Value)
        /\ Len(AfterDelete(lru, k).list) <= Len(lru.list)
    BY <1>1, DeleteKeepsWellFormed
  <2>2. Len(AfterDelete(lru, k).list) \in Nat
    BY <2>1, WellFormedParts
  <2> QED BY <1>1, <1>3, <2>1, <2>2 DEF Delete, IInv
<1>4. ASSUME NEW k \in Key, SetEmptyKey(k) PROVE IInv'
  BY <1>1, <1>4 DEF SetEmptyKey, IInv
<1>5. ASSUME NEW k \in Key, NEW v \in Value, SetExisting(k, v) PROVE IInv'
  BY <1>1, <1>5, UpdateKeepsWellFormed DEF SetExisting, IInv
<1>6. ASSUME NEW k \in Key, NEW v \in Value, SetNew(k, v) PROVE IInv'
  <2>1. k \in StoredKey \ Cached(lru)
    BY <1>6 DEF SetNew, StoredKey
  <2> QED BY <1>1, <1>6, <2>1, InsertKeepsWellFormed DEF SetNew, IInv
<1>7. CASE Clear
  BY <1>7, EmptyIsWellFormed DEF Clear, IInv
<1>8. CASE UNCHANGED lru
  BY <1>1, <1>8 DEF IInv
<1> QED BY <1>2, <1>3, <1>4, <1>5, <1>6, <1>7, <1>8 DEF Next

LEMMA IInvAlways == Spec => []IInv
BY IInvInitially, IInvInductive, PTL DEF Spec

\* A cache value has its type and never holds the empty key.
THEOREM TypeCorrect == Spec => []TypeOK
<1>1. IInv => TypeOK
  BY IInvImpliesInv DEF Inv
<1> QED BY <1>1, IInvAlways, PTL

\* The list and the index of cache.go never disagree.
THEOREM ListAndIndexAlwaysAgree == Spec => []ListAndIndexAgree
<1>1. IInv => ListAndIndexAgree
  BY IInvImpliesInv DEF Inv
<1> QED BY <1>1, IInvAlways, PTL

\* The cache stays within its capacity.
THEOREM AlwaysWithinCapacity == Spec => []WithinCapacity
<1>1. IInv => WithinCapacity
  BY IInvImpliesInv DEF Inv
<1> QED BY <1>1, IInvAlways, PTL

-----------------------------------------------------------------------------
(***************************************************************************)
(* What each step does to the entries and to the recency order.            *)
(***************************************************************************)

\* The entries stay, those that were used get a new place.
Hits(k) == /\ k \in Cached(lru)
           /\ Cached(lru') = Cached(lru)
           /\ UsedAfter(lru') = Latest(UsedAfter(lru), k, Cached(lru))

Misses(k) == k \notin Cached(lru) /\ lru' = lru

Removes(k) == /\ k \in Cached(lru)
              /\ lru'.cache = [x \in Cached(lru) \ {k} |-> lru.cache[x]]
              /\ UsedAfter(lru') = Among(UsedAfter(lru), Cached(lru) \ {k})

\* The entry of k joins those of D.
Joins(k, v, D) ==
  /\ lru'.cache = Joined(lru.cache, k, v, D \cup {k})
  /\ UsedAfter(lru') = Latest(UsedAfter(lru), k, D \cup {k})

Oldest == lru.list[Len(lru.list)]

Empties == lru' = EmptyLRU /\ UsedAfter(lru') = {}

LEMMA GetStep ==
  ASSUME IInv, NEW k, Get(k)
  PROVE  (Hits(k) /\ lru'.cache = lru.cache) \/ Misses(k)
<1>1. WellFormed(lru, StoredKey, Value)
  BY DEF IInv
<1>2. CASE k \in Cached(lru)
  <2>1. lru' = [list |-> MoveToFront(lru.list, k), cache |-> lru.cache]
    BY <1>2 DEF Get, AfterGet
  <2>2. UsedAfter([list |-> MoveToFront(lru.list, k), cache |-> lru.cache]) =
          Latest(UsedAfter(lru), k, Cached(lru))
    BY <1>1, <1>2, MoveUsedAfter DEF Cached
  <2>3. lru'.cache = lru.cache /\ Cached(lru') = Cached(lru)
    BY <2>1 DEF Cached
  <2> QED BY <1>2, <2>1, <2>2, <2>3 DEF Hits
<1>3. CASE k \notin Cached(lru)
  BY <1>3 DEF Get, AfterGet, Misses
<1> QED BY <1>2, <1>3

LEMMA SetExistingStep ==
  ASSUME IInv, NEW k, NEW v, SetExisting(k, v)
  PROVE  Hits(k) /\ lru'.cache = [lru.cache EXCEPT ![k] = v]
<1> DEFINE f == [lru.cache EXCEPT ![k] = v]
<1>1. WellFormed(lru, StoredKey, Value) /\ k \in Cached(lru)
  BY DEF IInv, SetExisting
<1>2. lru' = [list |-> MoveToFront(lru.list, k), cache |-> f]
  BY DEF SetExisting, AfterUpdate
<1>3. DOMAIN f = Cached(lru)
  BY DEF Cached
<1> HIDE DEF f
<1>4. UsedAfter([list |-> MoveToFront(lru.list, k), cache |-> f]) =
        Latest(UsedAfter(lru), k, Cached(lru))
  BY <1>1, <1>3, MoveUsedAfter
<1>5. lru'.cache = f /\ Cached(lru') = Cached(lru)
  BY <1>2, <1>3 DEF Cached
<1> QED BY <1>1, <1>2, <1>4, <1>5 DEF Hits, f

LEMMA DeleteStep ==
  ASSUME IInv, NEW k, Delete(k)
  PROVE  Removes(k) \/ Misses(k)
<1>1. WellFormed(lru, StoredKey, Value)
  BY DEF IInv
<1>2. CASE k \in Cached(lru)
  <2> DEFINE e == Element(lru.list, k)
             D == Cached(lru) \ {k}
             d == [list |-> RemoveAt(lru.list, e), cache |-> Reindex(lru.cache, D)]
  <2>1. e \in 1 .. Len(lru.list) /\ lru.list[e] = k
    BY <1>1, <1>2, ElementProperties
  <2>2. lru' = d
    BY <1>2 DEF Delete, AfterDelete, Unlink
  <2>3. UsedAfter(d) = Among(UsedAfter(lru), D)
    <3> HIDE DEF e
    <3>1. UsedAfter([list |-> RemoveAt(lru.list, e),
                     cache |-> Reindex(lru.cache, Cached(lru) \ {lru.list[e]})]) =
            Among(UsedAfter(lru), Cached(lru) \ {lru.list[e]})
      BY <1>1, <2>1, RemoveUsedAfter
    <3> QED BY <2>1, <3>1
  <2>4. d.cache = [x \in D |-> lru.cache[x]]
    BY DEF Reindex
  <2> QED BY <1>2, <2>2, <2>3, <2>4 DEF Removes
<1>3. CASE k \notin Cached(lru)
  BY <1>3 DEF Delete, AfterDelete, Misses
<1> QED BY <1>2, <1>3

LEMMA SetNewStep ==
  ASSUME IInv, NEW k \in Key, NEW v \in Value, SetNew(k, v)
  PROVE  /\ k \in StoredKey \ Cached(lru)
         /\ \/ Len(lru.list) < Capacity /\ Joins(k, v, Cached(lru))
            \/ Len(lru.list) = Capacity /\ Joins(k, v, Cached(lru) \ {Oldest})
<1>1. /\ WellFormed(lru, StoredKey, Value) /\ Len(lru.list) <= Capacity
      /\ Len(lru.list) \in Nat /\ Capacity \in Nat \ {0}
  BY CapacityAssumption, WellFormedParts DEF IInv
<1>2. k \in StoredKey \ Cached(lru) /\ lru' = AfterInsert(lru, k, v, Capacity)
  BY DEF SetNew, StoredKey
<1>3. CASE Len(lru.list) < Capacity
  <2>1. lru' = PushFront(lru, k, v)
    BY <1>1, <1>2, <1>3 DEF AfterInsert, IsFull
  <2>2. UsedAfter(PushFront(lru, k, v)) = Latest(UsedAfter(lru), k, Cached(lru) \cup {k})
    BY <1>1, <1>2, PushUsedAfter
  <2>3. PushFront(lru, k, v).cache = Joined(lru.cache, k, v, Cached(lru) \cup {k})
    BY DEF PushFront, Joined
  <2> QED BY <1>2, <1>3, <2>1, <2>2, <2>3 DEF Joins
<1>4. CASE Len(lru.list) = Capacity
  <2>1. Len(lru.list) > 0 /\ lru.list # <<>>
    BY <1>1, <1>4
  <2>2. lru' = PushFront(EvictOldest(lru), k, v)
    BY <1>1, <1>2, <1>4, <2>1 DEF AfterInsert, IsFull
  <2>3. LET n == PushFront(EvictOldest(lru), k, v)
            D == (Cached(lru) \ {Oldest}) \cup {k}
        IN  n.cache = Joined(lru.cache, k, v, D) /\ UsedAfter(n) = Latest(UsedAfter(lru), k, D)
    BY <1>1, <1>2, <2>1, InsertAfterEviction DEF Oldest
  <2> QED BY <1>2, <1>4, <2>2, <2>3 DEF Joins
<1> QED BY <1>1, <1>2, <1>3, <1>4

LEMMA ClearStep ==
  ASSUME Clear
  PROVE  Empties
<1>1. UsedAfter(EmptyLRU) = {}
  BY DEF UsedAfter, EmptyLRU, Cached
<1> QED BY <1>1 DEF Clear, Empties

\* No entry was used before the oldest, and every other was used after it.
LEMMA OldestIsOldest ==
  ASSUME IInv, Len(lru.list) = Capacity
  PROVE  /\ Oldest \in Cached(lru)
         /\ \A x \in Cached(lru) : <<Oldest, x>> \notin UsedAfter(lru)
         /\ \A x \in Cached(lru) \ {Oldest} : <<x, Oldest>> \in UsedAfter(lru)
<1>1. WellFormed(lru, StoredKey, Value) /\ Len(lru.list) > 0
  BY CapacityAssumption DEF IInv
<1>2. UsedAfter(lru) = {p \in Cached(lru) \X Cached(lru) : Before(lru.list, p[1], p[2])}
  BY UsedAfterIs
<1>3. /\ Oldest \in Cached(lru)
      /\ \A x \in Cached(lru) : ~Before(lru.list, Oldest, x)
      /\ \A x \in Cached(lru) \ {Oldest} : Before(lru.list, x, Oldest)
  BY <1>1, LastIsOldest DEF Oldest
<1> QED BY <1>2, <1>3

-----------------------------------------------------------------------------
(***************************************************************************)
(* Evictions, and the refinement of RecencyStore.                          *)
(***************************************************************************)

EvictionOK ==
  \A k \in Cached(lru), n \in Cached(lru') \ Cached(lru) :
    k \notin Cached(lru') =>
      /\ Len(lru.list) = Capacity
      /\ Cached(lru') = (Cached(lru) \ {k}) \cup {n}
      /\ \A x \in Cached(lru) : <<k, x>> \notin UsedAfter(lru)

\* A step that loses an entry for another evicts the least recently used one of a full
\* cache (cache.go:93-99).
THEOREM AlwaysEvictsOnlyOldest == Spec => EvictsOnlyOldestWhenFull
<1>1. IInv /\ [Next]_lru => [EvictionOK]_lru
  <2> SUFFICES ASSUME IInv, [Next]_lru, lru' # lru PROVE EvictionOK
    OBVIOUS
  <2>1. ASSUME NEW k \in Key, Get(k) PROVE EvictionOK
    <3>1. Hits(k)
      BY <2>1, GetStep DEF Misses
    <3> QED BY <3>1 DEF Hits, EvictionOK
  <2>2. ASSUME NEW k \in Key, Delete(k) PROVE EvictionOK
    <3>1. Removes(k)
      BY <2>2, DeleteStep DEF Misses
    <3> QED BY <3>1 DEF Removes, EvictionOK, Cached
  <2>3. ASSUME NEW k \in Key, NEW v \in Value, SetExisting(k, v) PROVE EvictionOK
    BY <2>3, SetExistingStep DEF Hits, EvictionOK
  <2>4. ASSUME NEW k \in Key, NEW v \in Value, SetNew(k, v) PROVE EvictionOK
    <3>1. CASE Len(lru.list) < Capacity /\ Joins(k, v, Cached(lru))
      BY <3>1 DEF Joins, Joined, EvictionOK, Cached
    <3>2. CASE Len(lru.list) = Capacity /\ Joins(k, v, Cached(lru) \ {Oldest})
      <4>1. Cached(lru') = (Cached(lru) \ {Oldest}) \cup {k}
        BY <3>2 DEF Joins, Joined, Cached
      <4> QED BY <3>2, <4>1, OldestIsOldest DEF EvictionOK
    <3> QED BY <2>4, <3>1, <3>2, SetNewStep
  <2>5. CASE Clear
    BY <2>5 DEF Clear, EvictionOK, EmptyLRU, Cached
  <2>6. ASSUME NEW k \in Key, SetEmptyKey(k) PROVE EvictionOK
    BY <2>6 DEF SetEmptyKey
  <2> QED BY <2>1, <2>2, <2>3, <2>4, <2>5, <2>6 DEF Next
<1> QED BY <1>1, IInvAlways, PTL DEF Spec, EvictsOnlyOldestWhenFull, EvictionOK

\* The abstract store in terms of the cache.
LEMMA RecencyIs ==
  /\ Recency!avars = <<lru.cache, UsedAfter(lru)>>
  /\ Recency!AInit <=> lru.cache = <<>> /\ UsedAfter(lru) = {}
  /\ \A k : Recency!ARead(k) <=>
       /\ k \in Cached(lru)
       /\ UsedAfter(lru)' = Latest(UsedAfter(lru), k, Cached(lru))
       /\ (lru.cache)' = lru.cache
  /\ \A k : Recency!ARemove(k) <=>
       /\ k \in Cached(lru)
       /\ (lru.cache)' = [x \in Cached(lru) \ {k} |-> lru.cache[x]]
       /\ UsedAfter(lru)' = Among(UsedAfter(lru), Cached(lru) \ {k})
  /\ \A k, v : Recency!AOverwrite(k, v) <=>
       /\ k \in Cached(lru)
       /\ (lru.cache)' = [lru.cache EXCEPT ![k] = v]
       /\ UsedAfter(lru)' = Latest(UsedAfter(lru), k, Cached(lru))
  /\ Recency!AReset <=> (lru.cache)' = <<>> /\ UsedAfter(lru)' = {}
BY DEF Recency!avars, Recency!AInit, Recency!ARead, Recency!ARemove, Recency!AOverwrite,
       Recency!AReset, Recency!Used, Recency!Kept, Recency!Stored, Latest, Among, Cached

LEMMA RecencyWrites ==
  ASSUME NEW k \in StoredKey \ Cached(lru), NEW v
  PROVE  /\ Cardinality(Cached(lru)) < Capacity /\ Joins(k, v, Cached(lru)) =>
              Recency!AWriteWithRoom(k, v)
         /\ \A o \in Cached(lru) :
              (/\ Cardinality(Cached(lru)) = Capacity
               /\ \A x \in Cached(lru) : <<o, x>> \notin UsedAfter(lru)
               /\ Joins(k, v, Cached(lru) \ {o})) => Recency!AWriteWithEviction(k, v)
<1>0. Recency!Cardinality(Cached(lru)) = Cardinality(Cached(lru))
  BY DEF Recency!Cardinality, Cardinality
<1>1. k \in Key \ (Cached(lru) \cup {EmptyKey}) /\ Recency!Stored = Cached(lru)
  BY DEF StoredKey, Recency!Stored, Cached
<1>2. \A D : /\ Recency!Used(k, D) = Latest(UsedAfter(lru), k, D)
             /\ Joined(lru.cache, k, v, D) = [x \in D |-> IF x = k THEN v ELSE lru.cache[x]]
  BY DEF Recency!Used, Latest, Joined
<1>3. ASSUME Cardinality(Cached(lru)) < Capacity, Joins(k, v, Cached(lru))
      PROVE  Recency!AWriteWithRoom(k, v)
  BY <1>0, <1>1, <1>2, <1>3 DEF Recency!AWriteWithRoom, Joins
<1>4. ASSUME NEW o \in Cached(lru), Cardinality(Cached(lru)) = Capacity,
             \A x \in Cached(lru) : <<o, x>> \notin UsedAfter(lru),
             Joins(k, v, Cached(lru) \ {o})
      PROVE  Recency!AWriteWithEviction(k, v)
  BY <1>0, <1>1, <1>2, <1>4 DEF Recency!AWriteWithEviction, Joins
<1> QED BY <1>3, <1>4

\* cache.go implements the recency store, step by step: what is stored, and in which order
\* it will be evicted, is what RecencyStore says.
THEOREM CacheImplementsRecencyStore == Spec => ImplementsRecencyStore
<1>1. Init => Recency!AInit
  BY RecencyIs DEF Init, EmptyLRU, UsedAfter, Cached
<1>2. IInv /\ [Next]_lru => [Recency!ANext]_Recency!avars
  <2> SUFFICES ASSUME IInv, [Next]_lru PROVE Recency!ANext \/ UNCHANGED Recency!avars
    OBVIOUS
  <2>0. lru' = lru => UNCHANGED Recency!avars
    BY DEF Recency!avars, UsedAfter, Cached
  <2>1. ASSUME NEW k \in Key, Get(k) PROVE Recency!ANext \/ UNCHANGED Recency!avars
    <3>1. CASE Hits(k) /\ lru'.cache = lru.cache
      <4>1. Recency!ARead(k)
        BY <3>1, RecencyIs DEF Hits
      <4> QED BY <4>1 DEF Recency!ANext
    <3> QED BY <2>0, <2>1, <3>1, GetStep DEF Misses
  <2>2. ASSUME NEW k \in Key, Delete(k) PROVE Recency!ANext \/ UNCHANGED Recency!avars
    <3>1. CASE Removes(k)
      <4>1. Recency!ARemove(k)
        BY <3>1, RecencyIs DEF Removes
      <4> QED BY <4>1 DEF Recency!ANext
    <3> QED BY <2>0, <2>2, <3>1, DeleteStep DEF Misses
  <2>3. ASSUME NEW k \in Key, NEW v \in Value, SetExisting(k, v) PROVE Recency!ANext
    <3>1. Recency!AOverwrite(k, v)
      BY <2>3, SetExistingStep, RecencyIs DEF Hits
    <3> QED BY <3>1 DEF Recency!ANext
  <2>4. ASSUME NEW k \in Key, NEW v \in Value, SetNew(k, v) PROVE Recency!ANext
    <3>1. Cardinality(Cached(lru)) = Len(lru.list)
      BY CachedCardinality DEF IInv
    <3>2. k \in StoredKey \ Cached(lru)
      BY <2>4, SetNewStep
    <3>3. CASE Len(lru.list) < Capacity /\ Joins(k, v, Cached(lru))
      BY <3>1, <3>2, <3>3, RecencyWrites DEF Recency!ANext
    <3>4. CASE Len(lru.list) = Capacity /\ Joins(k, v, Cached(lru) \ {Oldest})
      BY <3>1, <3>2, <3>4, OldestIsOldest, RecencyWrites DEF Recency!ANext
    <3> QED BY <2>4, <3>3, <3>4, SetNewStep
  <2>5. CASE Clear
    <3>1. Recency!AReset
      BY <2>5, ClearStep, RecencyIs DEF Empties, EmptyLRU
    <3> QED BY <3>1 DEF Recency!ANext
  <2>6. ASSUME NEW k \in Key, SetEmptyKey(k) PROVE UNCHANGED Recency!avars
    BY <2>0, <2>6 DEF SetEmptyKey
  <2> QED BY <2>0, <2>1, <2>2, <2>3, <2>4, <2>5, <2>6 DEF Next
<1> QED BY <1>1, <1>2, IInvAlways, PTL DEF Spec, ImplementsRecencyStore, Recency!ASpec

-----------------------------------------------------------------------------
(***************************************************************************)
(* What callers can rely on: LRUHistory.                                   *)
(***************************************************************************)

\* The caller remembers every cached key, and of a cached key all that was used after it;
\* a remembered key that is not cached has been evicted after Capacity others were used.
HInv ==
  /\ IInv
  /\ Cached(lru) \subseteq Remembered
  /\ \A k \in Remembered : IsFiniteSet(usedSince[k])
  /\ \A x, y \in Cached(lru) : <<x, y>> \in UsedAfter(lru) => x \in usedSince[y]
  /\ \A k \in Remembered \ Cached(lru) : Cardinality(usedSince[k]) >= Capacity

\* Sets of used keys only grow, until the key itself is used.
LEMMA UseGrows ==
  ASSUME NEW k, Use(k), \A x \in Remembered : IsFiniteSet(usedSince[x])
  PROVE  /\ Remembered' = Remembered \cup {k}
         /\ IsFiniteSet(usedSince'[k])
         /\ \A x \in Remembered \ {k} :
              /\ usedSince'[x] = usedSince[x] \cup {k}
              /\ IsFiniteSet(usedSince'[x])
              /\ Cardinality(usedSince[x]) \in Nat
              /\ Cardinality(usedSince'[x]) \in Nat
              /\ Cardinality(usedSince'[x]) >= Cardinality(usedSince[x])
<1>1. /\ Remembered' = Remembered \cup {k} /\ usedSince'[k] = {}
      /\ \A x \in Remembered \ {k} : usedSince'[x] = usedSince[x] \cup {k}
  BY DEF Use, Remembered
<1>2. ASSUME NEW x \in Remembered \ {k}
      PROVE  /\ IsFiniteSet(usedSince'[x])
             /\ Cardinality(usedSince[x]) \in Nat
             /\ Cardinality(usedSince'[x]) \in Nat
             /\ Cardinality(usedSince'[x]) >= Cardinality(usedSince[x])
  <2> DEFINE A == usedSince[x]
             B == A \cup {k}
  <2>1. IsFiniteSet(A) /\ usedSince'[x] = B
    BY <1>1
  <2> HIDE DEF A
  <2>2. IsFiniteSet(B)
    BY <2>1, FS_AddElement
  <2>3. A \subseteq B
    OBVIOUS
  <2> HIDE DEF B
  <2>4. Cardinality(A) \in Nat /\ Cardinality(B) \in Nat /\ Cardinality(A) <= Cardinality(B)
    BY <2>1, <2>2, <2>3, FS_CardinalityType, FS_Subset
  <2> QED BY <2>1, <2>2, <2>4 DEF A
<1> QED BY <1>1, <1>2, FS_EmptySet

\* The use of k, cached before it or not, when all other cached keys stay.
LEMMA UseKeepsHInv ==
  ASSUME HInv, IInv', NEW k, Use(k),
         Cached(lru') = Cached(lru) \cup {k},
         UsedAfter(lru') = Latest(UsedAfter(lru), k, Cached(lru'))
  PROVE  HInv'
<1>1. /\ Remembered' = Remembered \cup {k}
      /\ IsFiniteSet(usedSince'[k])
      /\ \A x \in Remembered \ {k} :
           /\ usedSince'[x] = usedSince[x] \cup {k}
           /\ IsFiniteSet(usedSince'[x])
           /\ Cardinality(usedSince[x]) \in Nat
           /\ Cardinality(usedSince'[x]) \in Nat
           /\ Cardinality(usedSince'[x]) >= Cardinality(usedSince[x])
  BY UseGrows DEF HInv
<1>2. Cached(lru') \subseteq Remembered' /\ \A x \in Remembered' : IsFiniteSet(usedSince'[x])
  BY <1>1 DEF HInv
<1>3. ASSUME NEW x \in Cached(lru'), NEW y \in Cached(lru'), <<x, y>> \in UsedAfter(lru')
      PROVE  x \in usedSince'[y]
  <2>1. y # k /\ y \in Cached(lru) /\ y \in Remembered
    BY <1>3 DEF Latest, HInv
  <2>2. CASE x = k
    BY <1>1, <2>1, <2>2
  <2>3. CASE x # k
    <3>1. <<x, y>> \in UsedAfter(lru) /\ x \in Cached(lru)
      BY <1>3, <2>3 DEF Latest
    <3> QED BY <1>1, <2>1, <3>1 DEF HInv
  <2> QED BY <2>2, <2>3
<1>4. ASSUME NEW x \in Remembered' \ Cached(lru') PROVE Cardinality(usedSince'[x]) >= Capacity
  <2>1. x \in Remembered \ {k} /\ Cardinality(usedSince[x]) >= Capacity
    BY <1>1, <1>4 DEF HInv
  <2> QED BY <1>1, <2>1, CapacityAssumption
<1> QED BY <1>2, <1>3, <1>4 DEF HInv

\* An eviction: the victim was used before Capacity - 1 others, and now before k.
LEMMA EvictionKeepsHInv ==
  ASSUME HInv, IInv', NEW k \in StoredKey \ Cached(lru), NEW v, Use(k),
         Len(lru.list) = Capacity, Joins(k, v, Cached(lru) \ {Oldest})
  PROVE  HInv'
<1> DEFINE o == Oldest
           C == Cached(lru)
<1>1. /\ Remembered' = Remembered \cup {k}
      /\ IsFiniteSet(usedSince'[k])
      /\ \A x \in Remembered \ {k} :
           /\ usedSince'[x] = usedSince[x] \cup {k}
           /\ IsFiniteSet(usedSince'[x])
           /\ Cardinality(usedSince[x]) \in Nat
           /\ Cardinality(usedSince'[x]) \in Nat
           /\ Cardinality(usedSince'[x]) >= Cardinality(usedSince[x])
  BY UseGrows DEF HInv
<1>2. Cached(lru') = (C \ {o}) \cup {k} /\ UsedAfter(lru') = Latest(UsedAfter(lru), k, Cached(lru'))
  BY DEF Joins, Joined, Cached
<1>3. o \in C /\ o # k /\ \A x \in C \ {o} : <<x, o>> \in UsedAfter(lru)
  BY OldestIsOldest DEF HInv
<1>4. o \in Remembered /\ C \subseteq Remembered
  BY <1>3 DEF HInv
<1>5. Cached(lru') \subseteq Remembered' /\ \A x \in Remembered' : IsFiniteSet(usedSince'[x])
  BY <1>1, <1>2, <1>4
<1>6. ASSUME NEW x \in Cached(lru'), NEW y \in Cached(lru'), <<x, y>> \in UsedAfter(lru')
      PROVE  x \in usedSince'[y]
  <2>1. y # k /\ y \in C /\ y \in Remembered
    BY <1>2, <1>4, <1>6 DEF Latest
  <2>2. CASE x = k
    BY <1>1, <2>1, <2>2
  <2>3. CASE x # k
    <3>1. <<x, y>> \in UsedAfter(lru) /\ x \in C
      BY <1>2, <1>6, <2>3 DEF Latest
    <3> QED BY <1>1, <2>1, <3>1 DEF HInv
  <2> QED BY <2>2, <2>3
<1>7. Cardinality(usedSince'[o]) >= Capacity
  <2> DEFINE E == C \ {o}
             F == E \cup {k}
             U == usedSince'[o]
  <2>1. IsFiniteSet(C) /\ Cardinality(C) = Capacity
    BY CachedCardinality DEF HInv, IInv
  <2>2. IsFiniteSet(E) /\ Cardinality(E) = Capacity - 1
    <3> HIDE DEF C, o
    <3> QED BY <1>3, <2>1, FS_RemoveElement
  <2>3. k \notin E
    OBVIOUS
  <2>4. IsFiniteSet(F) /\ Cardinality(F) = Capacity
    <3> HIDE DEF E
    <3> QED BY <2>2, <2>3, FS_AddElement, CapacityAssumption
  <2>5. F \subseteq U
    <3>1. E \subseteq usedSince[o]
      BY <1>3 DEF HInv
    <3> QED BY <1>1, <1>3, <1>4, <3>1
  <2>6. IsFiniteSet(U)
    BY <1>1, <1>3, <1>4
  <2> HIDE DEF F, U
  <2>7. Cardinality(F) <= Cardinality(U)
    BY <2>5, <2>6, FS_Subset
  <2> QED BY <2>4, <2>6, <2>7, FS_CardinalityType, CapacityAssumption DEF U
<1>8. ASSUME NEW x \in Remembered' \ Cached(lru') PROVE Cardinality(usedSince'[x]) >= Capacity
  <2>1. CASE x = o
    BY <1>7, <2>1
  <2>2. CASE x # o
    <3>1. x \in Remembered \ {k} /\ Cardinality(usedSince[x]) >= Capacity
      BY <1>1, <1>2, <1>8, <2>2 DEF HInv
    <3> QED BY <1>1, <3>1, CapacityAssumption
  <2> QED BY <2>1, <2>2
<1> QED BY <1>5, <1>6, <1>8 DEF HInv

LEMMA HInvInductive == HInv /\ [HNext]_hvars => HInv'
<1> SUFFICES ASSUME HInv, [HNext]_hvars PROVE HInv'
  OBVIOUS
<1>0. IInv
  BY DEF HInv
<1>1. IInv'
  <2>1. [Next]_lru
    BY DEF HNext, HGet, HSet, HDelete, HClear, HSetEmptyKey, Next, hvars
  <2> QED BY <1>0, <2>1, IInvInductive
<1>2. ASSUME NEW k \in Key, HGet(k) PROVE HInv'
  <2>1. CASE Hits(k)
    <3>1. Use(k)
      BY <1>2, <2>1 DEF HGet, Hits
    <3>2. Cached(lru') = Cached(lru) \cup {k}
      BY <2>1 DEF Hits
    <3>3. UsedAfter(lru') = Latest(UsedAfter(lru), k, Cached(lru'))
      BY <2>1 DEF Hits
    <3> QED BY <1>1, <3>1, <3>2, <3>3, UseKeepsHInv
  <2>2. CASE Misses(k)
    <3>1. lru' = lru /\ usedSince' = usedSince
      BY <1>2, <2>2 DEF HGet, Misses
    <3> QED BY <1>1, <3>1 DEF HInv, Remembered
  <2> QED BY <1>0, <1>2, <2>1, <2>2, GetStep DEF HGet
<1>3. ASSUME NEW k \in Key, NEW v \in Value, HSet(k, v) PROVE HInv'
  <2>1. Use(k)
    BY <1>3 DEF HSet
  <2>2. CASE SetExisting(k, v)
    <3>1. Hits(k)
      BY <1>0, <2>2, SetExistingStep
    <3>2. Cached(lru') = Cached(lru) \cup {k}
      BY <3>1 DEF Hits
    <3>3. UsedAfter(lru') = Latest(UsedAfter(lru), k, Cached(lru'))
      BY <3>1 DEF Hits
    <3> QED BY <1>1, <2>1, <3>2, <3>3, UseKeepsHInv
  <2>3. CASE SetNew(k, v)
    <3>1. k \in StoredKey \ Cached(lru)
      BY <1>0, <2>3, SetNewStep
    <3>2. CASE Len(lru.list) < Capacity /\ Joins(k, v, Cached(lru))
      <4>1. Cached(lru') = Cached(lru) \cup {k}
        BY <3>2 DEF Joins, Joined, Cached
      <4>2. UsedAfter(lru') = Latest(UsedAfter(lru), k, Cached(lru'))
        BY <3>2, <4>1 DEF Joins
      <4> QED BY <1>1, <2>1, <4>1, <4>2, UseKeepsHInv
    <3>3. CASE Len(lru.list) = Capacity /\ Joins(k, v, Cached(lru) \ {Oldest})
      BY <1>1, <2>1, <3>1, <3>3, EvictionKeepsHInv
    <3> QED BY <1>0, <2>3, <3>2, <3>3, SetNewStep
  <2> QED BY <1>3, <2>2, <2>3 DEF HSet
<1>4. ASSUME NEW k \in Key, HDelete(k) PROVE HInv'
  <2>1. /\ Remembered' = Remembered \ {k}
        /\ \A x \in Remembered' : usedSince'[x] = usedSince[x]
    BY <1>4 DEF HDelete, Forget, Remembered
  <2>2. CASE Removes(k)
    <3>1. Cached(lru') = Cached(lru) \ {k}
      BY <2>2 DEF Removes, Cached
    <3>2. UsedAfter(lru') \subseteq UsedAfter(lru)
      BY <2>2 DEF Removes, Among
    <3> QED BY <1>1, <2>1, <3>1, <3>2 DEF HInv
  <2>3. CASE Misses(k)
    BY <1>1, <2>1, <2>3 DEF HInv, Misses
  <2> QED BY <1>0, <1>4, <2>2, <2>3, DeleteStep DEF HDelete
<1>5. CASE HClear
  <2>1. Remembered' = {}
    BY <1>5 DEF HClear, Forget, Remembered
  <2>2. Cached(lru') = {}
    BY <1>5 DEF HClear, Clear, EmptyLRU, Cached
  <2> QED BY <1>1, <2>1, <2>2 DEF HInv
<1>6. ASSUME lru' = lru, usedSince' = usedSince PROVE HInv'
  BY <1>1, <1>6 DEF HInv, Remembered
<1>7. ASSUME NEW k \in Key, HSetEmptyKey(k) PROVE HInv'
  BY <1>6, <1>7 DEF HSetEmptyKey, SetEmptyKey
<1>8. CASE UNCHANGED hvars
  BY <1>6, <1>8 DEF hvars
<1> QED BY <1>2, <1>3, <1>4, <1>5, <1>7, <1>8 DEF HNext

\* A key that was stored and not removed is cached until Capacity other keys have been used
\* after it: the eviction of cache.go:93-99 never takes a key in recent use.
THEOREM RecentKeysAlwaysKept == HSpec => []RecentKeysAreKept
<1>1. HInit => HInv
  <2> SUFFICES ASSUME HInit PROVE HInv
    OBVIOUS
  <2>1. IInv
    BY IInvInitially DEF HInit
  <2>2. Cached(lru) = {} /\ Remembered = {}
    BY DEF HInit, Init, EmptyLRU, Cached, Remembered
  <2> QED BY <2>1, <2>2 DEF HInv
<1>2. HInv => RecentKeysAreKept
  <2> SUFFICES ASSUME HInv, NEW k \in Remembered, Cardinality(usedSince[k]) < Capacity
               PROVE  k \in Cached(lru)
    BY DEF RecentKeysAreKept
  <2>1. Cardinality(usedSince[k]) \in Nat
    BY FS_CardinalityType DEF HInv
  <2> QED BY <2>1, CapacityAssumption DEF HInv
<1> QED BY <1>1, <1>2, HInvInductive, PTL DEF HSpec
=============================================================================
