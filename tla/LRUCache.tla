------------------------------ MODULE LRUCache ------------------------------
(***************************************************************************)
(* pkg/cache/cache.go: one LRUCache.  Every method holds c.mu for its      *)
(* whole body, so every method is one step.                                *)
(***************************************************************************)
EXTENDS LRUList, FiniteSets

CONSTANTS Key,       \* the keys callers use, the empty string among them
          Value,
          EmptyKey,  \* the empty string, which Set rejects
          Capacity

ASSUME CapacityAssumption == Capacity \in Nat \ {0}

VARIABLE lru

-----------------------------------------------------------------------------

Init == lru = EmptyLRU

Get(k) == lru' = AfterGet(lru, k)

\* Set returns ErrEmptyKey before it takes the lock.
SetEmptyKey(k) == k = EmptyKey /\ UNCHANGED lru

\* The key is there: new value, moved to the front.
SetExisting(k, v) == /\ k # EmptyKey
                     /\ k \in Cached(lru)
                     /\ lru' = AfterUpdate(lru, k, v)

\* Faulty variant: the empty key is stored.
SetNewUnchecked(k, v) == /\ k \notin Cached(lru)
                         /\ lru' = AfterInsert(lru, k, v, Capacity)

\* The key is new: the oldest entry makes room for it when the cache is full.
SetNew(k, v) == /\ k # EmptyKey
                /\ k \notin Cached(lru)
                /\ lru' = AfterInsert(lru, k, v, Capacity)

Delete(k) == lru' = AfterDelete(lru, k)

Clear == lru' = EmptyLRU

Next == \/ \E k \in Key : Get(k) \/ Delete(k) \/ SetEmptyKey(k)
        \/ \E k \in Key, v \in Value : SetExisting(k, v) \/ SetNew(k, v)
        \/ Clear

Spec == Init /\ [][Next]_lru

-----------------------------------------------------------------------------

StoredKey == Key \ {EmptyKey}

\* The type invariant: a cache is a list of keys and a partial map of keys to values.
\* No sequence of calls stores the empty key, which Set rejects (cache.go:80-82).
TypeOK == lru \in CacheValues(StoredKey, Value)

\* The list and the index of cache.go:35-40 describe the same set of entries: no
\* method leaves an indexed key without a list element, an element without an index
\* entry, or two elements for one key, which would make the next eviction drop
\* the wrong index entry.
ListAndIndexAgree == NoDuplicates(lru) /\ IndexMatchesList(lru)

\* The cache never holds more entries than its capacity (cache.go:93-99), counted in
\* the list and in the index, which Size and Get consult.
WithinCapacity == Len(lru.list) <= Capacity /\ Cardinality(Cached(lru)) <= Capacity

\* Together, the inductive invariant.
Inv == TypeOK /\ ListAndIndexAgree /\ WithinCapacity

\* A step that loses a key and gains one is an eviction (cache.go:93-99): it happens
\* only to a full cache, it loses one key, and that key was the least recently used.
EvictsOnlyOldestWhenFull ==
  [][\A k \in Cached(lru), n \in Cached(lru') \ Cached(lru) :
       k \notin Cached(lru') =>
         /\ Len(lru.list) = Capacity
         /\ Cached(lru') = (Cached(lru) \ {k}) \cup {n}
         /\ \A x \in Cached(lru) : <<k, x>> \notin UsedAfter(lru)]_lru

\* The cache implements the recency store, whatever sequence of calls is made.
Recency == INSTANCE RecencyStore WITH store <- lru.cache, usedAfter <- UsedAfter(lru)

ImplementsRecencyStore == Recency!ASpec
=============================================================================
