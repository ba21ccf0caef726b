------------------------------ MODULE LRUList ------------------------------
(***************************************************************************)
(* The data structure behind pkg/cache: a doubly linked list of entries,   *)
(* most recently used first, and an index from keys to entries.            *)
(*                                                                         *)
(* A cache value is a record [list, cache]: list is the sequence of keys   *)
(* in list order, cache the index, a function whose domain is the set of   *)
(* indexed keys.  The two are changed by separate statements in the code   *)
(* and by separate record fields here, so that they could disagree.  The   *)
(* operators are pure; LRUCache and Replication build their steps of them. *)
(***************************************************************************)
EXTENDS Integers, Sequences, SequencesExt

EmptyLRU == [list |-> <<>>, cache |-> <<>>]

Cached(c) == DOMAIN c.cache

\* The list element that the index entry of k points to.
Element(l, k) == CHOOSE i \in 1 .. Len(l) : l[i] = k

MoveToFront(l, k) == <<k>> \o RemoveAt(l, Element(l, k))

Reindex(f, K) == [k \in K |-> f[k]]

\* Remove an element from the list and its key from the index.
Unlink(c, k) == [list  |-> RemoveAt(c.list, Element(c.list, k)),
                 cache |-> Reindex(c.cache, Cached(c) \ {k})]

\* Faulty variants: the index entry of the victim stays; the newest entry is the victim.
EvictFromListOnly(c) == [list |-> RemoveAt(c.list, Len(c.list)), cache |-> c.cache]

EvictNewest(c) == [list  |-> RemoveAt(c.list, 1),
                   cache |-> Reindex(c.cache, Cached(c) \ {c.list[1]})]

\* The eviction of list.Back().
EvictOldest(c) == [list  |-> RemoveAt(c.list, Len(c.list)),
                   cache |-> Reindex(c.cache, Cached(c) \ {c.list[Len(c.list)]})]

PushFront(c, k, v) == [list  |-> <<k>> \o c.list,
                       cache |-> [x \in Cached(c) \cup {k} |-> IF x = k THEN v ELSE c.cache[x]]]

\* Faulty variant: off by one.
IsOverfull(c, capacity) == Len(c.list) > capacity

IsFull(c, capacity) == Len(c.list) >= capacity

Size(c) == Len(c.list)

-----------------------------------------------------------------------------
(***************************************************************************)
(* What each method leaves behind.                                         *)
(***************************************************************************)

\* Faulty variants: a hit, or an update, is not a use.
AfterPeek(c, k) == c

AfterUpdateInPlace(c, k, v) == [list |-> c.list, cache |-> [c.cache EXCEPT ![k] = v]]

AfterGet(c, k) ==
  IF k \in Cached(c) THEN [list |-> MoveToFront(c.list, k), cache |-> c.cache] ELSE c

AfterUpdate(c, k, v) ==
  [list |-> MoveToFront(c.list, k), cache |-> [c.cache EXCEPT ![k] = v]]

AfterInsert(c, k, v, capacity) ==
  PushFront(IF IsFull(c, capacity) /\ c.list # <<>> THEN EvictOldest(c) ELSE c, k, v)

AfterSet(c, k, v, capacity) ==
  IF k \in Cached(c) THEN AfterUpdate(c, k, v) ELSE AfterInsert(c, k, v, capacity)

AfterDelete(c, k) == IF k \in Cached(c) THEN Unlink(c, k) ELSE c

\* What ExportAll returns: the entries from the most to the least recently used.
ExportAll(c) ==
  [i \in 1 .. Len(c.list) |-> [key |-> c.list[i], value |-> c.cache[c.list[i]]]]

-----------------------------------------------------------------------------
(***************************************************************************)
(* Well-formedness of a cache value.                                       *)
(***************************************************************************)

\* The type of a cache value over keys K and values V.
CacheValues(K, V) == [list : Seq(K), cache : UNION {[D -> V] : D \in SUBSET K}]

\* No key has two list elements.
NoDuplicates(c) == \A i, j \in 1 .. Len(c.list) : c.list[i] = c.list[j] => i = j

\* The index and the list hold the same keys.
IndexMatchesList(c) == Cached(c) = {c.list[i] : i \in 1 .. Len(c.list)}

\* The recency order that the list represents: <<a, b>> when a was used after b.
UsedAfter(c) ==
  {p \in Cached(c) \X Cached(c) :
     \E i, j \in 1 .. Len(c.list) : i < j /\ p = <<c.list[i], c.list[j]>>}
=============================================================================
