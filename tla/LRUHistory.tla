----------------------------- MODULE LRUHistory -----------------------------
(***************************************************************************)
(* LRUCache with what a caller can remember: for each key it has stored    *)
(* and not removed, the set of other keys used since.  The code has no     *)
(* such variable; it lets retention be stated without the list.            *)
(***************************************************************************)
EXTENDS LRUCache

VARIABLE usedSince   \* partial: from the keys stored and not removed since

hvars == <<lru, usedSince>>

Remembered == DOMAIN usedSince

\* What the caller remembers after it used k, stored or found.
Use(k) == usedSince' = [x \in Remembered \cup {k} |-> IF x = k THEN {} ELSE usedSince[x] \cup {k}]

Forget(K) == usedSince' = [x \in Remembered \ K |-> usedSince[x]]

HInit == Init /\ usedSince = <<>>

HGet(k) == /\ Get(k)
           /\ IF k \in Cached(lru) THEN Use(k) ELSE UNCHANGED usedSince

HSet(k, v) == /\ SetExisting(k, v) \/ SetNew(k, v)
              /\ Use(k)

HDelete(k) == Delete(k) /\ Forget({k})

HClear == Clear /\ Forget(Remembered)

HSetEmptyKey(k) == SetEmptyKey(k) /\ UNCHANGED usedSince

HNext == \/ \E k \in Key : HGet(k) \/ HDelete(k) \/ HSetEmptyKey(k)
         \/ \E k \in Key, v \in Value : HSet(k, v)
         \/ HClear

HSpec == HInit /\ [][HNext]_hvars

-----------------------------------------------------------------------------

\* Retention, the promise of LRU eviction (cache.go:93-99) seen from outside: a key
\* that was stored and not removed is still cached until Capacity distinct other
\* keys have been used after its last use.  Gets count as uses, misses do not.
RecentKeysAreKept ==
  \A k \in Remembered : Cardinality(usedSince[k]) < Capacity => k \in Cached(lru)
=============================================================================
