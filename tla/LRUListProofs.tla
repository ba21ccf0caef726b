--------------------------- MODULE LRUListProofs ---------------------------
(***************************************************************************)
(* Lemmas about the operators of LRUList, for every cache value: what they *)
(* do to the list, to the index and to the recency order.                  *)
(***************************************************************************)
EXTENDS LRUList, SequenceTheorems, FiniteSetTheorems, TLAPS

-----------------------------------------------------------------------------
(***************************************************************************)
(* The list operators.                                                     *)
(***************************************************************************)

\* Removing the element at a position closes the gap and changes nothing else.
LEMMA RemoveAtProperties ==
  ASSUME NEW S, NEW s \in Seq(S), NEW i \in 1 .. Len(s)
  PROVE  /\ RemoveAt(s, i) \in Seq(S)
         /\ Len(RemoveAt(s, i)) = Len(s) - 1
         /\ \A j \in 1 .. Len(s) - 1 :
              RemoveAt(s, i)[j] = IF j < i THEN s[j] ELSE s[j + 1]
<1> DEFINE a == SubSeq(s, 1, i - 1)
           b == SubSeq(s, i + 1, Len(s))
<1>1. Len(s) \in Nat /\ \A j \in 1 .. Len(s) : s[j] \in S
  BY LenProperties, ElementOfSeq
<1>2. /\ a \in Seq(S)
      /\ Len(a) = i - 1
      /\ \A j \in 1 .. i - 1 : a[j] = s[j]
  <2>1. \A j \in 1 .. i - 1 : s[j] \in S
    BY <1>1
  <2>2. 1 \in Int /\ i - 1 \in Int
    BY <1>1
  <2>3. /\ SubSeq(s, 1, i - 1) \in Seq(S)
        /\ Len(SubSeq(s, 1, i - 1)) = IF 1 <= i - 1 THEN i - 1 - 1 + 1 ELSE 0
        /\ \A j \in 1 .. i - 1 - 1 + 1 : SubSeq(s, 1, i - 1)[j] = s[1 + j - 1]
    BY <2>1, <2>2, SubSeqProperties
  <2> QED BY <1>1, <2>3
<1>3. /\ b \in Seq(S)
      /\ Len(b) = Len(s) - i
      /\ \A j \in 1 .. Len(s) - i : b[j] = s[i + j]
  <2>1. \A j \in i + 1 .. Len(s) : s[j] \in S
    BY <1>1
  <2>2. i + 1 \in Int /\ Len(s) \in Int
    BY <1>1
  <2>3. /\ SubSeq(s, i + 1, Len(s)) \in Seq(S)
        /\ Len(SubSeq(s, i + 1, Len(s))) = IF i + 1 <= Len(s) THEN Len(s) - (i + 1) + 1 ELSE 0
        /\ \A j \in 1 .. Len(s) - (i + 1) + 1 : SubSeq(s, i + 1, Len(s))[j] = s[i + 1 + j - 1]
    BY <2>1, <2>2, SubSeqProperties
  <2> QED BY <1>1, <2>3
<1>4. RemoveAt(s, i) = a \o b
  BY DEF RemoveAt
<1> HIDE DEF a, b
<1>5. /\ a \o b \in Seq(S)
      /\ Len(a \o b) = Len(a) + Len(b)
      /\ \A j \in 1 .. Len(a) + Len(b) : (a \o b)[j] = IF j <= Len(a) THEN a[j] ELSE b[j - Len(a)]
  BY <1>2, <1>3, ConcatProperties
<1> QED BY <1>1, <1>2, <1>3, <1>4, <1>5

\* Pushing an element in front shifts the others by one.
LEMMA PushProperties ==
  ASSUME NEW S, NEW s \in Seq(S), NEW e \in S
  PROVE  /\ <<e>> \o s \in Seq(S)
         /\ Len(<<e>> \o s) = Len(s) + 1
         /\ \A j \in 1 .. Len(s) + 1 :
              (<<e>> \o s)[j] = IF j = 1 THEN e ELSE s[j - 1]
<1>1. <<e>> \in Seq(S) /\ Len(<<e>>) = 1 /\ <<e>>[1] = e
  OBVIOUS
<1>2. Len(s) \in Nat
  BY LenProperties
<1>3. /\ <<e>> \o s \in Seq(S)
      /\ Len(<<e>> \o s) = Len(<<e>>) + Len(s)
      /\ \A j \in 1 .. Len(<<e>>) + Len(s) :
           (<<e>> \o s)[j] = IF j <= Len(<<e>>) THEN <<e>>[j] ELSE s[j - Len(<<e>>)]
  BY <1>1, ConcatProperties
<1> QED BY <1>1, <1>2, <1>3

-----------------------------------------------------------------------------
(***************************************************************************)
(* The operations keep a cache value well formed.                          *)
(***************************************************************************)

WellFormed(c, K, V) == c \in CacheValues(K, V) /\ NoDuplicates(c) /\ IndexMatchesList(c)

\* The parts of a well-formed cache value, in the form the other proofs use.
LEMMA WellFormedParts ==
  ASSUME NEW K, NEW V, NEW c, WellFormed(c, K, V)
  PROVE  /\ c = [list |-> c.list, cache |-> c.cache]
         /\ c.list \in Seq(K)
         /\ Len(c.list) \in Nat
         /\ \A i \in 1 .. Len(c.list) : c.list[i] \in K
         /\ Cached(c) \subseteq K
         /\ c.cache \in [Cached(c) -> V]
         /\ Cached(c) = {c.list[i] : i \in 1 .. Len(c.list)}
         /\ \A i, j \in 1 .. Len(c.list) : c.list[i] = c.list[j] => i = j
<1>1. c \in CacheValues(K, V)
  BY DEF WellFormed
<1>2. c.list \in Seq(K) /\ c = [list |-> c.list, cache |-> c.cache]
  BY <1>1 DEF CacheValues
<1>3. PICK D \in SUBSET K : c.cache \in [D -> V]
  BY <1>1 DEF CacheValues
<1>4. Len(c.list) \in Nat /\ \A i \in 1 .. Len(c.list) : c.list[i] \in K
  BY <1>2, LenProperties, ElementOfSeq
<1> QED BY <1>2, <1>3, <1>4 DEF WellFormed, NoDuplicates, IndexMatchesList, Cached

\* A value with these parts is well formed.
LEMMA WellFormedIntro ==
  ASSUME NEW K, NEW V, NEW l \in Seq(K), NEW D \in SUBSET K, NEW f \in [D -> V],
         D = {l[i] : i \in 1 .. Len(l)},
         \A i, j \in 1 .. Len(l) : l[i] = l[j] => i = j
  PROVE  WellFormed([list |-> l, cache |-> f], K, V)
BY DEF WellFormed, CacheValues, NoDuplicates, IndexMatchesList, Cached

\* The index entry of a cached key points to its list element.
LEMMA ElementProperties ==
  ASSUME NEW K, NEW V, NEW c, WellFormed(c, K, V), NEW k \in Cached(c)
  PROVE  Element(c.list, k) \in 1 .. Len(c.list) /\ c.list[Element(c.list, k)] = k
<1>1. \E i \in 1 .. Len(c.list) : c.list[i] = k
  BY WellFormedParts
<1> QED BY <1>1 DEF Element

\* Moving a key to the front permutes the list.
LEMMA MoveToFrontProperties ==
  ASSUME NEW K, NEW V, NEW c, WellFormed(c, K, V), NEW k \in Cached(c)
  PROVE  LET m == MoveToFront(c.list, k)
             e == Element(c.list, k)
         IN  /\ m \in Seq(K)
             /\ Len(m) = Len(c.list)
             /\ m[1] = k
             /\ \A j \in 2 .. Len(c.list) : m[j] = IF j <= e THEN c.list[j - 1] ELSE c.list[j]
             /\ {m[i] : i \in 1 .. Len(m)} = Cached(c)
             /\ \A i, j \in 1 .. Len(m) : m[i] = m[j] => i = j
<1> DEFINE l == c.list
           m == MoveToFront(l, k)
           e == Element(l, k)
<1>1. /\ l \in Seq(K) /\ Len(l) \in Nat /\ Cached(c) \subseteq K
      /\ \A i, j \in 1 .. Len(l) : l[i] = l[j] => i = j
      /\ Cached(c) = {l[i] : i \in 1 .. Len(l)}
  BY WellFormedParts
<1>2. e \in 1 .. Len(l) /\ l[e] = k
  BY ElementProperties
<1>3. /\ RemoveAt(l, e) \in Seq(K)
      /\ Len(RemoveAt(l, e)) = Len(l) - 1
      /\ \A j \in 1 .. Len(l) - 1 : RemoveAt(l, e)[j] = IF j < e THEN l[j] ELSE l[j + 1]
  BY <1>1, <1>2, RemoveAtProperties
<1>4. k \in K
  BY <1>1
<1>5. /\ m \in Seq(K)
      /\ Len(m) = Len(l)
      /\ \A j \in 1 .. Len(l) : m[j] = IF j = 1 THEN k ELSE RemoveAt(l, e)[j - 1]
  BY <1>1, <1>3, <1>4, PushProperties DEF MoveToFront
<1> HIDE DEF l, m, e
<1>6. m[1] = k /\ \A j \in 2 .. Len(l) : m[j] = IF j <= e THEN l[j - 1] ELSE l[j]
  <2>1. m[1] = k
    BY <1>1, <1>2, <1>5
  <2>2. ASSUME NEW j \in 2 .. Len(l)
        PROVE  m[j] = IF j <= e THEN l[j - 1] ELSE l[j]
    <3>1. m[j] = RemoveAt(l, e)[j - 1]
      BY <1>1, <1>5, <2>2
    <3>2. j - 1 \in 1 .. Len(l) - 1 /\ e \in Int /\ (j - 1 < e <=> j <= e) /\ j - 1 + 1 = j
      BY <1>1, <1>2, <2>2
    <3> QED BY <1>3, <3>1, <3>2
  <2> QED BY <2>1, <2>2
<1>7. {m[i] : i \in 1 .. Len(m)} = Cached(c)
  <2>1. ASSUME NEW i \in 1 .. Len(m) PROVE \E j \in 1 .. Len(l) : m[i] = l[j]
    <3>1. CASE i = 1
      BY <1>2, <1>6, <3>1
    <3>2. CASE i # 1 /\ i <= e
      <4>1. i \in 2 .. Len(l) /\ i - 1 \in 1 .. Len(l)
        BY <1>1, <1>5, <2>1, <3>2
      <4> QED BY <1>6, <3>2, <4>1
    <3>3. CASE i # 1 /\ ~(i <= e)
      <4>1. i \in 2 .. Len(l) /\ i \in 1 .. Len(l)
        BY <1>1, <1>5, <2>1, <3>3
      <4> QED BY <1>6, <3>3, <4>1
    <3> QED BY <3>1, <3>2, <3>3
  <2>2. ASSUME NEW j \in 1 .. Len(l) PROVE \E i \in 1 .. Len(m) : m[i] = l[j]
    <3>1. CASE j = e
      <4>1. 1 \in 1 .. Len(m)
        BY <1>1, <1>2, <1>5
      <4> QED BY <1>2, <1>6, <3>1, <4>1
    <3>2. CASE j < e
      <4>1. j + 1 \in 2 .. Len(l) /\ j + 1 \in 1 .. Len(m) /\ j + 1 <= e /\ j + 1 - 1 = j
        BY <1>1, <1>2, <1>5, <2>2, <3>2
      <4> QED BY <1>6, <4>1
    <3>3. CASE j > e
      <4>1. j \in 2 .. Len(l) /\ j \in 1 .. Len(m) /\ ~(j <= e)
        BY <1>1, <1>2, <1>5, <2>2, <3>3
      <4> QED BY <1>6, <4>1
    <3> QED BY <1>1, <1>2, <2>2, <3>1, <3>2, <3>3
  <2>3. {m[i] : i \in 1 .. Len(m)} \subseteq {l[j] : j \in 1 .. Len(l)}
    BY <2>1
  <2>4. {l[j] : j \in 1 .. Len(l)} \subseteq {m[i] : i \in 1 .. Len(m)}
    BY <2>2
  <2> QED BY <1>1, <2>3, <2>4
<1>8. ASSUME NEW i \in 1 .. Len(m), NEW j \in 1 .. Len(m), m[i] = m[j]
      PROVE  i = j
  <2> DEFINE old(x) == IF x = 1 THEN e ELSE IF x <= e THEN x - 1 ELSE x
  <2>1. \A x \in 1 .. Len(m) : old(x) \in 1 .. Len(l) /\ m[x] = l[old(x)]
    <3> TAKE x \in 1 .. Len(m)
    <3>1. CASE x = 1
      BY <1>2, <1>6, <3>1
    <3>2. CASE x # 1
      <4>1. x \in 2 .. Len(l)
        BY <1>1, <1>5, <3>2
      <4>2. old(x) \in 1 .. Len(l)
        BY <1>1, <1>2, <3>2, <4>1
      <4> QED BY <1>6, <3>2, <4>1, <4>2
    <3> QED BY <3>1, <3>2
  <2>2. l[old(i)] = l[old(j)] /\ old(i) \in 1 .. Len(l) /\ old(j) \in 1 .. Len(l)
    BY <1>8, <2>1
  <2>3. old(i) = old(j)
    BY <1>1, <2>2
  <2> QED BY <1>1, <1>2, <1>5, <2>3
<1> QED BY <1>1, <1>5, <1>6, <1>7, <1>8 DEF l, m, e

\* Removing one element: what is left is the list without that key.
LEMMA RemoveProperties ==
  ASSUME NEW K, NEW V, NEW c, WellFormed(c, K, V), NEW e \in 1 .. Len(c.list)
  PROVE  LET r == RemoveAt(c.list, e)
             D == Cached(c) \ {c.list[e]}
         IN  WellFormed([list |-> r, cache |-> Reindex(c.cache, D)], K, V)
<1> DEFINE l == c.list
           r == RemoveAt(l, e)
           D == Cached(c) \ {l[e]}
<1>1. /\ l \in Seq(K) /\ Len(l) \in Nat /\ Cached(c) \subseteq K
      /\ \A i, j \in 1 .. Len(l) : l[i] = l[j] => i = j
      /\ Cached(c) = {l[i] : i \in 1 .. Len(l)}
      /\ c.cache \in [Cached(c) -> V]
  BY WellFormedParts
<1>2. /\ r \in Seq(K)
      /\ Len(r) = Len(l) - 1
      /\ \A j \in 1 .. Len(l) - 1 : r[j] = IF j < e THEN l[j] ELSE l[j + 1]
  BY <1>1, RemoveAtProperties
<1>3. e \in 1 .. Len(l)
  OBVIOUS
<1>4. Reindex(c.cache, D) \in [D -> V] /\ D \in SUBSET K
  BY <1>1 DEF Reindex
<1> HIDE DEF l, r
<1>5. D = {r[i] : i \in 1 .. Len(r)}
  <2>1. ASSUME NEW i \in 1 .. Len(r) PROVE r[i] \in D
    <3>1. CASE i < e
      BY <1>1, <1>2, <1>3, <2>1, <3>1
    <3>2. CASE ~(i < e)
      <4>1. r[i] = l[i + 1] /\ i + 1 \in 1 .. Len(l) /\ i + 1 # e
        BY <1>1, <1>2, <1>3, <2>1, <3>2
      <4> QED BY <1>1, <1>3, <4>1
    <3> QED BY <3>1, <3>2
  <2>2. ASSUME NEW x \in D PROVE \E i \in 1 .. Len(r) : r[i] = x
    <3>1. PICK j \in 1 .. Len(l) : x = l[j] /\ j # e
      BY <1>1, <2>2
    <3>2. CASE j < e
      <4>1. j \in 1 .. Len(r)
        BY <1>1, <1>2, <1>3, <3>2
      <4> QED BY <1>2, <3>1, <3>2, <4>1
    <3>3. CASE ~(j < e)
      <4>1. j - 1 \in 1 .. Len(r) /\ ~(j - 1 < e) /\ j - 1 + 1 = j
        BY <1>1, <1>2, <1>3, <3>1, <3>3
      <4> QED BY <1>2, <3>1, <4>1
    <3> QED BY <3>2, <3>3
  <2> QED BY <2>1, <2>2
<1>6. ASSUME NEW i \in 1 .. Len(r), NEW j \in 1 .. Len(r), r[i] = r[j]
      PROVE  i = j
  <2> DEFINE old(x) == IF x < e THEN x ELSE x + 1
  <2>1. \A x \in 1 .. Len(r) : old(x) \in 1 .. Len(l) /\ r[x] = l[old(x)]
    BY <1>1, <1>2, <1>3
  <2>2. old(i) = old(j)
    BY <1>1, <1>6, <2>1
  <2> QED BY <1>1, <1>2, <1>3, <2>2
<1>7. WellFormed([list |-> r, cache |-> Reindex(c.cache, D)], K, V)
  BY <1>2, <1>4, <1>5, <1>6, WellFormedIntro
<1> QED BY <1>7 DEF l, r

LEMMA GetKeepsWellFormed ==
  ASSUME NEW K, NEW V, NEW c, WellFormed(c, K, V), NEW k
  PROVE  WellFormed(AfterGet(c, k), K, V) /\ Len(AfterGet(c, k).list) = Len(c.list)
<1>1. CASE k \in Cached(c)
  <2>1. AfterGet(c, k) = [list |-> MoveToFront(c.list, k), cache |-> c.cache]
    BY <1>1, WellFormedParts DEF AfterGet
  <2> DEFINE m == MoveToFront(c.list, k)
  <2>2. /\ m \in Seq(K) /\ Len(m) = Len(c.list)
        /\ Cached(c) = {m[i] : i \in 1 .. Len(m)}
        /\ \A i, j \in 1 .. Len(m) : m[i] = m[j] => i = j
    BY <1>1, MoveToFrontProperties
  <2>3. Cached(c) \in SUBSET K /\ c.cache \in [Cached(c) -> V]
    BY WellFormedParts
  <2> HIDE DEF m
  <2>4. WellFormed([list |-> m, cache |-> c.cache], K, V)
    BY <2>2, <2>3, WellFormedIntro
  <2> QED BY <2>1, <2>2, <2>4 DEF m
<1>2. CASE k \notin Cached(c)
  BY <1>2 DEF AfterGet
<1> QED BY <1>1, <1>2

LEMMA UpdateKeepsWellFormed ==
  ASSUME NEW K, NEW V, NEW c, WellFormed(c, K, V), NEW k \in Cached(c), NEW v \in V
  PROVE  /\ WellFormed(AfterUpdate(c, k, v), K, V)
         /\ Len(AfterUpdate(c, k, v).list) = Len(c.list)
<1> DEFINE m == MoveToFront(c.list, k)
           f == [c.cache EXCEPT ![k] = v]
<1>1. Cached(c) \in SUBSET K /\ f \in [Cached(c) -> V]
  BY WellFormedParts
<1>2. /\ m \in Seq(K) /\ Len(m) = Len(c.list)
      /\ Cached(c) = {m[i] : i \in 1 .. Len(m)}
      /\ \A i, j \in 1 .. Len(m) : m[i] = m[j] => i = j
  BY MoveToFrontProperties
<1>3. AfterUpdate(c, k, v) = [list |-> m, cache |-> f]
  BY DEF AfterUpdate
<1> HIDE DEF m, f
<1>4. WellFormed([list |-> m, cache |-> f], K, V)
  BY <1>1, <1>2, WellFormedIntro
<1> QED BY <1>2, <1>3, <1>4 DEF m

LEMMA PushKeepsWellFormed ==
  ASSUME NEW K, NEW V, NEW c, WellFormed(c, K, V), NEW k \in K \ Cached(c), NEW v \in V
  PROVE  /\ WellFormed(PushFront(c, k, v), K, V)
         /\ Len(PushFront(c, k, v).list) = Len(c.list) + 1
         /\ Cached(PushFront(c, k, v)) = Cached(c) \cup {k}
<1> DEFINE l == c.list
           p == <<k>> \o l
           f == [x \in Cached(c) \cup {k} |-> IF x = k THEN v ELSE c.cache[x]]
<1>1. /\ l \in Seq(K) /\ Len(l) \in Nat /\ Cached(c) \subseteq K
      /\ \A i, j \in 1 .. Len(l) : l[i] = l[j] => i = j
      /\ Cached(c) = {l[i] : i \in 1 .. Len(l)}
      /\ c.cache \in [Cached(c) -> V]
  BY WellFormedParts
<1>2. /\ p \in Seq(K)
      /\ Len(p) = Len(l) + 1
      /\ \A j \in 1 .. Len(l) + 1 : p[j] = IF j = 1 THEN k ELSE l[j - 1]
  BY <1>1, PushProperties
<1>3. f \in [Cached(c) \cup {k} -> V] /\ Cached(c) \cup {k} \in SUBSET K
  BY <1>1
<1>4. PushFront(c, k, v) = [list |-> p, cache |-> f]
  BY DEF PushFront
<1> HIDE DEF l, p, f
<1>5. Cached(c) \cup {k} = {p[i] : i \in 1 .. Len(p)}
  <2>1. ASSUME NEW i \in 1 .. Len(p) PROVE p[i] \in Cached(c) \cup {k}
    BY <1>1, <1>2, <2>1
  <2>2. ASSUME NEW x \in Cached(c) \cup {k} PROVE \E i \in 1 .. Len(p) : p[i] = x
    <3>1. CASE x = k
      BY <1>1, <1>2, <3>1
    <3>2. CASE x # k
      <4>1. PICK j \in 1 .. Len(l) : x = l[j]
        BY <1>1, <2>2, <3>2
      <4>2. j + 1 \in 1 .. Len(p) /\ j + 1 \in 1 .. Len(l) + 1 /\ j + 1 # 1 /\ j + 1 - 1 = j
        BY <1>1, <1>2, <4>1
      <4>3. p[j + 1] = l[j]
        BY <1>2, <4>2
      <4> QED BY <4>1, <4>2, <4>3
    <3> QED BY <3>1, <3>2
  <2> QED BY <2>1, <2>2
<1>6. ASSUME NEW i \in 1 .. Len(p), NEW j \in 1 .. Len(p), p[i] = p[j] PROVE i = j
  <2>1. \A x \in 1 .. Len(p) : x # 1 => x - 1 \in 1 .. Len(l) /\ p[x] = l[x - 1] /\ p[x] # k
    BY <1>1, <1>2
  <2>2. CASE i = 1
    BY <1>1, <1>2, <1>6, <2>1, <2>2
  <2>3. CASE j = 1
    BY <1>1, <1>2, <1>6, <2>1, <2>3
  <2>4. CASE i # 1 /\ j # 1
    <3>1. i - 1 = j - 1
      BY <1>1, <1>6, <2>1, <2>4
    <3> QED BY <1>1, <1>2, <3>1
  <2> QED BY <2>2, <2>3, <2>4
<1>7. WellFormed([list |-> p, cache |-> f], K, V)
  BY <1>2, <1>3, <1>5, <1>6, WellFormedIntro
<1>8. DOMAIN f = Cached(c) \cup {k}
  BY DEF f
<1> QED BY <1>2, <1>4, <1>7, <1>8 DEF Cached, l

LEMMA EvictKeepsWellFormed ==
  ASSUME NEW K, NEW V, NEW c, WellFormed(c, K, V), Len(c.list) > 0
  PROVE  /\ WellFormed(EvictOldest(c), K, V)
         /\ Len(EvictOldest(c).list) = Len(c.list) - 1
         /\ Cached(EvictOldest(c)) = Cached(c) \ {c.list[Len(c.list)]}
<1>1. Len(c.list) \in 1 .. Len(c.list) /\ c.list \in Seq(K)
  BY WellFormedParts
<1> QED BY <1>1, RemoveProperties, RemoveAtProperties DEF EvictOldest, Cached, Reindex

\* A new entry never leaves the cache above its capacity.
LEMMA InsertKeepsWellFormed ==
  ASSUME NEW K, NEW V, NEW c, WellFormed(c, K, V), NEW k \in K \ Cached(c), NEW v \in V,
         NEW capacity \in Nat \ {0}, Len(c.list) <= capacity
  PROVE  /\ WellFormed(AfterInsert(c, k, v, capacity), K, V)
         /\ Len(AfterInsert(c, k, v, capacity).list) <= capacity
<1>1. c.list \in Seq(K) /\ Len(c.list) \in Nat
  BY WellFormedParts
<1>2. CASE Len(c.list) >= capacity
  <2>1. Len(c.list) > 0 /\ c.list # <<>>
    BY <1>1, <1>2
  <2>2. k \in K \ Cached(EvictOldest(c))
    BY <2>1, EvictKeepsWellFormed
  <2>3. AfterInsert(c, k, v, capacity) = PushFront(EvictOldest(c), k, v)
    BY <1>2, <2>1 DEF AfterInsert, IsFull
  <2>4. /\ WellFormed(EvictOldest(c), K, V)
        /\ Len(EvictOldest(c).list) = Len(c.list) - 1
    BY <2>1, EvictKeepsWellFormed
  <2> HIDE DEF EvictOldest
  <2>5. /\ WellFormed(PushFront(EvictOldest(c), k, v), K, V)
        /\ Len(PushFront(EvictOldest(c), k, v).list) = Len(EvictOldest(c).list) + 1
    BY <2>2, <2>4, PushKeepsWellFormed
  <2> QED BY <1>1, <2>3, <2>4, <2>5
<1>3. CASE ~(Len(c.list) >= capacity)
  BY <1>1, <1>3, PushKeepsWellFormed DEF AfterInsert, IsFull
<1> QED BY <1>2, <1>3

LEMMA DeleteKeepsWellFormed ==
  ASSUME NEW K, NEW V, NEW c, WellFormed(c, K, V), NEW k
  PROVE  WellFormed(AfterDelete(c, k), K, V) /\ Len(AfterDelete(c, k).list) <= Len(c.list)
<1>1. c.list \in Seq(K) /\ Len(c.list) \in Nat
  BY WellFormedParts
<1>2. CASE k \in Cached(c)
  <2> DEFINE e == Element(c.list, k)
  <2>1. e \in 1 .. Len(c.list) /\ c.list[e] = k
    BY <1>2, ElementProperties
  <2>2. AfterDelete(c, k) =
          [list |-> RemoveAt(c.list, e), cache |-> Reindex(c.cache, Cached(c) \ {c.list[e]})]
    BY <1>2, <2>1 DEF AfterDelete, Unlink
  <2> HIDE DEF e
  <2>3. Len(RemoveAt(c.list, e)) = Len(c.list) - 1
    BY <1>1, <2>1, RemoveAtProperties
  <2>4. WellFormed([list |-> RemoveAt(c.list, e),
                    cache |-> Reindex(c.cache, Cached(c) \ {c.list[e]})], K, V)
    BY <2>1, RemoveProperties
  <2> QED BY <1>1, <2>2, <2>3, <2>4
<1>3. CASE k \notin Cached(c)
  BY <1>1, <1>3 DEF AfterDelete
<1> QED BY <1>2, <1>3

LEMMA EmptyIsWellFormed ==
  ASSUME NEW K, NEW V
  PROVE  WellFormed(EmptyLRU, K, V) /\ Len(EmptyLRU.list) = 0
<1>1. <<>> \in Seq(K) /\ Len(<<>>) = 0
  BY EmptySeq
<1>2. <<>> \in [{} -> V]
  OBVIOUS
<1> DEFINE l == <<>>
<1>3. {} = {l[i] : i \in 1 .. Len(l)} /\ \A i, j \in 1 .. Len(l) : l[i] = l[j] => i = j
  BY <1>1
<1>4. {} \in SUBSET K /\ l \in [{} -> V] /\ l \in Seq(K)
  BY <1>1, <1>2
<1> HIDE DEF l
<1>5. WellFormed([list |-> l, cache |-> l], K, V)
  BY <1>3, <1>4, WellFormedIntro
<1> QED BY <1>1, <1>5 DEF EmptyLRU, l

\* As many keys are indexed as the list has elements.
LEMMA CachedCardinality ==
  ASSUME NEW K, NEW V, NEW c, WellFormed(c, K, V)
  PROVE  IsFiniteSet(Cached(c)) /\ Cardinality(Cached(c)) = Len(c.list)
<1> DEFINE l == c.list
           f == [i \in 1 .. Len(l) |-> l[i]]
<1>1. /\ Len(l) \in Nat
      /\ Cached(c) = {l[i] : i \in 1 .. Len(l)}
      /\ \A i, j \in 1 .. Len(l) : l[i] = l[j] => i = j
  BY WellFormedParts
<1> HIDE DEF l
<1>2. f \in Bijection(1 .. Len(l), Cached(c))
  <2>1. f \in [1 .. Len(l) -> Cached(c)]
    BY <1>1
  <2>2. \A i, j \in 1 .. Len(l) : f[i] = f[j] => i = j
    BY <1>1
  <2>3. \A x \in Cached(c) : \E i \in 1 .. Len(l) : f[i] = x
    BY <1>1
  <2> QED BY <2>1, <2>2, <2>3 DEF Bijection, Injection, Surjection, IsInjective
<1>3. ExistsBijection(1 .. Len(l), Cached(c))
  BY <1>2 DEF ExistsBijection
<1> HIDE DEF f
<1>4. IsFiniteSet(1 .. Len(l)) /\ Cardinality(1 .. Len(l)) = Len(l)
  <2>1. 1 \in Int /\ Len(l) \in Int
    BY <1>1
  <2>2. /\ IsFiniteSet(1 .. Len(l))
        /\ Cardinality(1 .. Len(l)) = IF 1 > Len(l) THEN 0 ELSE Len(l) - 1 + 1
    BY <2>1, FS_Interval
  <2> QED BY <1>1, <2>2
<1>5. IsFiniteSet(Cached(c)) /\ Cardinality(Cached(c)) = Cardinality(1 .. Len(l))
  BY <1>3, <1>4, FS_Bijection
<1> QED BY <1>4, <1>5 DEF l

-----------------------------------------------------------------------------
(***************************************************************************)
(* The recency order.                                                      *)
(***************************************************************************)

Before(s, a, b) == \E i, j \in 1 .. Len(s) : i < j /\ s[i] = a /\ s[j] = b

LEMMA UsedAfterIs ==
  ASSUME NEW c
  PROVE  UsedAfter(c) = {p \in Cached(c) \X Cached(c) : Before(c.list, p[1], p[2])}
<1> DEFINE l == c.list
<1>1. ASSUME NEW p \in Cached(c) \X Cached(c)
      PROVE  (\E i, j \in 1 .. Len(l) : i < j /\ p = <<l[i], l[j]>>) <=> Before(l, p[1], p[2])
  BY DEF Before
<1> QED BY <1>1 DEF UsedAfter

LEMMA PushOrder ==
  ASSUME NEW S, NEW s \in Seq(S), NEW k \in S, NEW a, NEW b
  PROVE  Before(<<k>> \o s, a, b) <=>
           Before(s, a, b) \/ (a = k /\ \E j \in 1 .. Len(s) : s[j] = b)
<1> DEFINE p == <<k>> \o s
<1>1. /\ Len(s) \in Nat /\ Len(p) = Len(s) + 1
      /\ \A j \in 1 .. Len(s) + 1 : p[j] = IF j = 1 THEN k ELSE s[j - 1]
  BY PushProperties, LenProperties
<1> HIDE DEF p
<1>2. ASSUME Before(p, a, b)
      PROVE  Before(s, a, b) \/ (a = k /\ \E j \in 1 .. Len(s) : s[j] = b)
  <2>1. PICK i \in 1 .. Len(p), j \in 1 .. Len(p) : i < j /\ p[i] = a /\ p[j] = b
    BY <1>2 DEF Before
  <2>2. j - 1 \in 1 .. Len(s) /\ s[j - 1] = b
    BY <1>1, <2>1
  <2>3. i # 1 => i - 1 \in 1 .. Len(s) /\ s[i - 1] = a /\ i - 1 < j - 1
    BY <1>1, <2>1
  <2>4. i = 1 => a = k
    BY <1>1, <2>1
  <2> QED BY <2>2, <2>3, <2>4 DEF Before
<1>3. ASSUME Before(s, a, b) PROVE Before(p, a, b)
  <2>1. PICK i \in 1 .. Len(s), j \in 1 .. Len(s) : i < j /\ s[i] = a /\ s[j] = b
    BY <1>3 DEF Before
  <2>2. /\ i + 1 \in 1 .. Len(p) /\ j + 1 \in 1 .. Len(p) /\ i + 1 < j + 1
        /\ p[i + 1] = a /\ p[j + 1] = b
    BY <1>1, <2>1
  <2> QED BY <2>2 DEF Before
<1>4. ASSUME a = k, NEW j \in 1 .. Len(s), s[j] = b PROVE Before(p, a, b)
  <2>1. /\ 1 \in 1 .. Len(p) /\ j + 1 \in 1 .. Len(p) /\ 1 < j + 1
        /\ p[1] = a /\ p[j + 1] = b
    BY <1>1, <1>4
  <2> QED BY <2>1 DEF Before
<1> QED BY <1>2, <1>3, <1>4 DEF p

LEMMA RemoveOrder ==
  ASSUME NEW S, NEW s \in Seq(S), NEW e \in 1 .. Len(s),
         \A i, j \in 1 .. Len(s) : s[i] = s[j] => i = j, NEW a, NEW b
  PROVE  Before(RemoveAt(s, e), a, b) <=> Before(s, a, b) /\ a # s[e] /\ b # s[e]
<1> DEFINE r == RemoveAt(s, e)
           old(x) == IF x < e THEN x ELSE x + 1
           new(x) == IF x < e THEN x ELSE x - 1
<1>1. /\ Len(s) \in Nat /\ Len(r) = Len(s) - 1 /\ e \in Nat /\ 1 <= e /\ e <= Len(s)
      /\ \A j \in 1 .. Len(s) - 1 : r[j] = IF j < e THEN s[j] ELSE s[j + 1]
  <2>1. Len(s) \in Nat
    BY LenProperties
  <2>2. e \in Nat /\ 1 <= e /\ e <= Len(s)
    BY <2>1
  <2> QED BY <2>1, <2>2, RemoveAtProperties
<1>2. \A x \in 1 .. Len(r) : /\ old(x) \in 1 .. Len(s) /\ r[x] = s[old(x)] /\ old(x) # e
                             /\ \A y \in 1 .. Len(r) : x < y => old(x) < old(y)
  BY <1>1
<1>3. \A x \in 1 .. Len(s) : x # e =>
        /\ new(x) \in 1 .. Len(r) /\ r[new(x)] = s[x]
        /\ \A y \in 1 .. Len(s) : y # e /\ x < y => new(x) < new(y)
  BY <1>1
<1> HIDE DEF r, old, new
<1>4. ASSUME Before(r, a, b) PROVE Before(s, a, b) /\ a # s[e] /\ b # s[e]
  <2>1. PICK i \in 1 .. Len(r), j \in 1 .. Len(r) : i < j /\ r[i] = a /\ r[j] = b
    BY <1>4 DEF Before
  <2>2. /\ old(i) \in 1 .. Len(s) /\ old(j) \in 1 .. Len(s) /\ old(i) < old(j)
        /\ s[old(i)] = a /\ s[old(j)] = b /\ old(i) # e /\ old(j) # e
    BY <1>2, <2>1
  <2> QED BY <2>2 DEF Before
<1>5. ASSUME Before(s, a, b), a # s[e], b # s[e] PROVE Before(r, a, b)
  <2>1. PICK i \in 1 .. Len(s), j \in 1 .. Len(s) : i < j /\ s[i] = a /\ s[j] = b
    BY <1>5 DEF Before
  <2>2. /\ new(i) \in 1 .. Len(r) /\ new(j) \in 1 .. Len(r) /\ new(i) < new(j)
        /\ r[new(i)] = a /\ r[new(j)] = b
    BY <1>3, <1>5, <2>1
  <2> QED BY <2>2 DEF Before
<1> QED BY <1>4, <1>5 DEF r

\* The order when k has been used last and the keys are K; the order of the keys K alone.
Latest(order, k, K) ==
  {p \in order : p[1] \in K \ {k} /\ p[2] \in K \ {k}} \cup ({k} \X (K \ {k}))

Among(order, K) == {p \in order : p[1] \in K /\ p[2] \in K}

LEMMA SamePairs ==
  ASSUME NEW X, NEW R \in SUBSET (X \X X), NEW Q \in SUBSET (X \X X),
         \A a, b \in X : <<a, b>> \in R <=> <<a, b>> \in Q
  PROVE  R = Q
<1>1. ASSUME NEW p \in X \X X PROVE p \in R <=> p \in Q
  <2>1. PICK a \in X, b \in X : p = <<a, b>>
    OBVIOUS
  <2> QED BY <2>1
<1> QED BY <1>1

LEMMA MoveToFrontOrder ==
  ASSUME NEW K, NEW V, NEW c, WellFormed(c, K, V), NEW k \in Cached(c), NEW a, NEW b
  PROVE  Before(MoveToFront(c.list, k), a, b) <=>
           \/ Before(c.list, a, b) /\ a # k /\ b # k
           \/ a = k /\ b \in Cached(c) \ {k}
<1> DEFINE l == c.list
           e == Element(l, k)
           r == RemoveAt(l, e)
<1>1. /\ l \in Seq(K) /\ Cached(c) \subseteq K /\ Cached(c) = {l[i] : i \in 1 .. Len(l)}
      /\ \A i, j \in 1 .. Len(l) : l[i] = l[j] => i = j
  BY WellFormedParts
<1>2. e \in 1 .. Len(l) /\ l[e] = k
  BY ElementProperties
<1>3. r \in Seq(K)
  BY <1>1, <1>2, RemoveAtProperties
<1>4. {r[i] : i \in 1 .. Len(r)} = Cached(c) \ {k}
  <2>1. WellFormed([list |-> r, cache |-> Reindex(c.cache, Cached(c) \ {l[e]})], K, V)
    BY <1>2, RemoveProperties
  <2>2. Cached([list |-> r, cache |-> Reindex(c.cache, Cached(c) \ {l[e]})]) = Cached(c) \ {k}
    BY <1>2 DEF Cached, Reindex
  <2> HIDE DEF r
  <2> QED BY <2>1, <2>2 DEF WellFormed, IndexMatchesList
<1>5. Before(r, a, b) <=> Before(l, a, b) /\ a # k /\ b # k
  BY <1>1, <1>2, RemoveOrder
<1>6. MoveToFront(l, k) = <<k>> \o r
  BY DEF MoveToFront
<1> HIDE DEF l, e, r
<1>7. Before(<<k>> \o r, a, b) <=> Before(r, a, b) \/ (a = k /\ \E j \in 1 .. Len(r) : r[j] = b)
  BY <1>1, <1>3, PushOrder
<1> QED BY <1>4, <1>5, <1>6, <1>7 DEF l

\* A use makes the key the latest.
LEMMA MoveUsedAfter ==
  ASSUME NEW K, NEW V, NEW c, WellFormed(c, K, V), NEW k \in Cached(c),
         NEW f, DOMAIN f = Cached(c)
  PROVE  UsedAfter([list |-> MoveToFront(c.list, k), cache |-> f]) =
           Latest(UsedAfter(c), k, Cached(c))
<1> DEFINE d == [list |-> MoveToFront(c.list, k), cache |-> f]
<1>1. UsedAfter(d) = {p \in Cached(c) \X Cached(c) : Before(MoveToFront(c.list, k), p[1], p[2])}
  BY UsedAfterIs DEF Cached
<1>2. UsedAfter(c) = {p \in Cached(c) \X Cached(c) : Before(c.list, p[1], p[2])}
  BY UsedAfterIs
<1> HIDE DEF d
<1>3. ASSUME NEW a \in Cached(c), NEW b \in Cached(c)
      PROVE  <<a, b>> \in UsedAfter(d) <=> <<a, b>> \in Latest(UsedAfter(c), k, Cached(c))
  <2>1. <<a, b>> \in UsedAfter(d) <=> Before(MoveToFront(c.list, k), a, b)
    BY <1>1
  <2>2. <<a, b>> \in UsedAfter(c) <=> Before(c.list, a, b)
    BY <1>2
  <2> QED BY <2>1, <2>2, MoveToFrontOrder DEF Latest
<1>4. UsedAfter(d) \subseteq Cached(c) \X Cached(c)
  BY <1>1
<1>5. Latest(UsedAfter(c), k, Cached(c)) \subseteq Cached(c) \X Cached(c)
  BY <1>2 DEF Latest
<1>6. UsedAfter(d) = Latest(UsedAfter(c), k, Cached(c))
  BY <1>3, <1>4, <1>5, SamePairs
<1> QED BY <1>6 DEF d

\* A removal leaves the order of the others.
LEMMA RemoveUsedAfter ==
  ASSUME NEW K, NEW V, NEW c, WellFormed(c, K, V), NEW e \in 1 .. Len(c.list)
  PROVE  LET D == Cached(c) \ {c.list[e]}
         IN  UsedAfter([list |-> RemoveAt(c.list, e), cache |-> Reindex(c.cache, D)]) =
               Among(UsedAfter(c), D)
<1> DEFINE D == Cached(c) \ {c.list[e]}
           d == [list |-> RemoveAt(c.list, e), cache |-> Reindex(c.cache, D)]
<1>0. /\ c.list \in Seq(K)
      /\ \A i, j \in 1 .. Len(c.list) : c.list[i] = c.list[j] => i = j
  BY WellFormedParts
<1>1. UsedAfter(d) = {p \in D \X D : Before(RemoveAt(c.list, e), p[1], p[2])}
  BY UsedAfterIs DEF Cached, Reindex
<1>2. UsedAfter(c) = {p \in Cached(c) \X Cached(c) : Before(c.list, p[1], p[2])}
  BY UsedAfterIs
<1> HIDE DEF d
<1>3. ASSUME NEW a \in D, NEW b \in D
      PROVE  <<a, b>> \in UsedAfter(d) <=> <<a, b>> \in Among(UsedAfter(c), D)
  <2>1. <<a, b>> \in UsedAfter(d) <=> Before(RemoveAt(c.list, e), a, b)
    BY <1>1
  <2>2. <<a, b>> \in UsedAfter(c) <=> Before(c.list, a, b)
    BY <1>2
  <2>3. Before(RemoveAt(c.list, e), a, b) <=> Before(c.list, a, b)
    BY <1>0, RemoveOrder
  <2> QED BY <2>1, <2>2, <2>3 DEF Among
<1>4. UsedAfter(d) \subseteq D \X D
  BY <1>1
<1>5. Among(UsedAfter(c), D) \subseteq D \X D
  BY <1>2 DEF Among
<1>6. UsedAfter(d) = Among(UsedAfter(c), D)
  <2> DEFINE R == UsedAfter(d)
             Q == Among(UsedAfter(c), D)
  <2> HIDE DEF D
  <2>1. \A a, b \in D : <<a, b>> \in R <=> <<a, b>> \in Q
    BY <1>3
  <2>2. R \subseteq D \X D /\ Q \subseteq D \X D
    BY <1>4, <1>5
  <2> HIDE DEF R, Q
  <2>3. R = Q
    BY <2>1, <2>2, SamePairs
  <2> QED BY <2>3 DEF R, Q
<1> QED BY <1>6 DEF d

\* A new key is the latest.
LEMMA PushUsedAfter ==
  ASSUME NEW K, NEW V, NEW c, WellFormed(c, K, V), NEW k \in K \ Cached(c), NEW v \in V
  PROVE  UsedAfter(PushFront(c, k, v)) = Latest(UsedAfter(c), k, Cached(c) \cup {k})
<1> DEFINE d == PushFront(c, k, v)
           D == Cached(c) \cup {k}
<1>0. c.list \in Seq(K) /\ Cached(c) = {c.list[i] : i \in 1 .. Len(c.list)}
  BY WellFormedParts
<1>1. Cached(d) = D /\ d.list = <<k>> \o c.list
  BY DEF PushFront, Cached
<1> HIDE DEF d
<1>2. UsedAfter(d) = {p \in D \X D : Before(<<k>> \o c.list, p[1], p[2])}
  BY <1>1, UsedAfterIs
<1>3. UsedAfter(c) = {p \in Cached(c) \X Cached(c) : Before(c.list, p[1], p[2])}
  BY UsedAfterIs
<1>4. ASSUME NEW a \in D, NEW b \in D
      PROVE  <<a, b>> \in UsedAfter(d) <=> <<a, b>> \in Latest(UsedAfter(c), k, D)
  <2>1. <<a, b>> \in UsedAfter(d) <=> Before(<<k>> \o c.list, a, b)
    BY <1>2
  <2>2. Before(<<k>> \o c.list, a, b) <=> Before(c.list, a, b) \/ (a = k /\ b \in Cached(c))
    BY <1>0, PushOrder
  <2>3. Before(c.list, a, b) => a \in Cached(c) /\ b \in Cached(c)
    BY <1>0 DEF Before
  <2>4. <<a, b>> \in UsedAfter(c) <=> Before(c.list, a, b)
    BY <1>3, <2>3
  <2>5. Cached(c) = D \ {k}
    OBVIOUS
  <2> QED BY <2>1, <2>2, <2>3, <2>4, <2>5 DEF Latest
<1>5. UsedAfter(d) \subseteq D \X D
  BY <1>2
<1>6. Latest(UsedAfter(c), k, D) \subseteq D \X D
  BY <1>3 DEF Latest
<1>7. UsedAfter(d) = Latest(UsedAfter(c), k, D)
  <2> HIDE DEF D
  <2> QED BY <1>4, <1>5, <1>6, SamePairs
<1> QED BY <1>7 DEF d

\* The last element is the key used before all others.
LEMMA LastIsOldest ==
  ASSUME NEW K, NEW V, NEW c, WellFormed(c, K, V), Len(c.list) > 0
  PROVE  LET o == c.list[Len(c.list)]
         IN  /\ o \in Cached(c)
             /\ \A x \in Cached(c) : ~Before(c.list, o, x)
             /\ \A x \in Cached(c) \ {o} : Before(c.list, x, o)
<1> DEFINE l == c.list
           n == Len(l)
<1>1. /\ l \in Seq(K) /\ n \in Nat
      /\ Cached(c) = {l[i] : i \in 1 .. Len(l)}
      /\ \A i, j \in 1 .. Len(l) : l[i] = l[j] => i = j
  BY WellFormedParts
<1>2. n \in 1 .. Len(l) /\ l[n] \in Cached(c)
  BY <1>1
<1> HIDE DEF l, n
<1>3. ASSUME NEW x \in Cached(c) PROVE ~Before(l, l[n], x)
  BY <1>1, <1>2 DEF Before, n
<1>4. ASSUME NEW x \in Cached(c) \ {l[n]} PROVE Before(l, x, l[n])
  <2>1. PICK i \in 1 .. Len(l) : l[i] = x
    BY <1>1
  <2>2. i < n
    BY <1>1, <1>2, <2>1 DEF n
  <2> QED BY <1>2, <2>1, <2>2 DEF Before
<1> QED BY <1>2, <1>3, <1>4 DEF l, n

\* The entry of k joins those of f.
Joined(f, k, v, D) == [x \in D |-> IF x = k THEN v ELSE f[x]]

\* A new entry joins the others when the oldest has left.
LEMMA InsertAfterEviction ==
  ASSUME NEW K, NEW V, NEW c, WellFormed(c, K, V), NEW k \in K \ Cached(c), NEW v \in V, Len(c.list) > 0
  PROVE  LET n == PushFront(EvictOldest(c), k, v)
             D == (Cached(c) \ {c.list[Len(c.list)]}) \cup {k}
         IN  n.cache = Joined(c.cache, k, v, D) /\ UsedAfter(n) = Latest(UsedAfter(c), k, D)
<1> DEFINE D == (Cached(c) \ {c.list[Len(c.list)]}) \cup {k}
<1> DEFINE o == c.list[Len(c.list)]
           E == Cached(c) \ {o}
           r == EvictOldest(c)
<1>1. c.list \in Seq(K) /\ Len(c.list) \in Nat /\ Len(c.list) > 0 /\ c.list # <<>>
  BY WellFormedParts
<1>3. WellFormed(r, K, V) /\ Cached(r) = E
  BY <1>1, EvictKeepsWellFormed
<1>4. r = [list |-> RemoveAt(c.list, Len(c.list)), cache |-> Reindex(c.cache, E)]
  BY DEF EvictOldest
<1>5. Len(c.list) \in 1 .. Len(c.list)
  BY <1>1
<1>6. UsedAfter(r) = Among(UsedAfter(c), E)
  BY <1>4, <1>5, RemoveUsedAfter
<1>7. r.list = RemoveAt(c.list, Len(c.list)) /\ \A x \in E : r.cache[x] = c.cache[x]
  BY <1>4 DEF Reindex
<1> HIDE DEF r, E
<1>8. k \in K \ Cached(r)
  BY <1>3 DEF E
<1>9. UsedAfter(PushFront(r, k, v)) = Latest(UsedAfter(r), k, D)
  <2>1. Cached(r) \cup {k} = D
    BY <1>3 DEF E
  <2> QED BY <1>3, <1>8, <2>1, PushUsedAfter
<1>10. Latest(UsedAfter(r), k, D) = Latest(UsedAfter(c), k, D)
  <2>1. D \ {k} \subseteq E
    BY DEF E
  <2> QED BY <1>6, <2>1 DEF Latest, Among
<1>11. PushFront(r, k, v) =
         [list |-> <<k>> \o r.list, cache |-> [x \in D |-> IF x = k THEN v ELSE r.cache[x]]]
  BY <1>3 DEF PushFront, E
<1>12. [x \in D |-> IF x = k THEN v ELSE r.cache[x]] = [x \in D |-> IF x = k THEN v ELSE c.cache[x]]
  <2>1. \A x \in D : x # k => r.cache[x] = c.cache[x]
    BY <1>7 DEF E
  <2> QED BY <2>1
<1> QED BY <1>9, <1>10, <1>11, <1>12 DEF r, Joined
=============================================================================
