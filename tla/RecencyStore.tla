---------------------------- MODULE RecencyStore ----------------------------
(***************************************************************************)
(* What an LRU cache promises, without a list or an index: a partial map   *)
(* store from keys to values, at most Capacity of them, and the order in   *)
(* which the stored keys were last used (<<a, b>> \in usedAfter when a was *)
(* used after b).  A write of a new key into a full store drops the one    *)
(* key that was used after no other.                                       *)
(***************************************************************************)
EXTENDS Integers, FiniteSets

CONSTANTS Key, Value, EmptyKey, Capacity

VARIABLES store, usedAfter

avars == <<store, usedAfter>>

Stored == DOMAIN store

\* The order after k is used, when the keys stored are then K.
Used(k, K) == {p \in usedAfter : p[1] \in K \ {k} /\ p[2] \in K \ {k}} \cup ({k} \X (K \ {k}))

Kept(K) == {p \in usedAfter : p[1] \in K /\ p[2] \in K}

AInit == store = <<>> /\ usedAfter = {}

ARead(k) == /\ k \in Stored
            /\ usedAfter' = Used(k, Stored)
            /\ UNCHANGED store

AOverwrite(k, v) == /\ k \in Stored
                    /\ store' = [store EXCEPT ![k] = v]
                    /\ usedAfter' = Used(k, Stored)

AWriteWithRoom(k, v) ==
  /\ k \in Key \ (Stored \cup {EmptyKey})
  /\ Cardinality(Stored) < Capacity
  /\ store' = [x \in Stored \cup {k} |-> IF x = k THEN v ELSE store[x]]
  /\ usedAfter' = Used(k, Stored \cup {k})

AWriteWithEviction(k, v) ==
  /\ k \in Key \ (Stored \cup {EmptyKey})
  /\ Cardinality(Stored) = Capacity
  /\ \E oldest \in Stored :
       /\ \A x \in Stored : <<oldest, x>> \notin usedAfter
       /\ LET K == (Stored \ {oldest}) \cup {k}
          IN /\ store' = [x \in K |-> IF x = k THEN v ELSE store[x]]
             /\ usedAfter' = Used(k, K)

ARemove(k) == /\ k \in Stored
              /\ store' = [x \in Stored \ {k} |-> store[x]]
              /\ usedAfter' = Kept(Stored \ {k})

AReset == store' = <<>> /\ usedAfter' = {}

ANext == \/ \E k \in Key : ARead(k) \/ ARemove(k)
         \/ \E k \in Key, v \in Value :
              AOverwrite(k, v) \/ AWriteWithRoom(k, v) \/ AWriteWithEviction(k, v)
         \/ AReset

ASpec == AInit /\ [][ANext]_avars
=============================================================================
