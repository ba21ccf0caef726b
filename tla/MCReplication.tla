--------------------------- MODULE MCReplication ---------------------------
(***************************************************************************)
(* Replication on the small clusters of the runs.                          *)
(***************************************************************************)
EXTENDS Replication, TLC

CONSTANTS A, B, C, c1, c2, k1, k2, k3

\* Two callers that share k2, where k1 is the first one's own; callers with all keys.
MixedKeys == [c \in Caller |-> IF c = c1 THEN {k1, k2} ELSE {k2}]
SharedKeys == [c \in Caller |-> Key]

\* The server sends k2 and k3 to A, k1 to B.
MCRoute == [k \in Key |-> IF k = k1 THEN B ELSE A]

RoomForTwo == [n \in Node |-> 2]

\* No operation looks at a value.
Values == Permutations(Value)

OnePair == {<<A, B>>}
SwitchingPairs == {<<A, B>>, <<B, A>>, <<A, C>>}
=============================================================================
