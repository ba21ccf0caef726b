-------------------------- MODULE MCShardedCluster --------------------------
(***************************************************************************)
(* ShardedCluster with two nodes of one entry each that the server has, a  *)
(* third one that it has not, and two connections.                         *)
(***************************************************************************)
EXTENDS ShardedCluster, TLC

CONSTANTS A, B, D, k1, k2, v1, v2

Connections == Permutations(Conn)

MCLayout == [p \in {A, B, D, NoNode} \X {0} |->
               CASE p[1] = D -> 3 [] p[1] = A -> 5 [] p[1] = B -> 7 [] OTHER -> 0]

\* k2 lies before k1 on the ring: of A and B, A owns both; with D, A owns k2 only.
MCFnvHash == [k \in {k1, k2} |-> IF k = k1 THEN 4 ELSE 2]

RoomForOne == [n \in Node |-> 1]

M(c, k, v) == [cmd |-> c, key |-> k, value |-> v]

MCCommand == {M("GET", k1, NoValue), M("SET", k1, v1), M("SET", k1, v2), M("DELETE", k1, NoValue),
              M("SET", k2, v1)}
=============================================================================
