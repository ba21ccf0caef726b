----------------------------- MODULE MCHashRing -----------------------------
(***************************************************************************)
(* HashRing with six nodes of two virtual nodes each on a ring of twenty   *)
(* hashes.  The virtual nodes of n1 to n3 have hashes of their own; of n4, *)
(* n5 and n6 each shares one hash with each of the other two.              *)
(***************************************************************************)
EXTENDS HashRing

CONSTANTS n1, n2, n3, n4, n5, n6, k1, k2

MCNodeID == {n1, n2, n3, n4, n5, n6, EmptyID}

HashesOf(n) == CASE n = n1 -> <<1, 8>> [] n = n2 -> <<3, 12>> [] n = n3 -> <<5, 18>>
                 [] n = n4 -> <<10, 16>> [] n = n5 -> <<16, 19>> [] n = n6 -> <<19, 10>>
                 [] OTHER -> <<0, 2>>

MCLayout == [p \in MCNodeID \X {0, 1} |-> HashesOf(p[1])[p[2] + 1]]

MCFnvHash == [k \in {k1, k2} |-> IF k = k1 THEN 0 ELSE 19]
=============================================================================
