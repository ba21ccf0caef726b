---------------------------- MODULE MCTestClient ----------------------------
(***************************************************************************)
(* TestClient with a few connections of the table and goroutines of stress. *)
(***************************************************************************)
EXTENDS TestClient

CONSTANTS s1, s2
=============================================================================
