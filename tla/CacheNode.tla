----------------------------- MODULE CacheNode -----------------------------
(***************************************************************************)
(* pkg/node/node.go: the cache nodes of one cluster.  A node's methods     *)
(* hold n.mu for their whole body, shared for the cache operations and     *)
(* exclusively for the status changes, so the test of the status and the   *)
(* cache operation behind it are one step.  (GetInfo, which looks at the   *)
(* cache twice under the shared lock, changes nothing and is left out.)    *)
(* lru is never nil in a node that NewCacheNode returned.  The empty key   *)
(* is left out: Set rejects it and Get and Delete never find it.           *)
(***************************************************************************)
EXTENDS LRUList

CONSTANTS Node, Key, Value,
          Capacity,   \* Capacity[n]: the entries node n can hold
          NoNode      \* the empty string, as a node name

ASSUME NodeAssumption ==
  /\ Capacity \in [Node -> Nat \ {0}]
  /\ NoNode \notin Node

VARIABLES status, masterID, lru

nodeVars == <<status, masterID, lru>>

\* validStatuses.
Status == {"Stopped", "Running", "Master", "Slave"}

Serving(n) == status[n] # "Stopped"

-----------------------------------------------------------------------------

\* The cache operations; a stopped node returns ErrNodeStopped instead.
NodeGet(n, k) == /\ Serving(n)
                 /\ lru' = [lru EXCEPT ![n] = AfterGet(@, k)]
                 /\ UNCHANGED <<status, masterID>>

NodeSet(n, k, v) == /\ Serving(n)
                    /\ lru' = [lru EXCEPT ![n] = AfterSet(@, k, v, Capacity[n])]
                    /\ UNCHANGED <<status, masterID>>

NodeDelete(n, k) == /\ Serving(n)
                    /\ lru' = [lru EXCEPT ![n] = AfterDelete(@, k)]
                    /\ UNCHANGED <<status, masterID>>

SetStatus(n, s) == /\ s \in Status
                   /\ status' = [status EXCEPT ![n] = s]
                   /\ UNCHANGED <<masterID, lru>>

SetMasterID(n, m) == /\ masterID' = [masterID EXCEPT ![n] = m]
                     /\ UNCHANGED <<status, lru>>

\* Start makes a Master or a Slave a plain Running node, too.
Start(n) == SetStatus(n, "Running")

\* Stop keeps the cached data.
Stop(n) == SetStatus(n, "Stopped")

-----------------------------------------------------------------------------

NodeTypeOK ==
  /\ status \in [Node -> Status]
  /\ masterID \in [Node -> Node \cup {NoNode}]
  /\ \A n \in Node : lru[n] \in CacheValues(Key, Value)
=============================================================================
