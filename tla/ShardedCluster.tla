--------------------------- MODULE ShardedCluster ---------------------------
(***************************************************************************)
(* The command handlers of pkg/server/server.go over the ring of pkg/shard *)
(* and the nodes of pkg/node.  A handler asks the ring for the node of its *)
(* key under the ring's lock, lets go of it, and then acts on that node,   *)
(* whatever the ring says by then.  Meanwhile nodes join and leave the     *)
(* ring, stop and start.  s.nodes is what the server was given when it was *)
(* made and never changes: the ring may name a node that is not in it.     *)
(***************************************************************************)
EXTENDS CacheNode

CONSTANTS Conn,
          ServerNodes,   \* the nodes in s.nodes
          StoppingNodes, \* bound: the nodes that are stopped and started
          Command,       \* the [cmd, key, value] the clients send
          NoValue,       \* no value: an empty answer
          VirtualNodes, HashSpace, virtualNodeHash, fnvHash   \* see HashRing

ASSUME ShardedAssumption ==
  /\ ServerNodes \subseteq Node
  /\ StoppingNodes \subseteq ServerNodes
  /\ NoValue \notin Value
  /\ Command \subseteq [cmd : {"GET", "SET", "DELETE"}, key : Key, value : Value \cup {NoValue}]
  /\ \A m \in Command : m.cmd = "SET" => m.value \in Value
  /\ VirtualNodes \in Nat \ {0} /\ HashSpace \in Nat \ {0}
  /\ virtualNodeHash \in [(Node \cup {NoNode}) \X (0 .. VirtualNodes - 1) -> 0 .. HashSpace - 1]
  /\ fnvHash \in [Key -> 0 .. HashSpace - 1]

VARIABLES physicalSet, hashToNode, sortedHashes,
          conn   \* conn[c]: where the handler of connection c is, and its command

Ring == INSTANCE HashRing WITH NodeID <- Node \cup {NoNode}, EmptyID <- NoNode

ring == <<physicalSet, hashToNode, sortedHashes>>

vars == <<nodeVars, ring, conn>>

Reading == [at |-> "reading"]

\* All nodes run and the ring is empty: main adds the server's nodes before it serves
\* (see Joins).  The roles it hands out are left to Replication; all that a command asks
\* of a node is that it has not stopped.
Init == /\ status = [n \in Node |-> "Running"]
        /\ masterID = [n \in Node |-> NoNode]
        /\ lru = [n \in Node |-> EmptyLRU]
        /\ Ring!Init
        /\ conn = [c \in Conn |-> Reading]

Moves(c, s) == conn' = [conn EXCEPT ![c] = s]

Answers(c, answer, v) == Moves(c, [at |-> "answer", status |-> answer, value |-> v])

-----------------------------------------------------------------------------

\* A valid frame has been read.
Receives(c) == /\ conn[c].at = "reading"
               /\ \E m \in Command : Moves(c, [at |-> "route", m |-> m])
               /\ UNCHANGED <<nodeVars, ring>>

\* Faulty variant: the node is used without asking whether the server has it.
RoutesUnchecked(c) ==
  /\ conn[c].at = "route"
  /\ LET n == Ring!GetNode(conn[c].m.key)
     IN  IF n = NoNode THEN Answers(c, "ERROR_INVALID_KEY", NoValue)
         ELSE Moves(c, [at |-> "act", m |-> conn[c].m, node |-> n])
  /\ UNCHANGED <<nodeVars, ring>>

\* ring.GetNode, and the look at s.nodes, which never changes.
Routes(c) ==
  /\ conn[c].at = "route"
  /\ LET n == Ring!GetNode(conn[c].m.key)
     IN  IF n = NoNode \/ n \notin ServerNodes THEN Answers(c, "ERROR_INVALID_KEY", NoValue)
         ELSE Moves(c, [at |-> "act", m |-> conn[c].m, node |-> n])
  /\ UNCHANGED <<nodeVars, ring>>

\* What a stopped node's error becomes.
Refusal(cmd) == IF cmd = "SET" THEN "ERROR_INVALID_VALUE" ELSE "ERROR_UNKNOWN_COMMAND"

\* Faulty variant: the error of node.Set and node.Delete is dropped.
ActsIgnoringErrors(c) ==
  /\ conn[c].at = "act"
  /\ LET n == conn[c].node
         m == conn[c].m
     IN  IF ~Serving(n)
         THEN Answers(c, "SUCCESS", NoValue) /\ UNCHANGED nodeVars
         ELSE \/ /\ m.cmd = "GET"
                 /\ NodeGet(n, m.key)
                 /\ Answers(c, "SUCCESS", IF m.key \in Cached(lru[n]) THEN lru[n].cache[m.key]
                                          ELSE NoValue)
              \/ m.cmd = "SET" /\ NodeSet(n, m.key, m.value) /\ Answers(c, "SUCCESS", NoValue)
              \/ m.cmd = "DELETE" /\ NodeDelete(n, m.key) /\ Answers(c, "SUCCESS", NoValue)
  /\ UNCHANGED ring

\* A miss, a write and a deletion, of a key that is there or not, all answer SUCCESS and
\* no value.
Acts(c) ==
  /\ conn[c].at = "act"
  /\ LET n == conn[c].node
         m == conn[c].m
     IN  IF ~Serving(n)
         THEN Answers(c, Refusal(m.cmd), NoValue) /\ UNCHANGED nodeVars
         ELSE \/ /\ m.cmd = "GET"
                 /\ NodeGet(n, m.key)
                 /\ Answers(c, "SUCCESS", IF m.key \in Cached(lru[n]) THEN lru[n].cache[m.key]
                                          ELSE NoValue)
              \/ m.cmd = "SET" /\ NodeSet(n, m.key, m.value) /\ Answers(c, "SUCCESS", NoValue)
              \/ m.cmd = "DELETE" /\ NodeDelete(n, m.key) /\ Answers(c, "SUCCESS", NoValue)
  /\ UNCHANGED ring

\* The response is written, and the handler reads the next frame.
Responds(c) == /\ conn[c].at = "answer"
               /\ Moves(c, Reading)
               /\ UNCHANGED <<nodeVars, ring>>

-----------------------------------------------------------------------------

\* The ring is shared and its methods are public: nothing ties a change of the ring to
\* the handlers or to s.nodes.
Joins(n) == Ring!AddNode(n) /\ UNCHANGED <<nodeVars, conn>>

Leaves(n) == Ring!RemoveNode(n) /\ UNCHANGED <<nodeVars, conn>>

StartsNode(n) == Start(n) /\ UNCHANGED <<ring, conn>>

StopsNode(n) == Stop(n) /\ UNCHANGED <<ring, conn>>

Next == \/ \E c \in Conn : Receives(c) \/ Routes(c) \/ Acts(c) \/ Responds(c)
        \/ \E n \in Node : Joins(n) \/ Leaves(n)
        \/ \E n \in StoppingNodes : StartsNode(n) \/ StopsNode(n)

Spec == Init /\ [][Next]_vars

-----------------------------------------------------------------------------

\* The type invariant.  A handler acts on a node of the server, never on another one.
TypeOK ==
  /\ NodeTypeOK
  /\ \A c \in Conn :
       \/ conn[c].at = "reading"
       \/ conn[c].at = "route" /\ conn[c].m \in Command
       \/ conn[c].at = "act" /\ conn[c].m \in Command /\ conn[c].node \in ServerNodes
       \/ conn[c].at = "answer" /\ conn[c].value \in Value \cup {NoValue}

OwnerOf == [k \in Key |-> Ring!GetNode(k)]

\* The store that clients see: what each key's owner holds.
Visible ==
  LET owner == OwnerOf
  IN  [k \in {x \in Key : owner[x] # NoNode /\ x \in Cached(lru[owner[x]])} |->
         lru[owner[k]].cache[k]]

Is(m, state) == [is |-> state, cmd |-> m.cmd, key |-> m.key, value |-> m.value]

\* A request is disturbed while the node it was routed to does not own its key.
RequestOf(c) ==
  CASE conn[c].at = "reading" -> [is |-> "none"]
    [] conn[c].at = "route" -> Is(conn[c].m, "waiting")
    [] conn[c].at = "act" ->
         Is(conn[c].m, IF conn[c].node = Ring!GetNode(conn[c].m.key) THEN "waiting"
                       ELSE "disturbed")
    [] conn[c].at = "answer" ->
         [is |-> "done", ok |-> conn[c].status = "SUCCESS", value |-> conn[c].value]

Service == INSTANCE CacheService WITH
             Owner <- Node \cup {NoNode},
             owner <- OwnerOf,
             store <- Visible,
             request <- [c \in Conn |-> RequestOf(c)]

\* The handlers (server.go:325-407) implement the atomic store of CacheService.  Between
\* changes of the ring an answer is what one store would have given, in some order in
\* which each request falls between its arrival and its answer, through evictions and
\* nodes that stop; a change of the ring harms no request but those it catches between
\* ring.GetNode and the node, and no key but those that move.
ImplementsCacheService == Service!SSpec
=============================================================================
