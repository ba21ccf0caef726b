----------------------------- MODULE TCPServer -----------------------------
(***************************************************************************)
(* The life of pkg/server/server.go: the goroutines that call Start and    *)
(* Stop, the accept loops, one handler per connection, and the clients.    *)
(*                                                                         *)
(* A critical section of s.mu is one step; the accept loop reads s.listener *)
(* and the handlers read stopChan without the lock, in steps of their own. *)
(* A request is a bare header, or a header and a body that may arrive      *)
(* later.  What a command does to a node is left to CacheNode; here a node *)
(* is up or stopped.                                                       *)
(***************************************************************************)
EXTENDS Naturals, Sequences, FiniteSets

CONSTANTS Conn,          \* connections: a client dials once
          Admin,         \* goroutines that start and stop the server
          Script,        \* Script[a]: the calls goroutine a makes, in order
          AnyPort,       \* the address has port 0: every Listen finds a free port
          AcceptErrors,  \* Accept may fail on an open listener
          MaxListeners,  \* bound: the times Listen succeeds
          MaxRequests    \* bound, MaxRequests[c]: requests sent on connection c

ASSUME ServerAssumption ==
  /\ IsFiniteSet(Conn)
  /\ Script \in [Admin -> Seq({"start", "stop", "stop-nodes"})]
  /\ AnyPort \in BOOLEAN
  /\ AcceptErrors \in BOOLEAN
  /\ MaxListeners \in Nat
  /\ MaxRequests \in [Conn -> Nat]

\* Listeners, and the accept loop each Start creates, are numbered in order of Listen.
Listener == 1 .. MaxListeners
NoListener == 0

VARIABLES running,   \* s.running
          stopped,   \* stopChan is closed; it is never made anew
          listener,  \* s.listener
          bound,     \* the listeners that are open
          wg,        \* the counter of s.wg
          admin,     \* admin[a]: where the caller is, the calls left, its new listener
          loop,      \* loop[l]: where accept loop l is and the listener it accepts on
          conn,      \* conn[c]: where the connection and its handler are
          wire,      \* wire[c]: what the client has sent and the handler has not read
          client,    \* client[c]: open?, requests sent, and those not answered
          nodesUp,   \* the cache nodes are running
          refused,   \* history: a command has met a stopped node
          crashed    \* the process has panicked

vars == <<running, stopped, listener, bound, wg, admin, loop, conn, wire, client,
          nodesUp, refused, crashed>>

serverVars == <<running, stopped, listener, bound>>
clientVars == <<wire, client>>
nodeVars == <<nodesUp, refused>>

Init == /\ running = FALSE
        /\ stopped = FALSE
        /\ listener = NoListener
        /\ bound = {}
        /\ wg = 0
        /\ admin = [a \in Admin |-> [at |-> "out", calls |-> Script[a], mine |-> NoListener]]
        /\ loop = [l \in Listener |-> [at |-> "none", on |-> NoListener]]
        /\ conn = [c \in Conn |-> [at |-> "new", on |-> NoListener]]
        /\ wire = [c \in Conn |-> <<>>]
        /\ client = [c \in Conn |-> [open |-> FALSE, sent |-> 0, owed |-> 0]]
        /\ nodesUp = TRUE
        /\ refused = FALSE
        /\ crashed = FALSE

-----------------------------------------------------------------------------

\* Goroutine a is about to make this call.
Calls(a, call) == /\ admin[a].at = "out"
                  /\ admin[a].calls # <<>>
                  /\ Head(admin[a].calls) = call

GoOn(a, p) == admin' = [admin EXCEPT ![a].at = p]

Return(a) == admin' = [admin EXCEPT ![a].at = "out", ![a].calls = Tail(@)]

\* main and CreateCluster give up when Start fails, and make no other call.
GiveUp(a) == admin' = [admin EXCEPT ![a].at = "out", ![a].calls = <<>>]

\* A panic ends the process: no goroutine takes a step after one.
NoPanic == ~crashed /\ UNCHANGED crashed

\* wg.Done: the goroutine that takes the counter to zero releases whoever waits.
Done ==
  /\ wg' = wg - 1
  /\ admin' = [a \in Admin |-> IF wg = 1 /\ admin[a].at = "blocked"
                               THEN [admin[a] EXCEPT !.at = "released"] ELSE admin[a]]

-----------------------------------------------------------------------------
(***************************************************************************)
(* Start: look at running, listen with no lock held, publish, spawn.       *)
(***************************************************************************)

StartChecks(a) ==
  /\ Calls(a, "start")
  /\ IF running THEN GiveUp(a) ELSE GoOn(a, "listen")
  /\ UNCHANGED <<serverVars, wg, loop, conn, clientVars, nodeVars>>
  /\ NoPanic

\* Goroutine a has a listener whose accept loop it has not spawned yet.
Holds(a) == admin[a].at \in {"publish", "spawn"}

\* The listeners that no Listen has returned yet.
Unused == {l \in Listener : /\ loop[l].at = "none"
                            /\ \A b \in Admin : Holds(b) => admin[b].mine # l}

\* Faulty variant: a port can be bound twice.
ListenSharing(a) ==
  /\ admin[a].at = "listen"
  /\ \E l \in Unused :
       /\ \A k \in Unused : l <= k
       /\ bound' = bound \cup {l}
       /\ admin' = [admin EXCEPT ![a].at = "publish", ![a].mine = l]
  /\ UNCHANGED <<running, stopped, listener, wg, loop, conn, clientVars, nodeVars>>
  /\ NoPanic

\* Listen fails when the port is taken.
Listen(a) ==
  /\ admin[a].at = "listen"
  /\ IF ~AnyPort /\ bound # {}
     THEN GiveUp(a) /\ UNCHANGED bound
     ELSE \E l \in Unused :
            /\ \A k \in Unused : l <= k
            /\ bound' = bound \cup {l}
            /\ admin' = [admin EXCEPT ![a].at = "publish", ![a].mine = l]
  /\ UNCHANGED <<running, stopped, listener, wg, loop, conn, clientVars, nodeVars>>
  /\ NoPanic

Publish(a) ==
  /\ admin[a].at = "publish"
  /\ listener' = admin[a].mine
  /\ running' = TRUE
  /\ GoOn(a, "spawn")
  /\ UNCHANGED <<stopped, bound, wg, loop, conn, clientVars, nodeVars>>
  /\ NoPanic

Spawn(a) ==
  /\ admin[a].at = "spawn"
  /\ wg' = wg + 1
  /\ loop' = [loop EXCEPT ![admin[a].mine].at = "read"]
  /\ Return(a)
  /\ UNCHANGED <<serverVars, conn, clientVars, nodeVars>>
  /\ NoPanic

-----------------------------------------------------------------------------
(***************************************************************************)
(* Stop: close stopChan and the listener under s.mu, wait without it.      *)
(***************************************************************************)

\* The listener's backlog is reset with it.  Closing stopChan again panics.  Close of the
\* listener fails only when it is closed already (server.go:138-140), which that of a
\* running server never is: Stop alone closes listeners, and sets running to FALSE with it.
StopCloses(a) ==
  /\ ~crashed /\ Calls(a, "stop")
  /\ IF ~running
     THEN Return(a) /\ UNCHANGED <<serverVars, conn, crashed>>
     ELSE /\ crashed' = stopped
          /\ stopped' = TRUE
          /\ running' = FALSE
          /\ bound' = bound \ {listener}
          /\ conn' = [c \in Conn |-> IF conn[c].at = "backlog" /\ conn[c].on = listener
                                     THEN [conn[c] EXCEPT !.at = "gone"] ELSE conn[c]]
          /\ GoOn(a, "wait")
          /\ UNCHANGED listener
  /\ UNCHANGED <<wg, loop, clientVars, nodeVars>>

\* Faulty variant: Stop does not wait for the handlers.
WaitForNobody(a) ==
  /\ admin[a].at = "wait"
  /\ Return(a)
  /\ UNCHANGED <<serverVars, wg, loop, conn, clientVars, nodeVars>>
  /\ NoPanic

Wait(a) ==
  /\ admin[a].at = "wait"
  /\ IF wg = 0 THEN Return(a) ELSE GoOn(a, "blocked")
  /\ UNCHANGED <<serverVars, wg, loop, conn, clientVars, nodeVars>>
  /\ NoPanic

\* A WaitGroup that counts again before Wait has returned panics.
StopReturns(a) ==
  /\ ~crashed /\ admin[a].at = "released"
  /\ crashed' = (wg # 0)
  /\ Return(a)
  /\ UNCHANGED <<serverVars, wg, loop, conn, clientVars, nodeVars>>

\* main.go:143 and Cleanup: the nodes are stopped when Stop has returned.
StopNodes(a) ==
  /\ Calls(a, "stop-nodes")
  /\ nodesUp' = FALSE
  /\ Return(a)
  /\ UNCHANGED <<serverVars, wg, loop, conn, clientVars, refused>>
  /\ NoPanic

-----------------------------------------------------------------------------
(***************************************************************************)
(* The accept loops.                                                       *)
(***************************************************************************)

LoopReadsListener(l) ==
  /\ loop[l].at = "read"
  /\ loop' = [loop EXCEPT ![l] = [at |-> "accept", on |-> listener]]
  /\ UNCHANGED <<serverVars, wg, admin, conn, clientVars, nodeVars>>
  /\ NoPanic

\* wg.Add comes before the handler is spawned, while the loop itself is counted.
LoopAccepts(l) ==
  /\ loop[l].at = "accept"
  /\ \E c \in Conn : /\ conn[c].at = "backlog" /\ conn[c].on = loop[l].on
                     /\ conn' = [conn EXCEPT ![c].at = "check"]
  /\ wg' = wg + 1
  /\ loop' = [loop EXCEPT ![l].at = "read"]
  /\ UNCHANGED <<serverVars, admin, clientVars, nodeVars>>
  /\ NoPanic

\* Any error ends the loop, with s.running as it was.
LoopFails(l) ==
  /\ loop[l].at = "accept"
  /\ AcceptErrors \/ loop[l].on \notin bound
  /\ loop' = [loop EXCEPT ![l].at = "exited"]
  /\ Done
  /\ UNCHANGED <<serverVars, conn, clientVars, nodeVars>>
  /\ NoPanic

-----------------------------------------------------------------------------
(***************************************************************************)
(* The handler of a connection.                                            *)
(***************************************************************************)

Handling(c) == conn[c].at \in {"check", "header", "data", "handle-bare", "handle"}

Moves(c, p) == conn' = [conn EXCEPT ![c].at = p]

\* Faulty variant: a handler that ends forgets wg.Done.
LeavesUncounted(c) == Moves(c, "gone") /\ UNCHANGED <<wg, admin>>

\* The deferred Close and wg.Done.
Leaves(c) == Moves(c, "gone") /\ Done

\* stopChan is looked at between requests only.
HandlerChecks(c) ==
  /\ conn[c].at = "check"
  /\ IF stopped THEN Leaves(c) ELSE Moves(c, "header") /\ UNCHANGED <<wg, admin>>
  /\ UNCHANGED <<serverVars, loop, clientVars, nodeVars>>
  /\ NoPanic

\* ReadFull returns when its bytes are there, or fails when the client has closed.
HandlerReads(c) ==
  /\ conn[c].at \in {"header", "data"}
  /\ IF wire[c] = <<>>
     THEN ~client[c].open /\ Leaves(c) /\ UNCHANGED wire
     ELSE /\ wire' = [wire EXCEPT ![c] = Tail(@)]
          /\ Moves(c, CASE Head(wire[c]) = "bare" -> "handle-bare"
                        [] Head(wire[c]) = "header" -> "data"
                        [] Head(wire[c]) = "body" -> "handle")
          /\ UNCHANGED <<wg, admin>>
  /\ UNCHANGED <<serverVars, loop, client, nodeVars>>
  /\ NoPanic

\* Faulty variant: a frame that is not valid is dropped without a response.
HandlerAnswersValid(c) ==
  /\ conn[c].at \in {"handle-bare", "handle"}
  /\ \E valid \in BOOLEAN :
       /\ refused' = (refused \/ (conn[c].at = "handle" /\ valid /\ ~nodesUp))
       /\ client' = [client EXCEPT ![c].owed = IF valid THEN @ - 1 ELSE @]
  /\ Moves(c, "check")
  /\ UNCHANGED <<serverVars, wg, admin, loop, wire, nodesUp>>
  /\ NoPanic

\* handleRequest answers a frame that is not valid with an error, and dispatches the
\* others to a node (a bare frame, INFO, reads the nodes whether they run or not).  The
\* write of the response may fail when the client has closed.
HandlerAnswers(c) ==
  /\ conn[c].at \in {"handle-bare", "handle"}
  /\ \E valid \in BOOLEAN :
       refused' = (refused \/ (conn[c].at = "handle" /\ valid /\ ~nodesUp))
  /\ client' = [client EXCEPT ![c].owed = @ - 1]
  /\ \/ Moves(c, "check") /\ UNCHANGED <<wg, admin>>
     \/ ~client[c].open /\ Leaves(c)
  /\ UNCHANGED <<serverVars, loop, wire, nodesUp>>
  /\ NoPanic

-----------------------------------------------------------------------------
(***************************************************************************)
(* Clients: they dial, send requests without waiting for the answers, send *)
(* a header and no body, and close at any time.                            *)
(***************************************************************************)

Connect(c) ==
  /\ conn[c].at = "new"
  /\ \E l \in bound : conn' = [conn EXCEPT ![c] = [at |-> "backlog", on |-> l]]
  /\ client' = [client EXCEPT ![c].open = TRUE]
  /\ UNCHANGED <<serverVars, wg, admin, loop, wire, nodeVars>>
  /\ NoPanic

\* The last thing sent is a header whose body has not been sent.
MidRequest(c) ==
  IF wire[c] = <<>> THEN conn[c].at = "data" ELSE wire[c][Len(wire[c])] = "header"

SendHeader(c, part) ==
  /\ client[c].open /\ ~MidRequest(c)
  /\ client[c].sent < MaxRequests[c]
  /\ wire' = [wire EXCEPT ![c] = Append(@, part)]
  /\ client' = [client EXCEPT ![c].sent = @ + 1,
                              ![c].owed = IF part = "bare" THEN @ + 1 ELSE @]
  /\ UNCHANGED <<serverVars, wg, admin, loop, conn, nodeVars>>
  /\ NoPanic

SendBody(c) ==
  /\ client[c].open /\ MidRequest(c)
  /\ wire' = [wire EXCEPT ![c] = Append(@, "body")]
  /\ client' = [client EXCEPT ![c].owed = @ + 1]
  /\ UNCHANGED <<serverVars, wg, admin, loop, conn, nodeVars>>
  /\ NoPanic

ClientCloses(c) ==
  /\ client[c].open
  /\ client' = [client EXCEPT ![c].open = FALSE]
  /\ UNCHANGED <<serverVars, wg, admin, loop, conn, wire, nodeVars>>
  /\ NoPanic

-----------------------------------------------------------------------------

Continues(a) == \/ Listen(a) \/ Publish(a) \/ Spawn(a) \/ Wait(a) \/ StopReturns(a)

Accepting(l) == LoopReadsListener(l) \/ LoopAccepts(l) \/ LoopFails(l)

Serving(c) == HandlerChecks(c) \/ HandlerReads(c) \/ HandlerAnswers(c)

Client(c) == \/ Connect(c) \/ SendBody(c) \/ ClientCloses(c)
             \/ \E part \in {"bare", "header"} : SendHeader(c, part)

Next == \/ \E a \in Admin : StartChecks(a) \/ StopCloses(a) \/ StopNodes(a) \/ Continues(a)
        \/ \E l \in Listener : Accepting(l)
        \/ \E c \in Conn : Serving(c) \/ Client(c)

Spec == Init /\ [][Next]_vars

\* What an accept loop certainly does: on an open listener Accept may wait for ever.
AcceptingDutifully(l) ==
  \/ LoopReadsListener(l) \/ LoopAccepts(l)
  \/ loop[l].on \notin bound /\ LoopFails(l)

\* The Go scheduler runs every runnable goroutine: a call that has begun goes on, the
\* loops and the handlers take the steps they can.  Nothing makes clients send or close, or
\* Accept fail on an open listener.
FairSpec == /\ Spec
            /\ \A a \in Admin : WF_vars(Continues(a))
            /\ \A l \in Listener : WF_vars(AcceptingDutifully(l))
            /\ \A c \in Conn : WF_vars(Serving(c))

-----------------------------------------------------------------------------

AliveLoops == {l \in Listener : loop[l].at \in {"read", "accept"}}

AliveHandlers == {c \in Conn : Handling(c)}

Alive == Cardinality(AliveLoops) + Cardinality(AliveHandlers)

\* The type invariant.  The WaitGroup counts the loops and the handlers that are alive.
TypeOK ==
  /\ running \in BOOLEAN /\ stopped \in BOOLEAN /\ nodesUp \in BOOLEAN
  /\ refused \in BOOLEAN /\ crashed \in BOOLEAN
  /\ listener \in Listener \cup {NoListener}
  /\ bound \subseteq Listener
  /\ wg = Alive
  /\ \A a \in Admin : admin[a].at \in {"out", "listen", "publish", "spawn", "wait",
                                       "blocked", "released"}
  /\ \A c \in Conn : /\ conn[c].at = "gone" \/ conn[c].at \in {"new", "backlog"} \/ Handling(c)
                     /\ client[c].owed \in 0 .. client[c].sent

\* Start looks at s.running and listens in different critical sections (server.go:95-111).
\* On a fixed port an open listener is nevertheless the server's, so that Stop can close
\* it, or belongs to a Start that is about to publish it.
NoListenerLeaks ==
  ~AnyPort => \A l \in bound : l = listener \/ \E a \in Admin : /\ admin[a].at = "publish"
                                                                /\ admin[a].mine = l

\* main stops the nodes once Stop has returned (main.go:138-147), and Stop waits for the
\* handlers (server.go:145): no command of a client meets a stopped node.
NoCommandMeetsStoppedNode == ~refused

\* A request that has arrived whole on a connection that is served gets a response
\* (server.go:272-304), whatever other clients do, unless the connection ends, or a Start
\* in the middle of a Stop makes the WaitGroup panic.
EveryRequestAnswered ==
  \A c \in Conn : (Handling(c) /\ client[c].owed > 0) ~>
                    (client[c].owed = 0 \/ conn[c].at = "gone" \/ ~client[c].open \/ crashed)

InStop(a) == admin[a].at \in {"wait", "blocked", "released"}

\* Stop comes back when the clients have left, as in Cleanup (test_client.go:440-449),
\* which closes every connection first; unless a Start that overlaps with it has put the
\* server to work again meanwhile, whose accept loop Stop then waits for.
StopReturnsOnceClientsLeave ==
  \A a \in Admin : (InStop(a) /\ \A c \in Conn : ~client[c].open) ~>
                     (~InStop(a) \/ (\E c \in Conn : client[c].open) \/ running \/ crashed)

\* How the server's state looks from outside.  Once the process has panicked nobody sees
\* Stop return.
Outside == INSTANCE ConnectionService WITH
  up <- bound # {},
  stop <- IF crashed \/ \E a \in Admin : InStop(a) THEN "waiting"
          ELSE IF stopped THEN "returned" ELSE "no",
  link <- [c \in Conn |-> IF conn[c].at = "new" THEN "none"
                          ELSE IF Handling(c) THEN "served" ELSE conn[c].at],
  client <- [c \in Conn |-> [open |-> client[c].open, owed |-> client[c].owed]]

\* The server keeps what ConnectionService promises a client: a handler ends only when its
\* client has closed or Stop was called, no response goes without a request, and Stop
\* returns when the last handler has ended, on a port of its own.
ImplementsConnectionService == Outside!Spec

\* design.md:410, main.go:127: graceful shutdown through stopChan; Stop comes back.
StopAlwaysReturns == \A a \in Admin : InStop(a) ~> ~InStop(a)
=============================================================================
