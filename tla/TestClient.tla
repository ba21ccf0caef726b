----------------------------- MODULE TestClient -----------------------------
(***************************************************************************)
(* cmd/test-client: the interactive client, which runs a server of its own *)
(* in its process.  One goroutine (main) obeys commands: it starts the     *)
(* cluster when free mode is first entered, keeps a table of connections,  *)
(* sends requests on the active one, and at the end closes the connections *)
(* and stops the server and its nodes.  The stress command adds goroutines *)
(* with connections of their own, an unsynchronised counter and a channel  *)
(* for their errors.                                                       *)
(*                                                                         *)
(* Of the server the client sees what ConnectionService says.              *)
(***************************************************************************)
EXTENDS Integers, FiniteSets

CONSTANTS MaxConnID,     \* bound: the connections main opens
          MaxBatch,      \* bound: the requests of one batch command
          StressClient,  \* the goroutines of the stress command (numClients)
          OpsPerClient,  \* the operations of each
          NetErrors      \* a dial may fail, and so may both reads of stress

ASSUME ClientAssumption ==
  /\ MaxConnID \in Nat \ {0} /\ MaxBatch \in Nat \ {0}
  /\ IsFiniteSet(StressClient) /\ StressClient # {}
  /\ StressClient \cap Int = {}
  /\ OpsPerClient \in Nat \ {0}
  /\ NetErrors \in BOOLEAN

ConnID == 1 .. MaxConnID
NoConn == 0

\* A connection is named by its number in the table, or by the goroutine that made it.
Conn == ConnID \cup StressClient

VARIABLES up, stop, link, client,   \* see ConnectionService
          nodes,        \* the cluster: "none"; its nodes are all "running", the "first down"
                        \* after lru-evict, or all "stopped"
          main,         \* where main is, and the requests its command has left
          connections,  \* cli.connections: the table, from the number to the peer
          activeConn,   \* cli.activeConn
          nextConnID,   \* cli.nextConnID
          stress,       \* stress[s]: where goroutine s is, what it has left and has read
          successCount, \* the counter the goroutines share
          errCh,        \* the errors in the channel
          broken,       \* the goroutines of stress whose connection broke in a response's body
          acked         \* history: the operations of stress answered with SUCCESS

Service == INSTANCE ConnectionService

serviceVars == <<up, stop, link, client>>
tableVars == <<connections, activeConn, nextConnID>>
stressVars == <<stress, successCount, errCh, broken, acked>>

vars == <<serviceVars, nodes, main, tableVars, stressVars>>

NotStressed == [s \in StressClient |-> [at |-> "none", left |-> OpsPerClient, seen |-> 0]]

Init == /\ Service!Init
        /\ nodes = "none"
        /\ main = [at |-> "menu", left |-> 0]
        /\ connections = <<>>
        /\ activeConn = NoConn
        /\ nextConnID = 1
        /\ stress = NotStressed
        /\ successCount = 0
        /\ errCh = 0
        /\ broken = {}
        /\ acked = 0

-----------------------------------------------------------------------------

MainAt(p) == main.at = p

Goto(p) == main' = [at |-> p, left |-> 0]

Table == DOMAIN connections

\* The connections of the table that go to the cluster's server.
Own == {c \in Table : connections[c] = "cluster"}

-----------------------------------------------------------------------------
(***************************************************************************)
(* Free mode is entered: EnsureCluster, and a connection.                  *)
(***************************************************************************)

\* CreateCluster: the nodes are started before the server is.  On a free port Start does
\* not fail.
CreateCluster == Service!Start /\ nodes' = "running"

\* The cluster is made the first time only.
EnterFreeMode ==
  /\ MainAt("menu")
  /\ IF nodes = "none" THEN CreateCluster ELSE UNCHANGED <<serviceVars, nodes>>
  /\ Goto("dial")
  /\ UNCHANGED <<tableVars, stressVars>>

\* The connection is numbered, entered, and made the active one by the caller.
Enters(peer) ==
  /\ connections' = [k \in Table \cup {nextConnID} |->
                       IF k = nextConnID THEN peer ELSE connections[k]]
  /\ nextConnID' = nextConnID + 1
  /\ activeConn' = nextConnID

\* CreateConnection for the cluster's address.  A dial that fails changes nothing;
\* past the bound every dial fails.
CreateConnection(failed) ==
  \/ /\ nextConnID \in ConnID
     /\ Service!Dial(nextConnID)
     /\ Enters("cluster")
     /\ Goto("free")
  \/ /\ NetErrors \/ nextConnID \notin ConnID
     /\ Goto(failed)
     /\ UNCHANGED <<serviceVars, tableVars>>

\* Connections of earlier visits to free mode are still in the table.
DialFirst == /\ MainAt("dial")
             /\ CreateConnection("menu")
             /\ UNCHANGED <<nodes, stressVars>>

Connect == /\ MainAt("free")
           /\ CreateConnection("free")
           /\ UNCHANGED <<nodes, stressVars>>

\* connect with an address: a server elsewhere, of which nothing is known.
ConnectElsewhere ==
  /\ MainAt("free")
  /\ nextConnID \in ConnID
  /\ Enters("elsewhere")
  /\ UNCHANGED <<serviceVars, nodes, main, stressVars>>

-----------------------------------------------------------------------------
(***************************************************************************)
(* The commands on connections.                                            *)
(***************************************************************************)

Use(id) == /\ MainAt("free")
           /\ id \in Table
           /\ activeConn' = id
           /\ UNCHANGED <<serviceVars, nodes, main, connections, nextConnID, stressVars>>

\* Faulty variant: the connection is closed and removed when it is not the active one; the
\* active one is only removed.
DisconnectForgetting(id) ==
  /\ MainAt("free") /\ id \in Table
  /\ IF id \in Own /\ activeConn # id THEN Service!Close(id) ELSE UNCHANGED serviceVars
  /\ connections' = [k \in Table \ {id} |-> connections[k]]
  /\ activeConn' \in IF activeConn # id THEN {activeConn}
                     ELSE IF Table = {id} THEN {NoConn} ELSE Table \ {id}
  /\ UNCHANGED <<nodes, main, nextConnID, stressVars>>

\* CloseConnection.  When it closes the active one, any of the others is next: Go visits
\* a map in any order.
Disconnect(id) ==
  /\ MainAt("free") /\ id \in Table
  /\ IF id \in Own THEN Service!Close(id) ELSE UNCHANGED serviceVars
  /\ connections' = [k \in Table \ {id} |-> connections[k]]
  /\ activeConn' \in IF activeConn # id THEN {activeConn}
                     ELSE IF Table = {id} THEN {NoConn} ELSE Table \ {id}
  /\ UNCHANGED <<nodes, main, nextConnID, stressVars>>

\* set, get, del and info make one request, the batch commands many, all on the active
\* connection.
Request(n) ==
  /\ MainAt("free")
  /\ activeConn \in Table
  /\ main' = [at |-> "send", left |-> n]
  /\ UNCHANGED <<serviceVars, nodes, tableVars, stressVars>>

SendRequest ==
  /\ MainAt("send")
  /\ IF activeConn \in Own THEN Service!Send(activeConn) ELSE UNCHANGED serviceVars
  /\ main' = [main EXCEPT !.at = "await"]
  /\ UNCHANGED <<nodes, tableVars, stressVars>>

\* The response is read; no deadline is set.  A batch goes on after it, whatever it says.
Receives ==
  /\ MainAt("await")
  /\ activeConn \in Own => client[activeConn].owed = 0
  /\ IF main.left > 1 THEN main' = [at |-> "send", left |-> main.left - 1] ELSE Goto("free")
  /\ UNCHANGED <<serviceVars, nodes, tableVars, stressVars>>

\* A server elsewhere may have gone.  The request fails, and with it the whole batch; the
\* connection stays in the table.
RequestFails ==
  /\ MainAt("send") \/ MainAt("await")
  /\ activeConn \notin Own
  /\ Goto("free")
  /\ UNCHANGED <<serviceVars, nodes, tableVars, stressVars>>

-----------------------------------------------------------------------------
(***************************************************************************)
(* Commands that leave the connections alone.                              *)
(***************************************************************************)

\* lru-evict stops the cluster's first node and leaves it so.  The demonstration uses a
\* node of its own.
LRUEvict == /\ MainAt("free")
            /\ nodes' = "first down"
            /\ UNCHANGED <<serviceVars, main, tableVars, stressVars>>

\* sync gives the nodes it names a role, whatever their status was: the first one serves
\* again.
Sync == /\ MainAt("free")
        /\ nodes' = "running"
        /\ UNCHANGED <<serviceVars, main, tableVars, stressVars>>

Back == /\ MainAt("free")
        /\ Goto("menu")
        /\ UNCHANGED <<serviceVars, nodes, tableVars, stressVars>>

-----------------------------------------------------------------------------
(***************************************************************************)
(* stress: main spawns the goroutines and waits for them (wg.Wait), and    *)
(* only then reads the channel, which has room for one error of each.      *)
(***************************************************************************)

Room == Cardinality(StressClient)

StressOver == \A s \in StressClient : stress[s].at = "over"

\* The goroutines of one stress command have the names, and so the connections, of the
\* last one's: the model waits until those have gone.
StressBegins ==
  /\ MainAt("free")
  /\ \A s \in StressClient : link[s] \in {"none", "gone"}
  /\ stress' = [s \in StressClient |-> [NotStressed[s] EXCEPT !.at = "dial"]]
  /\ Goto("stress")
  /\ UNCHANGED <<serviceVars, nodes, tableVars, successCount, errCh, broken, acked>>

\* What a step of a goroutine leaves alone.
OthersWait == UNCHANGED <<nodes, main, tableVars>>

StressGoto(s, p) == stress' = [stress EXCEPT ![s].at = p]

StressDials(s) ==
  /\ stress[s].at = "dial"
  /\ \/ Service!Dial(s) /\ StressGoto(s, "send")
     \/ NetErrors /\ StressGoto(s, "error") /\ UNCHANGED serviceVars
  /\ UNCHANGED <<successCount, errCh, broken, acked>> /\ OthersWait

\* A write that fails is not noticed: the read that follows fails.
StressSends(s) ==
  /\ stress[s].at = "send"
  /\ Service!Send(s)
  /\ StressGoto(s, "await")
  /\ UNCHANGED <<successCount, errCh, broken, acked>> /\ OthersWait

\* Faulty variant: one operation too many.
NextOpOnceMore(t) == [t EXCEPT !.left = @ - 1, !.at = IF t.left >= 1 THEN "send" ELSE "leave"]

\* An operation is over, and the next one begins.
NextOp(t) == [t EXCEPT !.left = @ - 1, !.at = IF t.left > 1 THEN "send" ELSE "leave"]

\* Faulty variant: the operation is counted whatever its status is.
StressReadsAnyStatus(s) ==
  /\ stress[s].at = "await"
  /\ client[s].owed = 0 /\ s \notin broken
  /\ \E success \in {TRUE, nodes = "running"} : acked' = IF success THEN acked + 1 ELSE acked
  /\ StressGoto(s, "load")
  /\ UNCHANGED <<serviceVars, successCount, errCh, broken>> /\ OthersWait

\* The status is SUCCESS unless the key belongs to the node that lru-evict has stopped.
\* Another status is neither counted nor an error.
StressReads(s) ==
  /\ stress[s].at = "await"
  /\ client[s].owed = 0 /\ s \notin broken
  /\ \E success \in {TRUE, nodes = "running"} :
       IF success THEN acked' = acked + 1 /\ StressGoto(s, "load")
       ELSE stress' = [stress EXCEPT ![s] = NextOp(@)] /\ UNCHANGED acked
  /\ UNCHANGED <<serviceVars, successCount, errCh, broken>> /\ OthersWait

\* The read of the response's header fails.
StressReadFails(s) ==
  /\ NetErrors
  /\ stress[s].at = "await"
  /\ StressGoto(s, "error")
  /\ UNCHANGED <<serviceVars, successCount, errCh, broken, acked>> /\ OthersWait

\* The read of its body fails, and nobody looks at the error.  The buffer's first byte is the
\* zero it was made with, which is SUCCESS.  No later read of the connection succeeds.
StressLosesBody(s) ==
  /\ NetErrors
  /\ stress[s].at = "await"
  /\ client[s].owed = 0 /\ s \notin broken
  /\ broken' = broken \cup {s}
  /\ StressGoto(s, "load")
  /\ UNCHANGED <<serviceVars, successCount, errCh, acked>> /\ OthersWait

\* successCount++ is a load and a store, and nothing orders those of two goroutines.
StressLoads(s) ==
  /\ stress[s].at = "load"
  /\ stress' = [stress EXCEPT ![s].at = "store", ![s].seen = successCount]
  /\ UNCHANGED <<serviceVars, successCount, errCh, broken, acked>> /\ OthersWait

StressStores(s) ==
  /\ stress[s].at = "store"
  /\ successCount' = stress[s].seen + 1
  /\ stress' = [stress EXCEPT ![s] = [NextOp(@) EXCEPT !.seen = 0]]
  /\ UNCHANGED <<serviceVars, errCh, broken, acked>> /\ OthersWait

\* Faulty variant: the channel has room for one error less.
StressReportsInTooSmall(s) ==
  /\ stress[s].at = "error"
  /\ errCh < Room - 1
  /\ errCh' = errCh + 1
  /\ StressGoto(s, "leave")
  /\ UNCHANGED <<serviceVars, successCount, broken, acked>> /\ OthersWait

\* The send blocks when the channel is full.
StressReports(s) ==
  /\ stress[s].at = "error"
  /\ errCh < Room
  /\ errCh' = errCh + 1
  /\ StressGoto(s, "leave")
  /\ UNCHANGED <<serviceVars, successCount, broken, acked>> /\ OthersWait

\* The deferred Close and wg.Done.
StressLeaves(s) ==
  /\ stress[s].at = "leave"
  /\ IF client[s].open THEN Service!Close(s) ELSE UNCHANGED serviceVars
  /\ StressGoto(s, "over")
  /\ UNCHANGED <<successCount, errCh, broken, acked>> /\ OthersWait

\* wg.Wait returns, the report is printed, and the command's variables are gone.
StressReturns ==
  /\ MainAt("stress")
  /\ StressOver
  /\ Goto("free")
  /\ stress' = NotStressed
  /\ successCount' = 0 /\ errCh' = 0 /\ broken' = {} /\ acked' = 0
  /\ UNCHANGED <<serviceVars, nodes, tableVars>>

-----------------------------------------------------------------------------
(***************************************************************************)
(* Cleanup, when the main menu is left.                                    *)
(***************************************************************************)

Quit == /\ MainAt("menu")
        /\ Goto("close")
        /\ UNCHANGED <<serviceVars, nodes, tableVars, stressVars>>

\* The connections of the table are closed one after the other.
CleanupCloses(id) ==
  /\ MainAt("close")
  /\ id \in Own
  /\ Service!Close(id)
  /\ UNCHANGED <<nodes, main, tableVars, stressVars>>

\* Faulty variant: the table is emptied before its connections are closed.
CleanupForgetsFirst ==
  /\ MainAt("close")
  /\ connections' = <<>>
  /\ activeConn' = NoConn
  /\ Goto(IF nodes = "none" THEN "ended" ELSE "stop")
  /\ UNCHANGED <<serviceVars, nodes, nextConnID, stressVars>>

\* The table is emptied.  Without a cluster there is nothing else to do.
CleanupForgets ==
  /\ MainAt("close")
  /\ \A id \in Own : ~client[id].open
  /\ connections' = <<>>
  /\ activeConn' = NoConn
  /\ Goto(IF nodes = "none" THEN "ended" ELSE "stop")
  /\ UNCHANGED <<serviceVars, nodes, nextConnID, stressVars>>

\* Faulty variant: main goes on while Server.Stop still waits.
CleanupStopsServerInBackground ==
  /\ MainAt("stop")
  /\ Service!Stop
  /\ Goto("nodes")
  /\ UNCHANGED <<nodes, tableVars, stressVars>>

\* Server.Stop is called, and comes back.
CleanupStopsServer ==
  /\ MainAt("stop")
  /\ \/ stop = "no" /\ Service!Stop /\ UNCHANGED main
     \/ Service!StopReturns /\ Goto("nodes")
  /\ UNCHANGED <<nodes, tableVars, stressVars>>

CleanupStopsNodes ==
  /\ MainAt("nodes")
  /\ nodes' = "stopped"
  /\ Goto("ended")
  /\ UNCHANGED <<serviceVars, tableVars, stressVars>>

-----------------------------------------------------------------------------

Commands == \/ EnterFreeMode \/ Connect \/ ConnectElsewhere \/ LRUEvict \/ Sync
            \/ Back \/ StressBegins \/ Quit
            \/ \E id \in ConnID : Use(id) \/ Disconnect(id)
            \/ \E n \in 1 .. MaxBatch : Request(n)

\* What main goes on with by itself, once a command has been typed.
Continues == \/ DialFirst \/ SendRequest \/ Receives \/ StressReturns
             \/ CleanupForgets \/ CleanupStopsServer \/ CleanupStopsNodes
             \/ \E id \in ConnID : CleanupCloses(id)

Stresses(s) == \/ StressDials(s) \/ StressSends(s) \/ StressReads(s) \/ StressLoads(s)
               \/ StressStores(s) \/ StressReports(s) \/ StressLeaves(s)

\* The network fails a goroutine.
StressFails(s) == StressReadFails(s) \/ StressLosesBody(s)

\* The server's side of a connection.
Serves(c) == /\ Service!Accept(c) \/ Service!Answer(c) \/ Service!End(c)
             /\ UNCHANGED <<nodes, main, tableVars, stressVars>>

Next == \/ Commands \/ Continues \/ RequestFails
        \/ \E s \in StressClient : Stresses(s) \/ StressFails(s)
        \/ \E c \in Conn : Serves(c)

Spec == Init /\ [][Next]_vars

\* What the server certainly does: of an open connection it may never see that it should
\* stop.
ServesDutifully(c) == Serves(c) /\ (client[c].open => link'[c] # "gone")

\* What a goroutine of stress certainly does: a read of a broken connection fails.
StressesDutifully(s) == Stresses(s) \/ (s \in broken /\ StressReadFails(s))

\* What goes on by itself: main in the middle of a command, unless it waits for a server
\* elsewhere, the goroutines of stress, and the server's (TCPServer's EveryRequestAnswered
\* and StopReturnsOnceClientsLeave).
GoesOn == \/ Continues /\ (MainAt("await") => activeConn \in Own)
          \/ \E s \in StressClient : StressesDutifully(s)
          \/ \E c \in Conn : ServesDutifully(c)

\* As long as any of the goroutines can go on, one of them does: less than the scheduler
\* gives.  Nothing makes the user type or a connection break.
FairSpec == Spec /\ WF_vars(GoesOn)

-----------------------------------------------------------------------------

\* The type invariant.
TypeOK ==
  /\ up \in BOOLEAN /\ stop \in {"no", "waiting", "returned"}
  /\ link \in [Conn -> {"none", "backlog", "served", "gone"}]
  /\ client \in [Conn -> [open : BOOLEAN, owed : Nat]]
  /\ nodes \in {"none", "running", "first down", "stopped"}
  /\ main \in [at : {"menu", "dial", "free", "send", "await", "stress", "close", "stop",
                     "nodes", "ended"},
               left : 0 .. MaxBatch]
  /\ nextConnID \in 1 .. MaxConnID + 1
  /\ connections \in [Table -> {"cluster", "elsewhere"}] /\ Table \subseteq 1 .. nextConnID - 1
  /\ activeConn \in ConnID \cup {NoConn}
  /\ stress \in [StressClient ->
       [at : {"none", "dial", "send", "await", "load", "store", "error", "leave", "over"},
        left : 0 .. OpsPerClient, seen : Nat]]
  /\ successCount \in Nat /\ errCh \in 0 .. Room
  /\ broken \subseteq StressClient /\ acked \in Nat

\* Every open connection to the own server can be found again, to be used and closed
\* (test_client.go:462-511, free_mode.go:739-744): it is in the table, or its goroutine of
\* stress is at work.  Every connection of the table is open until Cleanup closes it, and
\* while there is one the active connection is one of them.
TableMatchesConnections ==
  /\ \A id \in ConnID : client[id].open => id \in Own
  /\ \A s \in StressClient :
       client[s].open => MainAt("stress") /\ stress[s].at \notin {"none", "dial", "over"}
  /\ \A id \in Own : client[id].open \/ MainAt("close")
  /\ activeConn \in Table \/ Table = {}

\* No handler runs on stopped nodes, and when the client ends (main.go:34-37,
\* test_client.go:440-457) nothing of the cluster is left: no connection at either end, no
\* request without its answer, no listener.
CleanupLeavesNothing ==
  /\ nodes = "stopped" => \A c \in Conn : link[c] # "served"
  /\ MainAt("ended") => /\ ~up
                        /\ nodes \in {"none", "stopped"}
                        /\ \A c \in Conn : ~client[c].open /\ link[c] \in {"none", "gone"}

\* The goroutines that gave up before their last operation.
GaveUp == {s \in StressClient : stress[s].left > 0}

\* The operations that stress takes for successful: those answered with SUCCESS, and one for
\* each goroutine that lost a response's body.
Taken == acked + Cardinality(broken)

\* What stress reports (free_mode.go:767-780).  A goroutine that gave up is one error in the
\* report.  The counter loses increments, but shows no more operations than stress takes for
\* successful, and shows some if there are any.  If no error is reported and all nodes run,
\* every operation was taken for successful, whatever the counter shows.
StressReport ==
  MainAt("stress") /\ StressOver =>
    /\ errCh = Cardinality(GaveUp)
    /\ successCount <= Taken
    /\ Taken > 0 => successCount > 0
    /\ errCh = 0 /\ nodes = "running" => Taken = Cardinality(StressClient) * OpsPerClient

\* stress comes back (free_mode.go:732-767): no goroutine waits for a response or at the
\* channel for ever.
StressEnds == MainAt("stress") ~> MainAt("free")

\* Cleanup comes back, whatever the user has done before: it closes the connections before
\* Server.Stop waits for their handlers (test_client.go:441-449), and knows them all.
CleanupReturns == MainAt("close") ~> MainAt("ended")
=============================================================================
