-------------------------- MODULE TestClientProofs --------------------------
(***************************************************************************)
(* Theorems about TestClient for any number of connections, of goroutines  *)
(* of stress and of their operations.                                      *)
(***************************************************************************)
EXTENDS TestClient, FiniteSetTheorems, TLAPS

MainPoint == {"menu", "dial", "free", "send", "await", "stress", "close", "stop", "nodes",
              "ended"}

\* Where a goroutine of stress still has an operation to make, or gives up in one.
InOperation == {"dial", "send", "await", "load", "store", "error"}

StressPoint == {"none", "leave", "over"} \cup InOperation

-----------------------------------------------------------------------------
(***************************************************************************)
(* The inductive invariant, part by part.                                  *)
(***************************************************************************)

ServiceTyped ==
  /\ up \in BOOLEAN
  /\ stop \in {"no", "waiting", "returned"}
  /\ link \in [Conn -> {"none", "backlog", "served", "gone"}]
  /\ client \in [Conn -> [open : BOOLEAN, owed : Nat]]

MainTyped ==
  /\ nodes \in {"none", "running", "first down", "stopped"}
  /\ main \in [at : MainPoint, left : 0 .. MaxBatch]

TableTyped ==
  /\ nextConnID \in 1 .. MaxConnID + 1
  /\ connections \in [Table -> {"cluster", "elsewhere"}]
  /\ Table \subseteq 1 .. nextConnID - 1
  /\ activeConn \in ConnID \cup {NoConn}

\* A goroutine in the middle of an operation has one left.
StressTyped ==
  /\ stress \in [StressClient -> [at : StressPoint, left : 0 .. OpsPerClient, seen : Nat]]
  /\ \A s \in StressClient : stress[s].at \in InOperation => stress[s].left > 0
  /\ successCount \in Nat /\ errCh \in Nat
  /\ broken \subseteq StressClient /\ acked \in Nat

\* What main's progress says of the cluster: before it is made there is no server, when
\* Stop has been called nothing waits to be accepted, and when it has come back nothing is
\* served.
PhasesOK ==
  /\ nodes = "none" => /\ main.at \in {"menu", "close", "ended"}
                       /\ ~up /\ stop = "no"
                       /\ \A c \in Conn : link[c] = "none"
  /\ nodes = "stopped" => stop = "returned" /\ MainAt("ended")
  /\ stop # "no" => /\ ~up
                    /\ main.at \in {"stop", "nodes", "ended"}
                    /\ \A c \in Conn : link[c] # "backlog"
  /\ stop = "returned" => \A c \in Conn : link[c] # "served"
  /\ MainAt("nodes") => stop = "returned"
  /\ MainAt("ended") => nodes \in {"none", "stopped"}

TableEmptied == main.at \in {"stop", "nodes", "ended"} => Table = {}

\* The goroutines of stress are there while main waits for them.
StressPhase ==
  /\ MainAt("stress") => \A s \in StressClient : stress[s].at # "none"
  /\ ~MainAt("stress") => /\ stress = NotStressed
                          /\ successCount = 0 /\ errCh = 0 /\ broken = {} /\ acked = 0

\* The goroutines whose error is in the channel, those between an answer taken for SUCCESS and
\* the store of the counter, and the operations that are over, with the one about to be counted.
Reported(t) == {s \in StressClient : t[s].at \in {"leave", "over"} /\ t[s].left > 0}

InFlight(t) == {s \in StressClient : t[s].at \in {"load", "store"}}

Progress(r) == OpsPerClient - r.left + (IF r.at \in {"load", "store"} THEN 1 ELSE 0)

Op == StressClient \X (1 .. OpsPerClient)

DoneOps(t) == {p \in Op : p[2] <= Progress(t[p[1]])}

ErrorsCounted == errCh = Cardinality(Reported(stress))

\* A goroutine that has answers to count has not counted them yet: what it may store is at
\* most what is taken for successful without them.
SuccessesCounted ==
  /\ successCount + Cardinality(InFlight(stress)) <= Taken
  /\ \A s \in StressClient : stress[s].at = "store" =>
       stress[s].seen + Cardinality(InFlight(stress)) <= Taken
  /\ Taken > 0 /\ InFlight(stress) = {} => successCount > 0

AnswersCounted == nodes = "running" => Taken = Cardinality(DoneOps(stress))

Typed == ServiceTyped /\ MainTyped /\ TableTyped /\ StressTyped

Counted == ErrorsCounted /\ SuccessesCounted /\ AnswersCounted

IInv == Typed /\ PhasesOK /\ TableMatchesConnections /\ TableEmptied /\ StressPhase /\ Counted
-----------------------------------------------------------------------------
(***************************************************************************)
(* The types.                                                              *)
(***************************************************************************)

LEMMA Batches == /\ \A n \in 1 .. MaxBatch : n \in 0 .. MaxBatch
                 /\ \A n \in 0 .. MaxBatch : n > 1 => n - 1 \in 0 .. MaxBatch
  BY ClientAssumption

LEMMA Names == /\ \A id \in ConnID : id \in Conn /\ id \in Int /\ id # NoConn
               /\ \A s \in StressClient : s \in Conn /\ s \notin ConnID
  BY ClientAssumption DEF Conn, ConnID, NoConn

\* What happens to the service is a step of its specification.
ServiceStep == Service!Next \/ UNCHANGED serviceVars

LEMMA ServiceTypedKept == ServiceTyped /\ ServiceStep => ServiceTyped'
  <1> SUFFICES ASSUME ServiceTyped, ServiceStep  PROVE ServiceTyped'
    OBVIOUS
  <1> USE DEF ServiceTyped
  <1>1. CASE UNCHANGED serviceVars
    BY <1>1 DEF serviceVars
  <1>2. CASE Service!Start
    BY <1>2 DEF Service!Start
  <1>3. CASE Service!Stop
    BY <1>3 DEF Service!Stop
  <1>4. CASE Service!StopReturns
    BY <1>4 DEF Service!StopReturns
  <1>5. ASSUME NEW c \in Conn, Service!Dial(c)  PROVE ServiceTyped'
    BY <1>5 DEF Service!Dial
  <1>6. ASSUME NEW c \in Conn, Service!Send(c)  PROVE ServiceTyped'
    BY <1>6 DEF Service!Send
  <1>7. ASSUME NEW c \in Conn, Service!Close(c)  PROVE ServiceTyped'
    BY <1>7 DEF Service!Close
  <1>8. ASSUME NEW c \in Conn, Service!Accept(c)  PROVE ServiceTyped'
    BY <1>8 DEF Service!Accept
  <1>9. ASSUME NEW c \in Conn, Service!Answer(c)  PROVE ServiceTyped'
    BY <1>9 DEF Service!Answer
  <1>10. ASSUME NEW c \in Conn, Service!End(c)  PROVE ServiceTyped'
    BY <1>10 DEF Service!End
  <1> QED
    BY <1>1, <1>2, <1>3, <1>4, <1>5, <1>6, <1>7, <1>8, <1>9, <1>10
    DEF ServiceStep, Service!Next

\* A step of main that concerns no goroutine of stress.
MainStep == \/ EnterFreeMode \/ DialFirst \/ Connect \/ ConnectElsewhere \/ LRUEvict \/ Sync
            \/ Back \/ Quit \/ SendRequest \/ Receives \/ RequestFails
            \/ CleanupForgets \/ CleanupStopsServer \/ CleanupStopsNodes
            \/ \E id \in ConnID : Use(id) \/ Disconnect(id) \/ CleanupCloses(id)
            \/ \E n \in 1 .. MaxBatch : Request(n)

LEMMA NextCases ==
  ASSUME Next
  PROVE  \/ MainStep \/ StressBegins \/ StressReturns
         \/ \E s \in StressClient : Stresses(s) \/ StressFails(s)
         \/ \E c \in Conn : Serves(c)
  BY DEF Next, Commands, Continues, MainStep

LEMMA MainStepIsServiceStep ==
  ASSUME MainStep, Typed  PROVE ServiceStep
  <1> USE Names DEF ServiceStep, Service!Next, Typed, TableTyped
  <1>1. CASE EnterFreeMode
    BY <1>1 DEF EnterFreeMode, CreateCluster
  <1>2. CASE DialFirst \/ Connect
    BY <1>2 DEF DialFirst, Connect, CreateConnection
  <1>3. CASE SendRequest
    BY <1>3 DEF SendRequest, Own, ConnID, NoConn
  <1>4. CASE CleanupStopsServer
    BY <1>4 DEF CleanupStopsServer
  <1>5. ASSUME NEW id \in ConnID, Disconnect(id) \/ CleanupCloses(id)  PROVE ServiceStep
    BY <1>5 DEF Disconnect, CleanupCloses
  <1>6. CASE \/ ConnectElsewhere \/ LRUEvict \/ Sync \/ Back \/ Quit \/ Receives
             \/ RequestFails \/ CleanupForgets \/ CleanupStopsNodes
             \/ \E id \in ConnID : Use(id)
             \/ \E n \in 1 .. MaxBatch : Request(n)
    BY <1>6 DEF ConnectElsewhere, LRUEvict, Sync, Back, Quit, Receives, RequestFails,
       CleanupForgets, CleanupStopsNodes, Use, Request
  <1> QED
    BY <1>1, <1>2, <1>3, <1>4, <1>5, <1>6 DEF MainStep

LEMMA StressStepIsServiceStep ==
  ASSUME NEW s \in StressClient, Stresses(s) \/ StressFails(s)  PROVE ServiceStep
  <1> USE Names DEF ServiceStep, Service!Next
  <1>1. CASE StressDials(s) \/ StressSends(s) \/ StressLeaves(s)
    BY <1>1 DEF StressDials, StressSends, StressLeaves
  <1>2. CASE \/ StressReads(s) \/ StressFails(s) \/ StressLoads(s) \/ StressStores(s)
             \/ StressReports(s)
    BY <1>2 DEF StressReads, StressFails, StressReadFails, StressLosesBody, StressLoads,
       StressStores, StressReports
  <1> QED
    BY <1>1, <1>2 DEF Stresses

LEMMA NextIsServiceStep ==
  ASSUME [Next]_vars, Typed  PROVE ServiceStep
  <1>1. CASE StressBegins \/ StressReturns
    BY <1>1 DEF StressBegins, StressReturns, ServiceStep
  <1>2. ASSUME NEW c \in Conn, Serves(c)  PROVE ServiceStep
    BY <1>2 DEF Serves, ServiceStep, Service!Next
  <1>3. CASE UNCHANGED vars
    BY <1>3 DEF vars, ServiceStep
  <1> QED
    BY <1>1, <1>2, <1>3, NextCases, MainStepIsServiceStep, StressStepIsServiceStep
\* What the steps of the others leave to main.
LEMMA MainsAlone ==
  /\ \A s \in StressClient : Stresses(s) \/ StressFails(s) => UNCHANGED <<nodes, main, tableVars>>
  /\ \A c \in Conn : Serves(c) => UNCHANGED <<nodes, main, tableVars, stressVars>>
  /\ StressBegins \/ StressReturns => UNCHANGED <<serviceVars, nodes, tableVars>>
  BY DEF Stresses, StressDials, StressSends, StressReads, StressFails, StressReadFails,
     StressLosesBody, StressLoads, StressStores, StressReports, StressLeaves, OthersWait, Serves, StressBegins, StressReturns

\* main's own commands leave the goroutines alone, and do not wait for them.
LEMMA MainStepLeavesStress ==
  MainStep => UNCHANGED stressVars /\ ~MainAt("stress") /\ ~MainAt("stress")'
  <1>1. CASE EnterFreeMode \/ DialFirst \/ Connect
    BY <1>1 DEF EnterFreeMode, DialFirst, Connect, CreateConnection, MainAt, Goto
  <1>2. CASE SendRequest \/ Receives \/ RequestFails
    <2>1. CASE SendRequest
      BY <2>1 DEF SendRequest, MainAt
    <2>2. CASE Receives \/ RequestFails
      BY <2>2 DEF Receives, RequestFails, MainAt, Goto
    <2> QED
      BY <1>2, <2>1, <2>2
  <1>3. CASE ConnectElsewhere \/ LRUEvict \/ Sync
    BY <1>3 DEF ConnectElsewhere, LRUEvict, Sync, MainAt
  <1>7. CASE Back \/ Quit \/ CleanupStopsNodes
    BY <1>7 DEF Back, Quit, CleanupStopsNodes, MainAt, Goto
  <1>6. CASE CleanupForgets \/ CleanupStopsServer
    BY <1>6 DEF CleanupForgets, CleanupStopsServer, MainAt, Goto
  <1>4. ASSUME NEW id \in ConnID, Use(id) \/ Disconnect(id) \/ CleanupCloses(id)
        PROVE  UNCHANGED stressVars /\ ~MainAt("stress") /\ ~MainAt("stress")'
    BY <1>4 DEF Use, Disconnect, CleanupCloses, MainAt
  <1>5. ASSUME NEW n \in 1 .. MaxBatch, Request(n)
        PROVE  UNCHANGED stressVars /\ ~MainAt("stress") /\ ~MainAt("stress")'
    BY <1>5 DEF Request, MainAt
  <1> QED
    BY <1>1, <1>2, <1>3, <1>4, <1>5, <1>6, <1>7 DEF MainStep

LEMMA GotoTyped ==
  ASSUME NEW p \in MainPoint, Goto(p)
  PROVE  main' \in [at : MainPoint, left : 0 .. MaxBatch] /\ main'.at = p
  BY ClientAssumption DEF Goto

\* Where main may go, and what may become of the nodes.
LEMMA MainTypedKept ==
  ASSUME Typed, [Next]_vars  PROVE MainTyped'
  <1> USE DEF Typed, MainTyped
  <1> DEFINE Mains == [at : MainPoint, left : 0 .. MaxBatch]
  <1>0. \A p \in MainPoint : Goto(p) => main' \in Mains
    BY GotoTyped
  <1>p. /\ "menu" \in MainPoint /\ "dial" \in MainPoint /\ "free" \in MainPoint
        /\ "stress" \in MainPoint /\ "close" \in MainPoint /\ "stop" \in MainPoint
        /\ "nodes" \in MainPoint /\ "ended" \in MainPoint
        /\ "send" \in MainPoint /\ "await" \in MainPoint
    BY DEF MainPoint
  <1> HIDE DEF Mains
  <1>m. /\ main \in Mains
        /\ nodes \in {"none", "running", "first down", "stopped"}
    BY DEF Mains
  <1> SUFFICES main' \in Mains /\ nodes' \in {"none", "running", "first down", "stopped"}
    BY DEF Mains
  <1>1. CASE EnterFreeMode \/ DialFirst \/ Connect
    BY <1>0, <1>p, <1>m, <1>1 DEF EnterFreeMode, CreateCluster, DialFirst, Connect, CreateConnection
  <1>2. CASE SendRequest
    <2>1. main' \in Mains
      BY <1>p, <1>2 DEF SendRequest, Mains
    <2> QED
      BY <2>1, <1>m, <1>2 DEF SendRequest
  <1>3. CASE Receives
    <2>1. CASE main.left > 1
      <3>1. main' = [at |-> "send", left |-> main.left - 1]
        BY <1>3, <2>1 DEF Receives
      <3>2. main.left - 1 \in 0 .. MaxBatch
        BY <1>m, <2>1, Batches DEF Mains
      <3>3. main' \in Mains
        BY <3>1, <3>2, <1>p DEF Mains
      <3> QED
        BY <3>3, <1>m, <1>3 DEF Receives
    <2> QED
      BY <2>1, <1>0, <1>p, <1>m, <1>3 DEF Receives
  <1>4. CASE RequestFails \/ Back \/ Quit \/ CleanupForgets \/ CleanupStopsServer
             \/ CleanupStopsNodes
    BY <1>0, <1>p, <1>m, <1>4 DEF RequestFails, Back, Quit, CleanupForgets, CleanupStopsServer,
       CleanupStopsNodes
  <1>5. CASE ConnectElsewhere \/ LRUEvict \/ Sync
    BY <1>m, <1>5 DEF ConnectElsewhere, LRUEvict, Sync
  <1>6. ASSUME NEW id \in ConnID, Use(id) \/ Disconnect(id) \/ CleanupCloses(id)
        PROVE  main' \in Mains /\ nodes' \in {"none", "running", "first down", "stopped"}
    BY <1>m, <1>6 DEF Use, Disconnect, CleanupCloses
  <1>7. ASSUME NEW n \in 1 .. MaxBatch, Request(n)
        PROVE  main' \in Mains /\ nodes' \in {"none", "running", "first down", "stopped"}
    <2>1. main' \in Mains
      <3>1. main' = [at |-> "send", left |-> n]
        BY <1>7 DEF Request
      <3>2. n \in 0 .. MaxBatch
        BY Batches
      <3> QED
        BY <3>1, <3>2, <1>p DEF Mains
    <2> QED
      BY <2>1, <1>m, <1>7 DEF Request
  <1>8. CASE StressBegins \/ StressReturns
    BY <1>0, <1>p, <1>m, <1>8 DEF StressBegins, StressReturns
  <1>9. CASE UNCHANGED vars
    BY <1>m, <1>9 DEF vars
  <1> QED
    BY <1>1, <1>2, <1>3, <1>4, <1>5, <1>6, <1>7, <1>8, <1>9, <1>m, NextCases, MainsAlone DEF MainStep

-----------------------------------------------------------------------------
(***************************************************************************)
(* The table and its connections.                                          *)
(***************************************************************************)

TableOK == TableTyped /\ TableMatchesConnections /\ TableEmptied

\* A connection enters under a new number, and becomes the active one.
LEMMA EntersTable ==
  ASSUME TableTyped, nextConnID \in ConnID, NEW peer \in {"cluster", "elsewhere"}, Enters(peer)
  PROVE  /\ TableTyped'
         /\ Table' = Table \cup {nextConnID} /\ nextConnID \notin Table
         /\ Own' = IF peer = "cluster" THEN Own \cup {nextConnID} ELSE Own
         /\ activeConn' = nextConnID
  <1> USE ClientAssumption DEF Enters, TableTyped, ConnID, NoConn
  <1>1. Table' = Table \cup {nextConnID} /\ nextConnID \notin Table
    BY DEF Table
  <1>2. TableTyped'
    BY <1>1 DEF Table
  <1>3. \A c \in Table : connections'[c] = connections[c]
    BY <1>1 DEF Table
  <1>4. connections'[nextConnID] = peer
    BY DEF Table
  <1>5. Own' = {c \in Table \cup {nextConnID} : connections'[c] = "cluster"}
    BY <1>1 DEF Own
  <1> QED
    BY <1>1, <1>2, <1>3, <1>4, <1>5 DEF Own

\* CloseConnection takes one connection out, and moves the active one off it.
LEMMA LeavesTable ==
  ASSUME TableTyped, NEW id \in Table,
         connections' = [k \in Table \ {id} |-> connections[k]],
         activeConn' \in IF activeConn # id THEN {activeConn}
                         ELSE IF Table = {id} THEN {NoConn} ELSE Table \ {id},
         UNCHANGED nextConnID, activeConn \in Table \/ Table = {}
  PROVE  /\ TableTyped'
         /\ Table' = Table \ {id} /\ Own' = Own \ {id}
         /\ activeConn' \in Table' \/ Table' = {}
  <1> USE ClientAssumption DEF TableTyped, ConnID, NoConn
  <1>1. Table' = Table \ {id}
    BY DEF Table
  <1>2. TableTyped'
    BY <1>1 DEF Table
  <1>3. Own' = Own \ {id}
    BY <1>1 DEF Own
  <1> QED
    BY <1>1, <1>2, <1>3
\* Of a step that neither opens nor closes a connection nor touches the table.
LEMMA TableUntouched ==
  ASSUME TableOK, UNCHANGED tableVars,
         \A c \in Conn : client'[c].open = client[c].open,
         \/ UNCHANGED <<main, stress>>
         \/ /\ ~MainAt("stress") /\ ~MainAt("stress")' /\ ~MainAt("close")
            /\ main'.at \in {"stop", "nodes", "ended"} => main.at \in {"stop", "nodes", "ended"}
  PROVE  TableOK'
  <1> USE DEF TableOK, tableVars
  <1>1. Table' = Table /\ Own' = Own
    BY DEF Table, Own
  <1>2. TableTyped'
    BY <1>1 DEF TableTyped
  <1>3. TableEmptied'
    BY <1>1 DEF TableEmptied, MainAt
  <1>4. TableMatchesConnections'
    <2>1. \A id \in ConnID : client'[id].open => id \in Own'
      BY <1>1, Names DEF TableMatchesConnections
    <2>2. \A s \in StressClient :
            client'[s].open => MainAt("stress")' /\ stress'[s].at \notin {"none", "dial", "over"}
      BY Names DEF TableMatchesConnections, MainAt
    <2>3. \A id \in Own : id \in Conn
      BY Names, ClientAssumption DEF TableTyped, Own, ConnID
    <2>4. \A id \in Own' : client'[id].open \/ MainAt("close")'
      BY <1>1, <2>3 DEF TableMatchesConnections, MainAt
    <2>5. activeConn' \in Table' \/ Table' = {}
      BY <1>1 DEF TableMatchesConnections
    <2> QED
      BY <2>1, <2>2, <2>4, <2>5 DEF TableMatchesConnections
  <1> QED
    BY <1>2, <1>3, <1>4

\* CreateConnection: the connection that is dialled is the one that enters.
LEMMA CreateKeepsTable ==
  ASSUME Typed, TableOK, NEW failed \in {"menu", "free"}, CreateConnection(failed),
         MainAt("dial") \/ MainAt("free")
  PROVE  TableOK'
  <1>m. main'.at \in {"menu", "free"}
    BY DEF CreateConnection, Goto
  <1>n. ~MainAt("stress") /\ ~MainAt("close") /\ ~MainAt("stress")' /\ ~MainAt("close")'
    BY <1>m DEF MainAt
  <1>1. CASE UNCHANGED <<serviceVars, tableVars>>
    BY <1>1, <1>m, <1>n, TableUntouched DEF serviceVars
  <1>2. CASE nextConnID \in ConnID /\ Service!Dial(nextConnID) /\ Enters("cluster")
    <2> DEFINE n == nextConnID
    <2>1. /\ TableTyped' /\ Table' = Table \cup {n} /\ n \notin Table
          /\ Own' = Own \cup {n} /\ activeConn' = n
      BY <1>2, EntersTable DEF TableOK
    <2>2. /\ client'[n].open
          /\ \A c \in Conn : c # n => client'[c] = client[c]
      BY <1>2, Names DEF Service!Dial, Typed, ServiceTyped
    <2>3. \A id \in ConnID : client'[id].open => id \in Own'
      BY <2>1, <2>2, Names DEF TableOK, TableMatchesConnections
    <2>4. \A s \in StressClient : ~client'[s].open
      BY <1>2, <1>n, <2>2, Names DEF TableOK, TableMatchesConnections
    <2>5. \A id \in Own : id \in ConnID
      BY ClientAssumption DEF TableOK, TableTyped, Own, ConnID
    <2>6. \A id \in Own' : client'[id].open
      BY <1>n, <2>1, <2>2, <2>5, Names DEF TableOK, TableMatchesConnections
    <2>7. TableMatchesConnections'
      BY <2>1, <2>3, <2>4, <2>6 DEF TableMatchesConnections
    <2>8. TableEmptied'
      BY <1>m DEF TableEmptied
    <2> QED
      BY <2>1, <2>7, <2>8 DEF TableOK
  <1> QED
    BY <1>1, <1>2 DEF CreateConnection

LEMMA ElsewhereKeepsTable ==
  ASSUME Typed, TableOK, ConnectElsewhere  PROVE TableOK'
  <1> DEFINE n == nextConnID
  <1>0. /\ n \in ConnID /\ Enters("elsewhere") /\ MainAt("free")
        /\ UNCHANGED <<serviceVars, nodes, main, stressVars>>
    BY DEF ConnectElsewhere
  <1>1. TableTyped' /\ Table' = Table \cup {n} /\ Own' = Own /\ activeConn' = n
    BY <1>0, EntersTable DEF TableOK
  <1>2. UNCHANGED <<client, main, stress>>
    BY <1>0 DEF serviceVars, stressVars
  <1>3. TableMatchesConnections'
    BY <1>1, <1>2 DEF TableOK, TableMatchesConnections, MainAt
  <1>4. TableEmptied'
    BY <1>0, <1>2 DEF TableEmptied, MainAt
  <1> QED
    BY <1>1, <1>3, <1>4 DEF TableOK

\* CloseConnection: a connection that is taken out is closed, when it is the server's own.
LEMMA DisconnectKeepsTable ==
  ASSUME Typed, TableOK, NEW id \in ConnID, Disconnect(id)  PROVE TableOK'
  <1>0. /\ MainAt("free") /\ id \in Table /\ UNCHANGED <<main, stress>>
        /\ IF id \in Own THEN Service!Close(id) ELSE UNCHANGED serviceVars
    BY DEF Disconnect, stressVars
  <1>1. /\ TableTyped' /\ Table' = Table \ {id} /\ Own' = Own \ {id}
        /\ activeConn' \in Table' \/ Table' = {}
    BY LeavesTable DEF Disconnect, TableOK, TableMatchesConnections
  <1>2. \A c \in Conn : c # id => client'[c] = client[c]
    BY <1>0, Names DEF Service!Close, serviceVars, Typed, ServiceTyped
  <1>3. client'[id].open = FALSE
    <2>1. CASE id \in Own
      BY <1>0, <2>1, Names DEF Service!Close, Typed, ServiceTyped
    <2>2. CASE id \notin Own
      <3>1. client[id] \in [open : BOOLEAN, owed : Nat]
        BY Names DEF Typed, ServiceTyped
      <3>2. ~client[id].open
        BY <2>2 DEF TableOK, TableMatchesConnections
      <3> QED
        BY <1>0, <2>2, <3>1, <3>2 DEF serviceVars
    <2> QED
      BY <2>1, <2>2
  <1>4. \A i \in ConnID : client'[i].open => i \in Own'
    BY <1>1, <1>2, <1>3, Names DEF TableOK, TableMatchesConnections
  <1>5. \A s \in StressClient : ~client'[s].open
    BY <1>0, <1>2, Names DEF TableOK, TableMatchesConnections, MainAt
  <1>6. \A i \in Own : i \in ConnID
    BY ClientAssumption DEF TableOK, TableTyped, Own, ConnID
  <1>7. \A i \in Own' : client'[i].open
    BY <1>0, <1>1, <1>2, <1>6, Names DEF TableOK, TableMatchesConnections, MainAt
  <1>8. TableMatchesConnections'
    BY <1>1, <1>4, <1>5, <1>7 DEF TableMatchesConnections
  <1>9. TableEmptied'
    BY <1>0 DEF TableEmptied, MainAt
  <1> QED
    BY <1>1, <1>8, <1>9 DEF TableOK

LEMMA CleanupKeepsTable ==
  ASSUME Typed, TableOK, \/ CleanupForgets
                         \/ \E id \in ConnID : CleanupCloses(id)
  PROVE  TableOK'
  <1>6. \A i \in Own : i \in ConnID
    BY ClientAssumption DEF TableOK, TableTyped, Own, ConnID
  <1>1. CASE CleanupForgets
    <2>1. UNCHANGED <<client, nextConnID>> /\ Table' = {} /\ Own' = {} /\ activeConn' = NoConn
      BY <1>1 DEF CleanupForgets, serviceVars, Table, Own
    <2>2. \A c \in Conn : ~client[c].open
      BY <1>1, <1>6, Names DEF CleanupForgets, TableOK, TableMatchesConnections, Conn, MainAt
    <2>3. TableMatchesConnections'
      BY <2>1, <2>2, Names DEF TableMatchesConnections
    <2>4. connections' \in [Table' -> {"cluster", "elsewhere"}]
      BY <1>1, <2>1 DEF CleanupForgets, Table
    <2>5. TableTyped'
      BY <2>1, <2>4 DEF TableTyped, TableOK
    <2> QED
      BY <2>1, <2>3, <2>5 DEF TableOK, TableEmptied
  <1>2. ASSUME NEW id \in ConnID, CleanupCloses(id)  PROVE TableOK'
    <2>0. /\ MainAt("close") /\ Service!Close(id)
          /\ UNCHANGED <<main, stress, connections, activeConn, nextConnID>>
      BY <1>2 DEF CleanupCloses, tableVars, stressVars
    <2>1. Table' = Table /\ Own' = Own
      BY <2>0 DEF Table, Own
    <2>2. /\ client'[id].open = FALSE
          /\ \A c \in Conn : c # id => client'[c] = client[c]
      BY <2>0, Names DEF Service!Close, Typed, ServiceTyped
    <2>3. \A i \in ConnID : client'[i].open => i \in Own'
      BY <2>1, <2>2, Names DEF TableOK, TableMatchesConnections
    <2>4. \A s \in StressClient : ~client'[s].open
      BY <2>0, <2>2, Names DEF TableOK, TableMatchesConnections, MainAt
    <2>5. TableMatchesConnections'
      BY <2>0, <2>1, <2>3, <2>4 DEF TableOK, TableMatchesConnections, MainAt
    <2>6. TableTyped'
      BY <2>0, <2>1 DEF TableOK, TableTyped
    <2>7. TableEmptied'
      BY <2>0, <2>1 DEF TableEmptied, MainAt
    <2> QED
      BY <2>5, <2>6, <2>7 DEF TableOK
  <1> QED
    BY <1>1, <1>2
LEMMA MainStepKeepsTable ==
  ASSUME Typed, PhasesOK, TableOK, MainStep  PROVE TableOK'
  <1>0. UNCHANGED stressVars /\ ~MainAt("stress") /\ ~MainAt("stress")'
    BY MainStepLeavesStress
  <1> DEFINE OpenKept == \A c \in Conn : client'[c].open = client[c].open
  <1>1. CASE EnterFreeMode
    <2>1. UNCHANGED tableVars /\ OpenKept /\ MainAt("menu") /\ main'.at = "dial"
      BY <1>1 DEF EnterFreeMode, CreateCluster, Service!Start, serviceVars, Goto
    <2> QED
      BY <1>0, <2>1, TableUntouched DEF MainAt
  <1>2. CASE DialFirst \/ Connect
    <2>1. CASE DialFirst
      BY <2>1, CreateKeepsTable DEF DialFirst
    <2>2. CASE Connect
      BY <2>2, CreateKeepsTable DEF Connect
    <2> QED
      BY <1>2, <2>1, <2>2
  <1>3. CASE SendRequest
    <2>1. OpenKept
      BY <1>3, Names DEF SendRequest, Service!Send, serviceVars, Typed, ServiceTyped
    <2>2. UNCHANGED tableVars /\ MainAt("send") /\ main'.at = "await"
      BY <1>3 DEF SendRequest, Typed, MainTyped
    <2> QED
      BY <1>0, <2>1, <2>2, TableUntouched DEF MainAt
  <1>4. CASE Receives \/ RequestFails \/ LRUEvict \/ Sync \/ Back \/ Quit
    <2>0. main.at \in {"free", "send", "await", "menu"} /\ main'.at \in {"free", "send", "menu", "close"}
      <3>1. CASE Receives
        BY <3>1 DEF Receives, Goto, MainAt
      <3>2. CASE RequestFails
        BY <3>2 DEF RequestFails, Goto, MainAt
      <3>3. CASE LRUEvict \/ Sync
        BY <3>3 DEF LRUEvict, Sync, MainAt
      <3>4. CASE Back \/ Quit
        BY <3>4 DEF Back, Quit, Goto, MainAt
      <3> QED
        BY <1>4, <3>1, <3>2, <3>3, <3>4
    <2>1. UNCHANGED <<serviceVars, tableVars>>
      BY <1>4 DEF Receives, RequestFails, LRUEvict, Sync, Back, Quit
    <2>2. OpenKept
      BY <2>1 DEF serviceVars
    <2> HIDE DEF OpenKept
    <2>3. ~MainAt("close") /\ main'.at \notin {"stop", "nodes", "ended"}
      BY <2>0 DEF MainAt
    <2> QED
      BY <1>0, <2>1, <2>2, <2>3, TableUntouched DEF OpenKept
  <1>5. ASSUME NEW id \in ConnID, Use(id)  PROVE TableOK'
    <2>1. Table' = Table /\ Own' = Own /\ UNCHANGED <<client, main, stress, nextConnID, connections>>
      BY <1>5 DEF Use, Table, Own, serviceVars, stressVars
    <2>2. id \in Table /\ activeConn' = id
      BY <1>5 DEF Use
    <2> QED
      BY <2>1, <2>2 DEF TableOK, TableTyped, TableMatchesConnections, TableEmptied, MainAt
  <1>6. CASE CleanupStopsServer
    <2>1. UNCHANGED tableVars /\ OpenKept /\ main.at = "stop" /\ main'.at \in {"stop", "nodes"}
      BY <1>6 DEF CleanupStopsServer, Service!Stop, Service!StopReturns, Goto, MainAt
    <2> QED
      BY <1>0, <2>1, TableUntouched DEF MainAt
  <1>7. CASE CleanupStopsNodes
    <2>1. UNCHANGED tableVars /\ OpenKept /\ main.at = "nodes" /\ main'.at = "ended"
      BY <1>7 DEF CleanupStopsNodes, serviceVars, Goto, MainAt
    <2> QED
      BY <1>0, <2>1, TableUntouched DEF MainAt
  <1>8. ASSUME NEW n \in 1 .. MaxBatch, Request(n)  PROVE TableOK'
    <2>1. UNCHANGED tableVars /\ OpenKept /\ main.at = "free" /\ main'.at = "send"
      BY <1>8 DEF Request, serviceVars, MainAt
    <2> QED
      BY <1>0, <2>1, TableUntouched DEF MainAt
  <1> QED
    BY <1>1, <1>2, <1>3, <1>4, <1>5, <1>6, <1>7, <1>8, ElsewhereKeepsTable, DisconnectKeepsTable,
       CleanupKeepsTable DEF MainStep

\* A step of one goroutine of stress, whose connection is open only while it is at work.
LEMMA StressKeepsTable ==
  ASSUME Typed, TableOK, StressPhase, NEW s \in StressClient, Stresses(s) \/ StressFails(s)
  PROVE  TableOK'
  <1> DEFINE AtWork == client'[s].open => stress'[s].at \notin {"none", "dial", "over"}
             Others == \A c \in Conn : c # s => client'[c] = client[c]
  <1>0. s \in Conn /\ UNCHANGED <<main, connections, activeConn, nextConnID>>
    BY MainsAlone, Names DEF tableVars
  <1>t. /\ stress[s] \in [at : StressPoint, left : 0 .. OpsPerClient, seen : Nat]
        /\ client \in [Conn -> [open : BOOLEAN, owed : Nat]]
        /\ client[s].open => stress[s].at \notin {"none", "dial", "over"}
    BY DEF Typed, StressTyped, ServiceTyped, TableOK, TableMatchesConnections
  <1>1. AtWork /\ Others /\ stress[s].at # "none" /\ stress' = [stress EXCEPT ![s] = stress'[s]]
    <2> USE DEF Typed, StressTyped
    <2>1. CASE StressDials(s)
      BY <1>0, <1>t, <2>1 DEF StressDials, StressGoto, Service!Dial, serviceVars
    <2>2. CASE StressSends(s)
      BY <1>0, <1>t, <2>2 DEF StressSends, StressGoto, Service!Send
    <2>3. CASE StressReads(s)
      <3>1. UNCHANGED client /\ stress[s].at = "await"
        BY <2>3 DEF StressReads, serviceVars
      <3>2. CASE StressGoto(s, "load")
        BY <1>0, <1>t, <3>1, <3>2 DEF StressGoto
      <3>3. CASE stress' = [stress EXCEPT ![s] = NextOp(@)]
        BY <1>0, <1>t, <3>1, <3>3 DEF NextOp
      <3> QED
        BY <2>3, <3>2, <3>3 DEF StressReads
    <2>4. CASE StressFails(s) \/ StressReports(s)
      BY <1>0, <1>t, <2>4
      DEF StressFails, StressReadFails, StressLosesBody, StressReports, StressGoto, serviceVars
    <2>5. CASE StressLoads(s)
      BY <1>0, <1>t, <2>5 DEF StressLoads, serviceVars
    <2>6. CASE StressStores(s)
      BY <1>0, <1>t, <2>6 DEF StressStores, NextOp, serviceVars
    <2>7. CASE StressLeaves(s)
      BY <1>0, <1>t, <2>7 DEF StressLeaves, StressGoto, Service!Close, serviceVars
    <2> QED
      BY <2>1, <2>2, <2>3, <2>4, <2>5, <2>6, <2>7 DEF Stresses
  <1>2. MainAt("stress") /\ MainAt("stress")'
    BY <1>0, <1>1 DEF StressPhase, NotStressed, MainAt
  <1>3. Table' = Table /\ Own' = Own
    BY <1>0 DEF Table, Own
  <1>4. \A id \in ConnID : client'[id] = client[id]
    BY <1>1, Names
  <1>5. \A id \in Own : id \in ConnID
    BY ClientAssumption DEF TableOK, TableTyped, Own, ConnID
  <1>6. \A r \in StressClient :
          client'[r].open => stress'[r].at \notin {"none", "dial", "over"}
    <2> TAKE r \in StressClient
    <2>1. CASE r = s
      BY <1>1, <2>1
    <2>2. CASE r # s
      BY <1>1, <2>2, Names DEF TableOK, TableMatchesConnections, Typed, StressTyped
    <2> QED
      BY <2>1, <2>2
  <1>7. TableMatchesConnections'
    BY <1>0, <1>2, <1>3, <1>4, <1>5, <1>6 DEF TableOK, TableMatchesConnections, MainAt
  <1>8. TableTyped' /\ TableEmptied'
    BY <1>0, <1>3 DEF TableOK, TableTyped, TableEmptied, MainAt
  <1> QED
    BY <1>7, <1>8 DEF TableOK

LEMMA TableInductive ==
  ASSUME Typed, PhasesOK, TableOK, StressPhase, [Next]_vars  PROVE TableOK'
  <1>1. CASE StressBegins \/ StressReturns
    <2>1. UNCHANGED <<client, connections, activeConn, nextConnID>>
      BY <1>1, MainsAlone DEF serviceVars, tableVars
    <2>2. Table' = Table /\ Own' = Own
      BY <2>1 DEF Table, Own
    <2>3. \A s \in StressClient : ~client[s].open
      BY <1>1 DEF StressBegins, StressReturns, StressOver, TableOK, TableMatchesConnections, MainAt
    <2>4. ~MainAt("close") /\ main'.at \in {"stress", "free"}
      BY <1>1 DEF StressBegins, StressReturns, MainAt, Goto
    <2>5. TableMatchesConnections'
      BY <2>1, <2>2, <2>3, <2>4 DEF TableOK, TableMatchesConnections
    <2>6. TableTyped' /\ TableEmptied'
      BY <2>1, <2>2, <2>4 DEF TableOK, TableTyped, TableEmptied
    <2> QED
      BY <2>5, <2>6 DEF TableOK
  <1>2. ASSUME NEW c \in Conn, Serves(c)  PROVE TableOK'
    <2>1. UNCHANGED <<main, stress, tableVars>>
      BY <1>2, MainsAlone DEF stressVars
    <2>2. \A d \in Conn : client'[d].open = client[d].open
      BY <1>2 DEF Serves, Service!Accept, Service!Answer, Service!End, Typed, ServiceTyped
    <2> QED
      BY <2>1, <2>2, TableUntouched
  <1>3. CASE UNCHANGED vars
    BY <1>3, TableUntouched DEF vars, serviceVars, stressVars
  <1> QED
    BY <1>1, <1>2, <1>3, NextCases, MainStepKeepsTable, StressKeepsTable
-----------------------------------------------------------------------------
(***************************************************************************)
(* main's progress and the server's.                                       *)
(***************************************************************************)

\* Free mode: the cluster is there.
Free == {"dial", "free", "send", "await", "stress"}

LEMMA FreeModeHasCluster ==
  ASSUME Typed, PhasesOK, main.at \in Free
  PROVE  nodes \in {"running", "first down"} /\ stop = "no"
  BY DEF Typed, MainTyped, PhasesOK, Free, MainAt

LEMMA FreeModeIsOK ==
  ASSUME nodes' \in {"running", "first down"}, stop' = "no", main'.at \in Free \cup {"menu"}
  PROVE  PhasesOK'
  BY DEF PhasesOK, Free, MainAt

LEMMA MainStepKeepsPhases ==
  ASSUME Typed, PhasesOK, MainStep  PROVE PhasesOK'
  <1>1. CASE EnterFreeMode
    <2>0. MainAt("menu") /\ main'.at = "dial"
      BY <1>1 DEF EnterFreeMode, Goto
    <2>1. CASE nodes = "none"
      BY <1>1, <2>0, <2>1, FreeModeIsOK
      DEF EnterFreeMode, CreateCluster, Service!Start, PhasesOK, Free
    <2>2. CASE nodes # "none"
      <3>1. nodes \in {"running", "first down"} /\ stop = "no"
        BY <2>0, <2>2 DEF Typed, MainTyped, PhasesOK, MainAt
      <3>2. UNCHANGED <<nodes, stop>>
        BY <1>1, <2>2 DEF EnterFreeMode, serviceVars
      <3> QED
        BY <2>0, <3>1, <3>2, FreeModeIsOK DEF Free
    <2> QED
      BY <2>1, <2>2
  <1>2. ASSUME \/ DialFirst \/ Connect \/ ConnectElsewhere \/ SendRequest \/ Receives
               \/ RequestFails \/ LRUEvict \/ Sync \/ Back
               \/ \E id \in ConnID : Use(id) \/ Disconnect(id)
               \/ \E n \in 1 .. MaxBatch : Request(n)
        PROVE  PhasesOK'
    <2> DEFINE Stays == /\ main.at \in Free /\ main'.at \in Free \cup {"menu"}
                        /\ nodes' \in {nodes, "running", "first down"} /\ stop' = stop
    <2>8. Stays
      <3> USE DEF Free, MainAt, Goto, serviceVars
      <3>1. CASE DialFirst \/ Connect
        <4>1. UNCHANGED <<nodes, stop>> /\ main.at \in {"dial", "free"}
          BY <3>1 DEF DialFirst, Connect, CreateConnection, Service!Dial
        <4>2. main'.at \in {"menu", "free"}
          BY <3>1 DEF DialFirst, Connect, CreateConnection
        <4> QED
          BY <4>1, <4>2
      <3>2. CASE ConnectElsewhere \/ LRUEvict \/ Sync
        BY <3>2 DEF ConnectElsewhere, LRUEvict, Sync
      <3>8. CASE Back
        BY <3>8 DEF Back
      <3>3. CASE SendRequest
        BY <3>3 DEF SendRequest, Service!Send, Typed, MainTyped
      <3>4. CASE Receives
        BY <3>4 DEF Receives
      <3>5. CASE RequestFails
        BY <3>5 DEF RequestFails
      <3>6. CASE \E id \in ConnID : Use(id) \/ Disconnect(id)
        BY <3>6 DEF Use, Disconnect, Service!Close
      <3>7. CASE \E n \in 1 .. MaxBatch : Request(n)
        BY <3>7 DEF Request
      <3> HIDE DEF Stays
      <3> QED
        BY <1>2, <3>1, <3>2, <3>3, <3>4, <3>5, <3>6, <3>7, <3>8
    <2> QED
      BY <2>8, FreeModeHasCluster, FreeModeIsOK DEF Stays
  <1>3. CASE Quit
    BY <1>3 DEF Quit, Goto, serviceVars, PhasesOK, MainAt
  <1>4. ASSUME NEW id \in ConnID, CleanupCloses(id)  PROVE PhasesOK'
    BY <1>4 DEF CleanupCloses, Service!Close, PhasesOK, MainAt
  <1>5. CASE CleanupForgets
    <2>1. UNCHANGED <<nodes, up, stop, link>> /\ MainAt("close")
      BY <1>5 DEF CleanupForgets, serviceVars
    <2>2. main'.at = IF nodes = "none" THEN "ended" ELSE "stop"
      BY <1>5 DEF CleanupForgets, Goto
    <2> QED
      BY <2>1, <2>2 DEF PhasesOK, MainAt
  <1>6. CASE CleanupStopsServer
    <2>0. MainAt("stop") /\ nodes' = nodes /\ nodes \in {"running", "first down"}
      BY <1>6 DEF CleanupStopsServer, PhasesOK, MainAt, Typed, MainTyped
    <2>1. CASE stop = "no" /\ Service!Stop /\ UNCHANGED main
      <3>1. \A c \in Conn : link'[c] # "backlog"
        BY <2>1 DEF Service!Stop
      <3> QED
        BY <2>0, <2>1, <3>1 DEF Service!Stop, PhasesOK, MainAt
    <2>2. CASE Service!StopReturns /\ Goto("nodes")
      BY <2>0, <2>2 DEF Service!StopReturns, Goto, PhasesOK, MainAt
    <2> QED
      BY <1>6, <2>1, <2>2 DEF CleanupStopsServer
  <1>7. CASE CleanupStopsNodes
    BY <1>7 DEF CleanupStopsNodes, Goto, serviceVars, PhasesOK, MainAt
  <1> QED
    BY <1>1, <1>2, <1>3, <1>4, <1>5, <1>6, <1>7 DEF MainStep

LEMMA PhasesInductive ==
  ASSUME Typed, PhasesOK, StressPhase, [Next]_vars  PROVE PhasesOK'
  <1>1. CASE StressBegins \/ StressReturns
    <2>1. UNCHANGED <<nodes, stop>>
      BY <1>1, MainsAlone DEF serviceVars
    <2>2. main.at \in Free /\ main'.at \in Free
      BY <1>1 DEF StressBegins, StressReturns, MainAt, Goto, Free
    <2> QED
      BY <2>1, <2>2, FreeModeHasCluster, FreeModeIsOK
  <1>2. ASSUME NEW s \in StressClient, Stresses(s) \/ StressFails(s)  PROVE PhasesOK'
    <2>1. UNCHANGED <<nodes, main>>
      BY <1>2, MainsAlone
    <2>2. stress[s].at # "none"
      BY <1>2 DEF Stresses, StressDials, StressSends, StressReads, StressFails,
         StressReadFails, StressLosesBody, StressLoads, StressStores, StressReports, StressLeaves
    <2>3. main.at = "stress"
      BY <2>2 DEF StressPhase, NotStressed, MainAt
    <2>4. UNCHANGED stop
      <3>1. CASE StressDials(s)
        BY <3>1 DEF StressDials, Service!Dial, serviceVars
      <3>2. CASE StressSends(s)
        BY <3>2 DEF StressSends, Service!Send
      <3>3. CASE StressLeaves(s)
        BY <3>3 DEF StressLeaves, Service!Close, serviceVars
      <3> QED
        BY <1>2, <3>1, <3>2, <3>3 DEF Stresses, StressReads, StressFails, StressReadFails,
           StressLosesBody, StressLoads, StressStores, StressReports, serviceVars
    <2> QED
      BY <2>1, <2>3, <2>4, FreeModeHasCluster, FreeModeIsOK DEF Free
  <1>3. ASSUME NEW c \in Conn, Serves(c)  PROVE PhasesOK'
    <2>0. UNCHANGED <<nodes, main, up, stop>>
      BY <1>3 DEF Serves, Service!Accept, Service!Answer, Service!End
    <2>1. /\ link[c] # "none"
          /\ link'[c] \in {"served", "gone"}
          /\ link'[c] = "served" => link[c] \in {"served", "backlog"}
          /\ \A d \in Conn : d # c => link'[d] = link[d]
      BY <1>3 DEF Serves, Service!Accept, Service!Answer, Service!End, Typed, ServiceTyped
    <2>2. nodes # "none"
      BY <2>1 DEF PhasesOK
    <2>3. stop # "no" => \A d \in Conn : link'[d] # "backlog"
      BY <2>1 DEF PhasesOK
    <2>4. stop = "returned" => \A d \in Conn : link'[d] # "served"
      BY <2>1 DEF PhasesOK
    <2> QED
      BY <2>0, <2>2, <2>3, <2>4 DEF PhasesOK, MainAt
  <1>4. CASE UNCHANGED vars
    BY <1>4 DEF vars, serviceVars, PhasesOK, MainAt
  <1> QED
    BY <1>1, <1>2, <1>3, <1>4, NextCases, MainStepKeepsPhases
-----------------------------------------------------------------------------
(***************************************************************************)
(* The counts of stress, under a step of one of its goroutines.            *)
(***************************************************************************)

Rec == [at : StressPoint, left : 0 .. OpsPerClient, seen : Nat]

IsReported(r) == r.at \in {"leave", "over"} /\ r.left > 0

IsInFlight(r) == r.at \in {"load", "store"}

\* What it means for the sets that goroutine s goes on to r.
SetsStep(t, s, r, u) ==
  /\ Reported(u) = IF IsReported(r) THEN Reported(t) \cup {s} ELSE Reported(t) \ {s}
  /\ InFlight(u) = IF IsInFlight(r) THEN InFlight(t) \cup {s} ELSE InFlight(t) \ {s}
  /\ s \in Reported(t) <=> IsReported(t[s])
  /\ s \in InFlight(t) <=> IsInFlight(t[s])

LEMMA SetsAfter ==
  ASSUME NEW t \in [StressClient -> Rec], NEW s \in StressClient, NEW r \in Rec,
         NEW u, u = [t EXCEPT ![s] = r]
  PROVE  SetsStep(t, s, r, u)
  BY DEF SetsStep, Reported, InFlight, IsReported, IsInFlight

LEMMA FiniteSets ==
  ASSUME NEW t
  PROVE  /\ IsFiniteSet(Reported(t)) /\ Cardinality(Reported(t)) \in Nat
         /\ Cardinality(Reported(t)) <= Room
         /\ IsFiniteSet(InFlight(t)) /\ Cardinality(InFlight(t)) \in Nat
         /\ InFlight(t) = {} <=> Cardinality(InFlight(t)) = 0
         /\ IsFiniteSet(Op) /\ Cardinality(Op) = Room * OpsPerClient
         /\ IsFiniteSet(DoneOps(t)) /\ Cardinality(DoneOps(t)) \in Nat
         /\ Room \in Nat
  <1>1. Reported(t) \in SUBSET StressClient /\ InFlight(t) \in SUBSET StressClient
    BY DEF Reported, InFlight
  <1>2. DoneOps(t) \in SUBSET Op
    BY DEF DoneOps
  <1>3. IsFiniteSet(1 .. OpsPerClient) /\ Cardinality(1 .. OpsPerClient) = OpsPerClient
    BY ClientAssumption, FS_Interval
  <1>4. IsFiniteSet(Op) /\ Cardinality(Op) = Room * OpsPerClient
    BY ClientAssumption, <1>3, FS_Product DEF Op, Room
  <1>5. IsFiniteSet(DoneOps(t))
    BY <1>2, <1>4, FS_Subset
  <1>6. /\ IsFiniteSet(Reported(t)) /\ IsFiniteSet(InFlight(t))
        /\ Cardinality(Reported(t)) <= Room
    BY <1>1, ClientAssumption, FS_Subset DEF Room
  <1> QED
    BY <1>4, <1>5, <1>6, ClientAssumption, FS_CardinalityType, FS_EmptySet DEF Room

LEMMA ProgressIs ==
  ASSUME NEW r \in Rec, r.at \in InOperation => r.left > 0
  PROVE  Progress(r) \in 0 .. OpsPerClient
  BY ClientAssumption DEF Progress, Rec, InOperation

\* The operations done do not change when the progress of s does not, and grow by one when
\* it does.
LEMMA SameDone ==
  ASSUME NEW t \in [StressClient -> Rec], NEW s \in StressClient, NEW r \in Rec,
         NEW u, u = [t EXCEPT ![s] = r], Progress(r) = Progress(t[s])
  PROVE  DoneOps(u) = DoneOps(t)
  <1>1. \A q \in StressClient : Progress(u[q]) = Progress(t[q])
    OBVIOUS
  <1> QED
    BY <1>1 DEF DoneOps, Op

LEMMA OneMoreDone ==
  ASSUME NEW t \in [StressClient -> Rec], NEW s \in StressClient, NEW r \in Rec,
         NEW u, u = [t EXCEPT ![s] = r], Progress(t[s]) \in Nat,
         Progress(r) = Progress(t[s]) + 1, Progress(r) <= OpsPerClient
  PROVE  Cardinality(DoneOps(u)) = Cardinality(DoneOps(t)) + 1
  <1> DEFINE new == <<s, Progress(r)>>
  <1>1. new \in Op /\ new \notin DoneOps(t)
    BY ClientAssumption DEF DoneOps, Op
  <1>2. u[s] = r /\ \A q \in StressClient : q # s => u[q] = t[q]
    OBVIOUS
  <1>3. \A p \in Op : p \in DoneOps(u) <=> p \in DoneOps(t) \/ p = new
    <2> TAKE p \in Op
    <2>1. PICK q \in StressClient, i \in 1 .. OpsPerClient : p = <<q, i>>
      BY DEF Op
    <2>2. CASE q = s
      <3>1. p \in DoneOps(u) <=> i <= Progress(r)
        BY <1>2, <2>1, <2>2 DEF DoneOps
      <3>2. p \in DoneOps(t) <=> i <= Progress(t[s])
        BY <2>1, <2>2 DEF DoneOps
      <3>3. p = new <=> i = Progress(r)
        BY <2>1, <2>2
      <3> QED
        BY <3>1, <3>2, <3>3, ClientAssumption
    <2>3. CASE q # s
      <3>1. p # new
        BY <2>1, <2>3
      <3> QED
        BY <1>2, <2>1, <2>3, <3>1 DEF DoneOps
    <2> QED
      BY <2>2, <2>3
  <1>4. DoneOps(u) = DoneOps(t) \cup {new}
    BY <1>1, <1>3 DEF DoneOps
  <1> QED
    BY <1>1, <1>4, FiniteSets, FS_AddElement

\* The number of operations taken for successful is one.
LEMMA TakenType ==
  ASSUME broken \subseteq StressClient, acked \in Nat
  PROVE  IsFiniteSet(broken) /\ Cardinality(broken) \in Nat /\ Taken \in Nat
  <1>1. IsFiniteSet(broken)
    BY ClientAssumption, FS_Subset
  <1> QED
    BY <1>1, FS_CardinalityType DEF Taken

\* A step that changes nothing that is counted.
LEMMA QuietStep ==
  ASSUME NEW s \in StressClient, NEW r \in Rec, stress \in [StressClient -> Rec], Counted,
         stress' = [stress EXCEPT ![s] = r],
         IsReported(r) <=> IsReported(stress[s]),
         IsInFlight(r) <=> IsInFlight(stress[s]),
         nodes # "running" \/ Progress(r) = Progress(stress[s]),
         r.at = "store" => r.seen = successCount,
         UNCHANGED <<successCount, errCh, broken, acked, nodes>>
  PROVE  Counted'
  <1>0. SetsStep(stress, s, r, stress')
    BY SetsAfter
  <1>1. Reported(stress') = Reported(stress) /\ InFlight(stress') = InFlight(stress)
    BY <1>0 DEF SetsStep
  <1>2. ErrorsCounted'
    BY <1>1 DEF Counted, ErrorsCounted
  <1>t. Taken' = Taken
    BY DEF Taken
  <1>3. SuccessesCounted'
    BY <1>1, <1>t DEF Counted, SuccessesCounted
  <1>4. AnswersCounted'
    <2>1. CASE nodes = "running"
      BY <1>t, <2>1, SameDone DEF Counted, AnswersCounted
    <2> QED
      BY <2>1 DEF AnswersCounted
  <1> QED
    BY <1>2, <1>3, <1>4 DEF Counted
\* A goroutine goes on to a record of the right type.
LEMMA StressTypedStep ==
  ASSUME StressTyped, NEW s \in StressClient, NEW r \in Rec,
         r.at \in InOperation => r.left > 0,
         stress' = [stress EXCEPT ![s] = r],
         successCount' \in Nat, errCh' \in Nat, broken' \subseteq StressClient, acked' \in Nat
  PROVE  StressTyped'
  BY DEF StressTyped, Rec

\* Its state before the step.
LEMMA RecOf ==
  ASSUME StressTyped, NEW s \in StressClient
  PROVE  /\ stress \in [StressClient -> Rec]
         /\ stress[s] \in Rec
         /\ stress[s].at \in StressPoint /\ stress[s].left \in 0 .. OpsPerClient
         /\ stress[s].seen \in Nat
         /\ stress[s].at \in InOperation => stress[s].left > 0
         /\ successCount \in Nat /\ errCh \in Nat
         /\ broken \subseteq StressClient /\ acked \in Nat /\ Taken \in Nat
  <1>1. Taken \in Nat
    BY TakenType DEF StressTyped
  <1> QED
    BY <1>1 DEF StressTyped, Rec

\* A step that only moves s on, within an operation or, when it is over, to the end.
LEMMA MovesOn ==
  ASSUME StressTyped, Counted, NEW s \in StressClient, NEW p \in StressPoint,
         StressGoto(s, p), UNCHANGED <<successCount, errCh, broken, acked, nodes>>,
         \/ /\ stress[s].at \in {"dial", "send", "await"}
            /\ p \in {"send", "await", "error"}
         \/ stress[s].at = "leave" /\ p = "over"
  PROVE  StressTyped' /\ Counted'
  <1> DEFINE r == [stress[s] EXCEPT !.at = p]
  <1>1. stress' = [stress EXCEPT ![s] = r]
    BY RecOf DEF StressGoto, Rec
  <1>2. /\ r \in Rec /\ r.at = p /\ r.left = stress[s].left
        /\ r.at \in InOperation => r.left > 0
    BY RecOf DEF Rec, StressPoint, InOperation
  <1>3. /\ IsReported(r) <=> IsReported(stress[s])
        /\ IsInFlight(r) <=> IsInFlight(stress[s])
        /\ Progress(r) = Progress(stress[s])
        /\ r.at # "store"
    BY <1>2 DEF IsReported, IsInFlight, Progress
  <1> HIDE DEF r
  <1>4. StressTyped'
    BY <1>1, <1>2, RecOf, StressTypedStep
  <1>5. Counted'
    BY <1>1, <1>2, <1>3, RecOf, QuietStep
  <1> QED
    BY <1>4, <1>5

\* What NextOp does.
LEMMA NextOpIs ==
  ASSUME NEW t \in Rec, t.left > 0
  PROVE  /\ NextOp(t) \in Rec
         /\ NextOp(t).left = t.left - 1 /\ NextOp(t).seen = t.seen
         /\ NextOp(t).at \in {"send", "leave"}
         /\ NextOp(t).at = "leave" <=> NextOp(t).left = 0
  <1>0. /\ t.left \in 0 .. OpsPerClient /\ t.seen \in Nat /\ OpsPerClient \in Nat
        /\ "send" \in StressPoint /\ "leave" \in StressPoint
    BY ClientAssumption DEF Rec, StressPoint, InOperation
  <1>5. PICK p, n : p = (IF t.left > 1 THEN "send" ELSE "leave") /\ n = t.left - 1
    OBVIOUS
  <1>6. NextOp(t) = [[t EXCEPT !.left = n] EXCEPT !.at = p]
    BY <1>5 DEF NextOp
  <1>7. t \in [at : StressPoint, left : 0 .. OpsPerClient, seen : Nat]
    BY DEF Rec
  <1>1. NextOp(t) = [at |-> p, left |-> n, seen |-> t.seen]
    BY <1>6, <1>7
  <1>2. t.left - 1 \in 0 .. OpsPerClient
    BY <1>0
  <1>3. NextOp(t) \in Rec
    BY <1>0, <1>1, <1>2, <1>5 DEF Rec
  <1>4. t.left > 1 <=> t.left - 1 # 0
    BY <1>0
  <1> QED
    BY <1>1, <1>3, <1>4, <1>5

\* An answer that is not SUCCESS: some node is down, and the operation is not counted.
LEMMA OtherAnswer ==
  ASSUME StressTyped, Counted, NEW s \in StressClient, stress[s].at = "await",
         stress' = [stress EXCEPT ![s] = NextOp(@)], nodes # "running",
         UNCHANGED <<successCount, errCh, broken, acked, nodes>>
  PROVE  StressTyped' /\ Counted'
  <1> DEFINE r == NextOp(stress[s])
  <1>1. stress' = [stress EXCEPT ![s] = r]
    OBVIOUS
  <1>2. stress[s] \in Rec /\ stress[s].left > 0
    BY RecOf DEF InOperation
  <1>3. /\ r \in Rec /\ r.at \in {"send", "leave"}
        /\ r.at = "leave" <=> r.left = 0
        /\ r.left = stress[s].left - 1
    BY <1>2, NextOpIs
  <1> HIDE DEF r
  <1>4. r.left >= 0
    BY <1>3 DEF Rec
  <1>5. /\ r.at \in InOperation => r.left > 0
        /\ IsReported(r) <=> IsReported(stress[s])
        /\ IsInFlight(r) <=> IsInFlight(stress[s])
        /\ r.at # "store"
    BY <1>3, <1>4, RecOf DEF IsReported, IsInFlight, Rec, InOperation
  <1>6. StressTyped'
    BY <1>1, <1>3, <1>5, RecOf, StressTypedStep
  <1>7. Counted'
    BY <1>1, <1>3, <1>5, RecOf, QuietStep
  <1> QED
    BY <1>6, <1>7

\* SUCCESS, or what is taken for it: one more answer is on its way to the counter.
LEMMA SuccessAnswer ==
  ASSUME StressTyped, Counted, NEW s \in StressClient, stress[s].at = "await",
         StressGoto(s, "load"), Taken' = Taken + 1,
         broken' \subseteq StressClient, acked' \in Nat,
         UNCHANGED <<successCount, errCh, nodes>>
  PROVE  StressTyped' /\ Counted'
  <1> DEFINE r == [stress[s] EXCEPT !.at = "load"]
  <1>1. stress' = [stress EXCEPT ![s] = r]
    BY RecOf DEF StressGoto, Rec
  <1>2. /\ r \in Rec /\ r.at = "load" /\ r.left = stress[s].left
        /\ r.left > 0
    BY RecOf DEF Rec, StressPoint, InOperation
  <1> HIDE DEF r
  <1>0. successCount' \in Nat /\ errCh' \in Nat /\ broken' \subseteq StressClient /\ acked' \in Nat
    BY RecOf
  <1>3. StressTyped'
    BY <1>0, <1>1, <1>2, StressTypedStep
  <1>4. SetsStep(stress, s, r, stress')
    BY <1>1, <1>2, RecOf, SetsAfter
  <1>5. ~IsReported(r) /\ ~IsReported(stress[s]) /\ IsInFlight(r) /\ ~IsInFlight(stress[s])
    BY <1>2 DEF IsReported, IsInFlight
  <1>6. /\ Reported(stress') = Reported(stress)
        /\ InFlight(stress') = InFlight(stress) \cup {s} /\ s \notin InFlight(stress)
    BY <1>4, <1>5 DEF SetsStep
  <1>7. /\ Cardinality(InFlight(stress')) = Cardinality(InFlight(stress)) + 1
        /\ InFlight(stress') # {}
    BY <1>6, FiniteSets, FS_AddElement
  <1>8. ErrorsCounted'
    BY <1>6 DEF Counted, ErrorsCounted
  <1>9. SuccessesCounted'
    <2>1. \A q \in StressClient : stress'[q].at = "store" => stress'[q] = stress[q]
      BY <1>1, <1>2, RecOf
    <2>2. \A q \in StressClient : stress[q].at = "store" =>
            stress[q].seen + Cardinality(InFlight(stress)) <= Taken
      BY DEF Counted, SuccessesCounted
    <2>3. \A q \in StressClient : stress'[q].at = "store" =>
            stress'[q].seen + Cardinality(InFlight(stress')) <= Taken'
      BY <1>7, <2>1, <2>2, FiniteSets, RecOf
    <2>4. successCount' + Cardinality(InFlight(stress')) <= Taken'
      BY <1>7, FiniteSets, RecOf DEF Counted, SuccessesCounted
    <2> QED
      BY <1>7, <2>3, <2>4 DEF SuccessesCounted
  <1>10. AnswersCounted'
    <2>1. Progress(r) = Progress(stress[s]) + 1 /\ Progress(stress[s]) \in Nat
      BY <1>2, RecOf, ClientAssumption DEF Progress
    <2>2. Progress(r) <= OpsPerClient
      BY <1>2, ProgressIs, ClientAssumption
    <2>3. Cardinality(DoneOps(stress')) = Cardinality(DoneOps(stress)) + 1
      BY <1>1, <1>2, <2>1, <2>2, RecOf, OneMoreDone
    <2> QED
      BY <2>3 DEF Counted, AnswersCounted
  <1> QED
    BY <1>3, <1>8, <1>9, <1>10 DEF Counted
\* The counter is read.
LEMMA Loaded ==
  ASSUME StressTyped, Counted, NEW s \in StressClient, StressLoads(s), UNCHANGED nodes
  PROVE  StressTyped' /\ Counted'
  <1> DEFINE r == [[stress[s] EXCEPT !.at = "store"] EXCEPT !.seen = successCount]
  <1>1. /\ stress' = [stress EXCEPT ![s] = r] /\ stress[s].at = "load"
        /\ UNCHANGED <<successCount, errCh, broken, acked>>
    BY RecOf DEF StressLoads, Rec
  <1>2. /\ r \in Rec /\ r.at = "store" /\ r.left = stress[s].left /\ r.seen = successCount
        /\ r.left > 0
    BY <1>1, RecOf DEF Rec, StressPoint, InOperation
  <1> HIDE DEF r
  <1>3. /\ IsReported(r) <=> IsReported(stress[s])
        /\ IsInFlight(r) <=> IsInFlight(stress[s])
        /\ Progress(r) = Progress(stress[s])
    BY <1>1, <1>2 DEF IsReported, IsInFlight, Progress
  <1>4. StressTyped'
    BY <1>1, <1>2, RecOf, StressTypedStep
  <1>5. Counted'
    BY <1>1, <1>2, <1>3, RecOf, QuietStep
  <1> QED
    BY <1>4, <1>5

\* The counter is written: it may fall back, but never to nothing, nor beyond what is
\* acknowledged.
LEMMA Stored ==
  ASSUME StressTyped, Counted, NEW s \in StressClient, StressStores(s), UNCHANGED nodes
  PROVE  StressTyped' /\ Counted'
  <1>p. PICK n : n = NextOp(stress[s])
    OBVIOUS
  <1> DEFINE r == [n EXCEPT !.seen = 0]
  <1>1. /\ stress' = [stress EXCEPT ![s] = r] /\ stress[s].at = "store"
        /\ successCount' = stress[s].seen + 1
        /\ UNCHANGED <<errCh, broken, acked>>
    BY <1>p, RecOf DEF StressStores
  <1>2. stress[s] \in Rec /\ stress[s].left > 0 /\ stress[s].left \in Nat
    BY <1>1, RecOf DEF InOperation
  <1>3. /\ n \in Rec /\ n.at \in {"send", "leave"}
        /\ n.at = "leave" <=> n.left = 0
        /\ n.left = stress[s].left - 1
    BY <1>2, <1>p, NextOpIs
  <1>4. /\ r \in Rec /\ r.at \in {"send", "leave"}
        /\ r.at = "leave" <=> r.left = 0
        /\ r.left = stress[s].left - 1
    BY <1>3 DEF Rec
  <1> HIDE DEF r
  <1>5. /\ r.at \in InOperation => r.left > 0
        /\ ~IsReported(r) /\ ~IsReported(stress[s])
        /\ ~IsInFlight(r) /\ IsInFlight(stress[s])
        /\ r.at # "store"
    BY <1>1, <1>2, <1>4 DEF IsReported, IsInFlight, InOperation
  <1>0. successCount' \in Nat /\ errCh' \in Nat /\ broken' \subseteq StressClient /\ acked' \in Nat
    BY <1>1, RecOf
  <1>6. StressTyped'
    BY <1>0, <1>1, <1>4, <1>5, StressTypedStep
  <1>7. SetsStep(stress, s, r, stress')
    BY <1>1, <1>4, RecOf, SetsAfter
  <1>8. /\ Reported(stress') = Reported(stress)
        /\ InFlight(stress') = InFlight(stress) \ {s} /\ s \in InFlight(stress)
    BY <1>5, <1>7 DEF SetsStep
  <1>9. Cardinality(InFlight(stress')) = Cardinality(InFlight(stress)) - 1
    BY <1>8, FiniteSets, FS_RemoveElement
  <1>10. ErrorsCounted'
    BY <1>1, <1>8 DEF Counted, ErrorsCounted
  <1>t. Taken' = Taken
    BY <1>1 DEF Taken
  <1>11. SuccessesCounted'
    <2>1. \A q \in StressClient : stress'[q].at = "store" => stress'[q] = stress[q]
      BY <1>1, <1>5, RecOf
    <2>2. \A q \in StressClient : stress[q].at = "store" =>
            stress[q].seen + Cardinality(InFlight(stress)) <= Taken
      BY DEF Counted, SuccessesCounted
    <2>3. \A q \in StressClient : stress'[q].at = "store" =>
            stress'[q].seen + Cardinality(InFlight(stress')) <= Taken'
      BY <1>1, <1>9, <1>t, <2>1, <2>2, FiniteSets, RecOf
    <2>4. successCount' + Cardinality(InFlight(stress')) <= Taken'
      BY <1>1, <1>9, <1>t, <2>2, FiniteSets, RecOf
    <2>5. successCount' > 0
      BY <1>1, RecOf
    <2> QED
      BY <2>3, <2>4, <2>5 DEF SuccessesCounted
  <1>12. AnswersCounted'
    <2>1. Progress(r) = Progress(stress[s])
      BY <1>1, <1>2, <1>4, ClientAssumption DEF Progress
    <2>2. DoneOps(stress') = DoneOps(stress)
      <3>1. stress \in [StressClient -> Rec] /\ r \in Rec
        BY <1>4, RecOf
      <3> QED
        BY <1>1, <2>1, <3>1, SameDone
    <2> QED
      BY <1>1, <1>t, <2>2 DEF Counted, AnswersCounted
  <1> QED
    BY <1>6, <1>10, <1>11, <1>12 DEF Counted

\* An error is put into the channel, once.
LEMMA ErrorReported ==
  ASSUME StressTyped, Counted, NEW s \in StressClient, StressReports(s), UNCHANGED nodes
  PROVE  StressTyped' /\ Counted'
  <1> DEFINE r == [stress[s] EXCEPT !.at = "leave"]
  <1>1. /\ stress' = [stress EXCEPT ![s] = r] /\ stress[s].at = "error"
        /\ errCh' = errCh + 1
        /\ UNCHANGED <<successCount, broken, acked>>
    BY RecOf DEF StressReports, StressGoto, Rec
  <1>2. /\ r \in Rec /\ r.at = "leave" /\ r.left = stress[s].left
        /\ r.left > 0
    BY <1>1, RecOf DEF Rec, StressPoint, InOperation
  <1> HIDE DEF r
  <1>3. /\ IsReported(r) /\ ~IsReported(stress[s])
        /\ ~IsInFlight(r) /\ ~IsInFlight(stress[s])
        /\ Progress(r) = Progress(stress[s])
    BY <1>1, <1>2 DEF IsReported, IsInFlight, Progress
  <1>0. successCount' \in Nat /\ errCh' \in Nat /\ broken' \subseteq StressClient /\ acked' \in Nat
    BY <1>1, RecOf
  <1>4. StressTyped'
    BY <1>0, <1>1, <1>2, StressTypedStep
  <1>5. SetsStep(stress, s, r, stress')
    BY <1>1, <1>2, RecOf, SetsAfter
  <1>6. /\ Reported(stress') = Reported(stress) \cup {s} /\ s \notin Reported(stress)
        /\ InFlight(stress') = InFlight(stress)
    BY <1>3, <1>5 DEF SetsStep
  <1>7. ErrorsCounted'
    BY <1>1, <1>6, FiniteSets, FS_AddElement DEF Counted, ErrorsCounted
  <1>t. Taken' = Taken
    BY <1>1 DEF Taken
  <1>8. SuccessesCounted'
    <2>1. \A q \in StressClient : stress'[q].at = "store" => stress'[q] = stress[q]
      BY <1>1, <1>2, RecOf
    <2> QED
      BY <1>1, <1>6, <1>t, <2>1 DEF Counted, SuccessesCounted
  <1>9. AnswersCounted'
    <2>1. DoneOps(stress') = DoneOps(stress)
      <3>1. stress \in [StressClient -> Rec] /\ r \in Rec
        BY <1>2, RecOf
      <3> QED
        BY <1>1, <1>3, <3>1, SameDone
    <2> QED
      BY <1>1, <1>t, <2>1 DEF Counted, AnswersCounted
  <1> QED
    BY <1>4, <1>7, <1>8, <1>9 DEF Counted

LEMMA StressStepCounts ==
  ASSUME StressTyped, Counted, NEW s \in StressClient, Stresses(s) \/ StressFails(s)
  PROVE  StressTyped' /\ Counted'
  <1>0. UNCHANGED nodes /\ {"send", "await", "load", "error", "over"} \subseteq StressPoint
    BY MainsAlone DEF StressPoint, InOperation
  <1>1. CASE StressDials(s)
    BY <1>0, <1>1, MovesOn DEF StressDials
  <1>2. CASE StressSends(s)
    BY <1>0, <1>2, MovesOn DEF StressSends
  <1>3. CASE StressReadFails(s)
    BY <1>0, <1>3, MovesOn DEF StressReadFails
  <1>4. CASE StressReads(s)
    <2>1. stress[s].at = "await" /\ UNCHANGED <<successCount, errCh, broken>>
      BY <1>4 DEF StressReads
    <2>2. CASE acked' = acked + 1 /\ StressGoto(s, "load")
      <3>1. Taken' = Taken + 1 /\ broken' \subseteq StressClient /\ acked' \in Nat
        BY <2>1, <2>2, RecOf, TakenType DEF Taken
      <3> QED
        BY <1>0, <2>1, <2>2, <3>1, SuccessAnswer
    <2>3. CASE /\ nodes # "running" /\ UNCHANGED acked
               /\ stress' = [stress EXCEPT ![s] = NextOp(@)]
      BY <1>0, <2>1, <2>3, OtherAnswer
    <2> QED
      BY <1>4, <2>2, <2>3 DEF StressReads
  <1>5. CASE StressLoads(s)
    BY <1>0, <1>5, Loaded
  <1>6. CASE StressStores(s)
    BY <1>0, <1>6, Stored
  <1>7. CASE StressReports(s)
    BY <1>0, <1>7, ErrorReported
  <1>8. CASE StressLeaves(s)
    BY <1>0, <1>8, MovesOn DEF StressLeaves
  <1>9. CASE StressLosesBody(s)
    <2>1. /\ stress[s].at = "await" /\ StressGoto(s, "load")
          /\ s \notin broken /\ broken' = broken \cup {s}
          /\ UNCHANGED <<successCount, errCh, acked>>
      BY <1>9 DEF StressLosesBody
    <2>2. Cardinality(broken') = Cardinality(broken) + 1
      BY <2>1, RecOf, TakenType, FS_AddElement
    <2>3. Taken' = Taken + 1 /\ broken' \subseteq StressClient /\ acked' \in Nat
      BY <2>1, <2>2, RecOf, TakenType DEF Taken
    <2> QED
      BY <1>0, <2>1, <2>3, SuccessAnswer
  <1> QED
    BY <1>1, <1>2, <1>3, <1>4, <1>5, <1>6, <1>7, <1>8, <1>9 DEF Stresses, StressFails
\* Before the first operation nothing is counted.
LEMMA NothingCounted ==
  ASSUME stress' \in [StressClient -> Rec],
         \A s \in StressClient : /\ stress'[s].at \in {"none", "dial"}
                                 /\ stress'[s].left = OpsPerClient,
         successCount' = 0, errCh' = 0, broken' = {}, acked' = 0
  PROVE  StressTyped' /\ Counted'
  <1>1. StressTyped'
    BY ClientAssumption DEF StressTyped, Rec
  <1>2. Reported(stress') = {} /\ InFlight(stress') = {}
    BY DEF Reported, InFlight
  <1>3. DoneOps(stress') = {}
    <2>1. \A s \in StressClient : Progress(stress'[s]) = 0
      BY ClientAssumption DEF Progress
    <2> QED
      BY <2>1 DEF DoneOps, Op
  <1>4. Cardinality({}) = 0
    BY FS_EmptySet
  <1>5. Taken' = 0
    BY <1>4 DEF Taken
  <1> QED
    BY <1>1, <1>2, <1>3, <1>4, <1>5, ClientAssumption
    DEF Counted, ErrorsCounted, SuccessesCounted, AnswersCounted, StressTyped

LEMMA Idle ==
  ASSUME stress' = NotStressed, successCount' = 0, errCh' = 0, broken' = {}, acked' = 0
  PROVE  StressTyped' /\ Counted'
  <1>1. \A s \in StressClient : [at |-> "none", left |-> OpsPerClient, seen |-> 0] \in Rec
    BY ClientAssumption DEF Rec, StressPoint
  <1> QED
    BY <1>1, NothingCounted DEF NotStressed

LEMMA StressStepKeepsPhase ==
  ASSUME StressTyped, StressPhase, NEW s \in StressClient, Stresses(s) \/ StressFails(s)
  PROVE  StressPhase'
  <1>0. UNCHANGED main
    BY MainsAlone
  <1>t. stress \in [StressClient -> Rec] /\ (stress[s].at \in InOperation => stress[s].left > 0)
    BY RecOf
  <1>1. stress[s].at # "none" /\ \A q \in StressClient :
          stress'[q].at \in {stress[q].at} \cup (StressPoint \ {"none"})
    <2> USE DEF Rec, StressPoint, InOperation, StressGoto
    <2>1. CASE StressDials(s) \/ StressSends(s) \/ StressFails(s) \/ StressReports(s)
               \/ StressLeaves(s)
      BY <1>t, <2>1 DEF StressDials, StressSends, StressFails, StressReadFails, StressLosesBody,
         StressReports, StressLeaves
    <2>2. CASE StressReads(s)
      <3>1. stress[s] \in Rec /\ stress[s].left > 0 /\ stress[s].at = "await"
        BY <1>t, <2>2 DEF StressReads
      <3>2. NextOp(stress[s]).at \in {"send", "leave"}
        BY <3>1, NextOpIs
      <3>3. CASE stress' = [stress EXCEPT ![s] = NextOp(@)]
        BY <1>t, <3>1, <3>2, <3>3
      <3>4. CASE StressGoto(s, "load")
        BY <1>t, <3>1, <3>4
      <3> QED
        BY <2>2, <3>3, <3>4 DEF StressReads
    <2>3. CASE StressLoads(s)
      BY <1>t, <2>3 DEF StressLoads
    <2>4. CASE StressStores(s)
      <3>p. PICK n : n = NextOp(stress[s])
        OBVIOUS
      <3>1. stress[s] \in Rec /\ stress[s].left > 0 /\ stress[s].at = "store"
        BY <1>t, <2>4 DEF StressStores
      <3>2. n.at \in {"send", "leave"} /\ n \in Rec
        BY <3>p, <3>1, NextOpIs
      <3>3. stress' = [stress EXCEPT ![s] = [n EXCEPT !.seen = 0]]
        BY <3>p, <2>4 DEF StressStores
      <3> QED
        BY <1>t, <3>1, <3>2, <3>3
    <2> QED
      BY <2>1, <2>2, <2>3, <2>4 DEF Stresses
  <1>2. MainAt("stress")
    BY <1>1 DEF StressPhase, NotStressed
  <1> QED
    BY <1>0, <1>1, <1>2 DEF StressPhase, MainAt

LEMMA StressInductive ==
  ASSUME Typed, StressPhase, Counted, [Next]_vars
  PROVE  StressTyped' /\ StressPhase' /\ Counted'
  <1>1. CASE MainStep
    <2>1. UNCHANGED stressVars /\ ~MainAt("stress") /\ ~MainAt("stress")'
      BY <1>1, MainStepLeavesStress
    <2>2. stress' = NotStressed /\ successCount' = 0 /\ errCh' = 0 /\ broken' = {} /\ acked' = 0
      BY <2>1 DEF StressPhase, stressVars
    <2> QED
      BY <2>1, <2>2, Idle DEF StressPhase
  <1>2. CASE StressBegins
    <2>1. MainAt("stress")' /\ successCount' = 0 /\ errCh' = 0 /\ broken' = {} /\ acked' = 0
      BY <1>2 DEF StressBegins, StressPhase, MainAt, Goto
    <2>2. stress' = [s \in StressClient |-> [at |-> "dial", left |-> OpsPerClient, seen |-> 0]]
      BY <1>2 DEF StressBegins, NotStressed
    <2>3. [at |-> "dial", left |-> OpsPerClient, seen |-> 0] \in Rec
      BY ClientAssumption DEF Rec, StressPoint, InOperation
    <2>4. StressTyped' /\ Counted'
      BY <2>1, <2>2, <2>3, NothingCounted
    <2> QED
      BY <2>1, <2>2, <2>4 DEF StressPhase
  <1>3. CASE StressReturns
    <2>1. ~MainAt("stress")'
      BY <1>3 DEF StressReturns, MainAt, Goto
    <2>2. stress' = NotStressed /\ successCount' = 0 /\ errCh' = 0 /\ broken' = {} /\ acked' = 0
      BY <1>3 DEF StressReturns
    <2> QED
      BY <2>1, <2>2, Idle DEF StressPhase
  <1>4. ASSUME NEW s \in StressClient, Stresses(s) \/ StressFails(s)
        PROVE  StressTyped' /\ StressPhase' /\ Counted'
    BY <1>4, StressStepCounts, StressStepKeepsPhase DEF Typed
  <1>5. CASE UNCHANGED <<nodes, main, stressVars>>
    BY <1>5 DEF Typed, StressTyped, StressPhase, Counted, ErrorsCounted, SuccessesCounted,
       AnswersCounted, Taken, stressVars, MainAt
  <1>6. ASSUME NEW c \in Conn, Serves(c)  PROVE UNCHANGED <<nodes, main, stressVars>>
    BY <1>6, MainsAlone
  <1>7. CASE UNCHANGED vars
    BY <1>5, <1>7 DEF vars
  <1> QED
    BY <1>1, <1>2, <1>3, <1>4, <1>5, <1>6, <1>7, NextCases

-----------------------------------------------------------------------------
(***************************************************************************)
(* The inductive invariant, and what it gives.                             *)
(***************************************************************************)

LEMMA IInvInitially == Init => IInv
  <1> SUFFICES ASSUME Init  PROVE IInv
    OBVIOUS
  <1>1. ServiceTyped /\ \A c \in Conn : link[c] = "none" /\ ~client[c].open
    BY DEF Init, Service!Init, ServiceTyped
  <1>2. MainTyped
    BY ClientAssumption DEF Init, MainTyped, MainPoint
  <1>3. Table = {} /\ Own = {}
    BY DEF Init, Table, Own
  <1>4. TableTyped
    <2>1. connections \in [Table -> {"cluster", "elsewhere"}]
      BY <1>3 DEF Init
    <2> QED
      BY <1>3, <2>1, ClientAssumption DEF Init, TableTyped
  <1>5. TableMatchesConnections /\ TableEmptied
    BY <1>1, <1>3, Names DEF Init, TableMatchesConnections, TableEmptied, MainAt
  <1>6. PhasesOK
    BY <1>1 DEF Init, Service!Init, PhasesOK, MainAt
  <1>7. StressPhase
    BY DEF Init, StressPhase, MainAt
  <1>8. StressTyped /\ Counted
    <2>1. [at |-> "none", left |-> OpsPerClient, seen |-> 0] \in Rec
      BY ClientAssumption DEF Rec, StressPoint
    <2>2. /\ stress \in [StressClient -> Rec]
          /\ \A s \in StressClient : stress[s].at = "none" /\ stress[s].left = OpsPerClient
      BY <2>1 DEF Init, NotStressed
    <2>3. StressTyped
      BY <2>2, ClientAssumption DEF Init, StressTyped, Rec, InOperation
    <2>4. Reported(stress) = {} /\ InFlight(stress) = {}
      BY <2>2 DEF Reported, InFlight
    <2>5. Cardinality({}) = 0
      BY FS_EmptySet
    <2>6. Taken = 0
      BY <2>5 DEF Init, Taken
    <2> QED
      BY <2>2, <2>3, <2>4, <2>5, <2>6 DEF Init, Counted, ErrorsCounted, SuccessesCounted, AnswersCounted,
         StressTyped
  <1> QED
    BY <1>1, <1>2, <1>4, <1>5, <1>6, <1>7, <1>8 DEF IInv, Typed

LEMMA IInvInductive == IInv /\ [Next]_vars => IInv'
  <1> SUFFICES ASSUME IInv, [Next]_vars  PROVE IInv'
    OBVIOUS
  <1>0. Typed /\ PhasesOK /\ TableOK /\ StressPhase /\ Counted
    BY DEF IInv, TableOK, Typed
  <1>1. ServiceTyped'
    BY <1>0, NextIsServiceStep, ServiceTypedKept DEF Typed
  <1>2. MainTyped'
    BY <1>0, MainTypedKept
  <1>3. TableOK'
    BY <1>0, TableInductive
  <1>4. PhasesOK'
    BY <1>0, PhasesInductive
  <1>5. StressTyped' /\ StressPhase' /\ Counted'
    BY <1>0, StressInductive
  <1> QED
    BY <1>1, <1>2, <1>3, <1>4, <1>5 DEF IInv, Typed, TableOK

LEMMA IInvAlways == Spec => []IInv
  BY IInvInitially, IInvInductive, PTL DEF Spec

\* The type invariant: every variable of the client, the counters of stress and the errors in
\* its channel (free_mode.go:701-780) included, has its type.
THEOREM TypeCorrect == Spec => []TypeOK
  <1>1. IInv => TypeOK
    <2> SUFFICES ASSUME IInv  PROVE TypeOK
      OBVIOUS
    <2>1. errCh \in 0 .. Room
      BY FiniteSets DEF IInv, Typed, StressTyped, Counted, ErrorsCounted
    <2> QED
      BY <2>1 DEF IInv, Typed, ServiceTyped, MainTyped, TableTyped, StressTyped, TypeOK, MainPoint,
         StressPoint, InOperation
  <1> QED
    BY <1>1, IInvAlways, PTL

\* Every open connection to the own server can be found again, in the table or with a
\* goroutine of stress at work, and the active connection is one of the table's
\* (test_client.go:462-511, free_mode.go:739-744).
THEOREM TableAlwaysMatchesConnections == Spec => []TableMatchesConnections
  <1>1. IInv => TableMatchesConnections
    BY DEF IInv
  <1> QED
    BY <1>1, IInvAlways, PTL

\* When Cleanup is over (test_client.go:440-457) nothing of the cluster is left, and no
\* handler has run on nodes that were stopped.
THEOREM CleanupAlwaysLeavesNothing == Spec => []CleanupLeavesNothing
  <1>1. IInv => CleanupLeavesNothing
    <2> SUFFICES ASSUME IInv  PROVE CleanupLeavesNothing
      OBVIOUS
    <2>1. nodes = "stopped" => \A c \in Conn : link[c] # "served"
      BY DEF IInv, PhasesOK
    <2>2. ASSUME MainAt("ended")
          PROVE  /\ ~up /\ nodes \in {"none", "stopped"}
                 /\ \A c \in Conn : ~client[c].open /\ link[c] \in {"none", "gone"}
      <3>1. ~up /\ nodes \in {"none", "stopped"}
        BY <2>2 DEF IInv, PhasesOK
      <3>2. \A c \in Conn : link[c] \in {"none", "gone"}
        BY <2>2, <3>1 DEF IInv, PhasesOK, Typed, ServiceTyped
      <3>3. Own = {}
        BY <2>2 DEF IInv, TableEmptied, MainAt, Own
      <3>4. \A c \in Conn : ~client[c].open
        BY <2>2, <3>3 DEF IInv, TableMatchesConnections, MainAt, Conn
      <3> QED
        BY <3>1, <3>2, <3>4
    <2> QED
      BY <2>1, <2>2 DEF CleanupLeavesNothing
  <1> QED
    BY <1>1, IInvAlways, PTL

\* What the stress command prints (free_mode.go:767-780) is true of what it did: an error for
\* every goroutine that gave up; never more successes than answers with SUCCESS and, one for
\* each goroutine, answers whose body was lost, which pass for SUCCESS; and without errors, on
\* running nodes, one or the other for every operation.
THEOREM StressAlwaysReportsRightly == Spec => []StressReport
  <1>1. IInv => StressReport
    <2> SUFFICES ASSUME IInv, MainAt("stress"), StressOver
          PROVE  /\ errCh = Cardinality(GaveUp)
                 /\ successCount <= Taken
                 /\ Taken > 0 => successCount > 0
                 /\ errCh = 0 /\ nodes = "running" => Taken = Cardinality(StressClient) * OpsPerClient
      BY DEF StressReport
    <2>0. /\ \A s \in StressClient : stress[s] \in Rec /\ stress[s].at = "over"
          /\ successCount \in Nat /\ errCh \in Nat /\ Taken \in Nat
      <3>1. Taken \in Nat
        BY TakenType DEF IInv, Typed, StressTyped
      <3> QED
        BY <3>1, RecOf DEF StressOver, IInv, Typed, StressTyped
    <2>1. Reported(stress) = GaveUp
      BY <2>0 DEF Reported, GaveUp
    <2>2. InFlight(stress) = {}
      BY <2>0 DEF InFlight
    <2>3. successCount <= Taken /\ (Taken > 0 => successCount > 0)
      BY <2>0, <2>2, FS_EmptySet DEF IInv, Counted, SuccessesCounted
    <2>4. errCh = Cardinality(GaveUp)
      BY <2>1 DEF IInv, Counted, ErrorsCounted
    <2>5. ASSUME errCh = 0, nodes = "running"
          PROVE  Taken = Cardinality(StressClient) * OpsPerClient
      <3>1. GaveUp = {}
        BY <2>1, <2>4, <2>5, FiniteSets, FS_EmptySet
      <3>2. \A s \in StressClient : Progress(stress[s]) = OpsPerClient
        BY <2>0, <3>1, ClientAssumption DEF GaveUp, Progress, Rec
      <3>3. DoneOps(stress) = Op
        BY <3>2, ClientAssumption DEF DoneOps, Op
      <3> QED
        BY <2>5, <3>3, FiniteSets DEF IInv, Counted, AnswersCounted, Room
    <2> QED
      BY <2>3, <2>4, <2>5
  <1> QED
    BY <1>1, IInvAlways, PTL
=============================================================================
