--------------------------- MODULE TCPServerProofs ---------------------------
(***************************************************************************)
(* Theorems about TCPServer for any number of connections, goroutines and  *)
(* listeners.                                                              *)
(***************************************************************************)
EXTENDS TCPServer, FiniteSetTheorems, SequenceTheorems, TLAPS

Call == {"start", "stop", "stop-nodes"}

AdminPoint == {"out", "listen", "publish", "spawn", "wait", "blocked", "released"}

LoopPoint == {"none", "read", "accept", "exited"}

ConnPoint == {"new", "backlog", "check", "header", "data", "handle-bare", "handle", "gone"}

Part == {"bare", "header", "body"}

MaybeListener == Listener \cup {NoListener}

-----------------------------------------------------------------------------
(***************************************************************************)
(* The inductive invariant, part by part.                                  *)
(***************************************************************************)

ServerTyped ==
  /\ running \in BOOLEAN /\ stopped \in BOOLEAN /\ nodesUp \in BOOLEAN
  /\ refused \in BOOLEAN /\ crashed \in BOOLEAN
  /\ listener \in MaybeListener
  /\ bound \in SUBSET Listener
  /\ wg \in Int

\* A goroutine in the middle of a call has that call still to return from.
AdminsTyped ==
  /\ admin \in [Admin -> [at : AdminPoint, calls : Seq(Call), mine : MaybeListener]]
  /\ \A a \in Admin : admin[a].at # "out" => admin[a].calls # <<>>

LoopsTyped == loop \in [Listener -> [at : LoopPoint, on : MaybeListener]]

ConnectionsTyped ==
  /\ conn \in [Conn -> [at : ConnPoint, on : MaybeListener]]
  /\ wire \in [Conn -> Seq(Part)]
  /\ client \in [Conn -> [open : BOOLEAN, sent : Int, owed : Int]]

Typed == ServerTyped /\ AdminsTyped /\ LoopsTyped /\ ConnectionsTyped

\* The WaitGroup counts the goroutines that will call Done.
Counted == wg = Alive

\* A listener is in one pair of hands: of the Start that made it, then of the server.
ListenersOK ==
  /\ \A a \in Admin : Holds(a) => /\ admin[a].mine \in Listener
                                  /\ loop[admin[a].mine].at = "none"
  /\ \A a, b \in Admin : Holds(a) /\ Holds(b) /\ admin[a].mine = admin[b].mine => a = b
  /\ \A a \in Admin : admin[a].at = "publish" => /\ admin[a].mine \in bound
                                                 /\ admin[a].mine # listener
  /\ listener \notin Unused
  /\ running => listener \in bound
  /\ ~AnyPort => \A k, l \in bound : k = l

\* What holds of the connection of c: while it waits its listener is open, a client is
\* owed what the handler has not read or is handling, and was sent for.
Whole(s) == {i \in 1 .. Len(s) : s[i] \in {"bare", "body"}}

Busy(c) == conn[c].at \in {"handle-bare", "handle"}

ConnectionOK(c) ==
  /\ conn[c].at = "new" => ~client[c].open /\ wire[c] = <<>>
  /\ conn[c].at = "backlog" => conn[c].on \in bound
  /\ client[c].owed = Cardinality(Whole(wire[c])) + (IF Busy(c) THEN 1 ELSE 0)
  /\ client[c].owed + (IF MidRequest(c) THEN 1 ELSE 0) <= client[c].sent

ConnectionsOK == \A c \in Conn : ConnectionOK(c)

\* A Stop that waits has closed stopChan.
StopsOK == \A a \in Admin : InStop(a) => stopped

IInv == /\ Typed /\ Counted /\ ListenersOK /\ ConnectionsOK /\ StopsOK /\ NoListenerLeaks

-----------------------------------------------------------------------------
(***************************************************************************)
(* What the helpers of the actions do to their variables.                  *)
(***************************************************************************)

\* Goroutine a alone moves, to point p, with these calls left; its listener stays.
AdminMoves(a, p, calls) ==
  /\ admin'[a] = [admin[a] EXCEPT !.at = p, !.calls = calls]
  /\ admin'[a].at = p /\ admin'[a].calls = calls /\ admin'[a].mine = admin[a].mine
  /\ \A b \in Admin \ {a} : admin'[b] = admin[b]

LEMMA GoOnMoves ==
  ASSUME AdminsTyped, NEW a \in Admin, NEW p \in AdminPoint, GoOn(a, p), admin[a].calls # <<>>
  PROVE  AdminsTyped' /\ AdminMoves(a, p, admin[a].calls)
<1>1. admin' = [admin EXCEPT ![a].at = p]
  BY DEF GoOn
<1>2. admin \in [Admin -> [at : AdminPoint, calls : Seq(Call), mine : MaybeListener]]
  BY DEF AdminsTyped
<1>3. AdminMoves(a, p, admin[a].calls)
  BY <1>1, <1>2 DEF AdminMoves
<1>4. admin' \in [Admin -> [at : AdminPoint, calls : Seq(Call), mine : MaybeListener]]
  BY <1>1, <1>2
<1>5. \A b \in Admin : admin'[b].at # "out" => admin'[b].calls # <<>>
  BY <1>3 DEF AdminMoves, AdminsTyped
<1> QED BY <1>3, <1>4, <1>5 DEF AdminsTyped, MaybeListener, Listener

LEMMA ReturnMoves ==
  ASSUME AdminsTyped, NEW a \in Admin, Return(a), admin[a].calls # <<>>
  PROVE  AdminsTyped' /\ AdminMoves(a, "out", Tail(admin[a].calls))
<1>1. admin' = [admin EXCEPT ![a].at = "out", ![a].calls = Tail(@)]
  BY DEF Return
<1>2. admin \in [Admin -> [at : AdminPoint, calls : Seq(Call), mine : MaybeListener]]
  BY DEF AdminsTyped
<1>3. Tail(admin[a].calls) \in Seq(Call) /\ "out" \in AdminPoint
  <2>1. admin[a].calls \in Seq(Call)
    BY <1>2
  <2> QED BY <2>1, HeadTailProperties DEF AdminPoint
<1>4. AdminMoves(a, "out", Tail(admin[a].calls))
  BY <1>1, <1>2 DEF AdminMoves
<1>5. admin' \in [Admin -> [at : AdminPoint, calls : Seq(Call), mine : MaybeListener]]
  BY <1>1, <1>2, <1>3
<1>6. \A b \in Admin : admin'[b].at # "out" => admin'[b].calls # <<>>
  BY <1>4 DEF AdminMoves, AdminsTyped
<1> QED BY <1>4, <1>5, <1>6 DEF AdminsTyped, MaybeListener, Listener

LEMMA GiveUpMoves ==
  ASSUME AdminsTyped, NEW a \in Admin, GiveUp(a)
  PROVE  AdminsTyped' /\ AdminMoves(a, "out", <<>>)
<1>1. admin' = [admin EXCEPT ![a].at = "out", ![a].calls = <<>>]
  BY DEF GiveUp
<1>2. admin \in [Admin -> [at : AdminPoint, calls : Seq(Call), mine : MaybeListener]]
  BY DEF AdminsTyped
<1>3. <<>> \in Seq(Call) /\ "out" \in AdminPoint
  BY DEF AdminPoint
<1>4. AdminMoves(a, "out", <<>>)
  BY <1>1, <1>2 DEF AdminMoves
<1>5. admin' \in [Admin -> [at : AdminPoint, calls : Seq(Call), mine : MaybeListener]]
  BY <1>1, <1>2, <1>3
<1>6. \A b \in Admin : admin'[b].at # "out" => admin'[b].calls # <<>>
  BY <1>4 DEF AdminMoves, AdminsTyped
<1> QED BY <1>4, <1>5, <1>6 DEF AdminsTyped, MaybeListener, Listener

\* Done may release goroutines that wait, and does nothing else to them.
Releases ==
  \A b \in Admin : /\ admin'[b].calls = admin[b].calls /\ admin'[b].mine = admin[b].mine
                   /\ \/ admin'[b].at = admin[b].at
                      \/ admin[b].at = "blocked" /\ admin'[b].at = "released"

LEMMA DoneReleases ==
  ASSUME AdminsTyped, Done
  PROVE  AdminsTyped' /\ Releases
<1> DEFINE AdminState == [at : AdminPoint, calls : Seq(Call), mine : MaybeListener]
<1>1. admin' = [b \in Admin |-> IF wg = 1 /\ admin[b].at = "blocked"
                                THEN [admin[b] EXCEPT !.at = "released"] ELSE admin[b]]
  BY DEF Done
<1>2. admin \in [Admin -> AdminState]
  BY DEF AdminsTyped
<1>3. ASSUME NEW b \in Admin
      PROVE  /\ admin'[b] \in AdminState
             /\ admin'[b].calls = admin[b].calls /\ admin'[b].mine = admin[b].mine
             /\ \/ admin'[b].at = admin[b].at
                \/ admin[b].at = "blocked" /\ admin'[b].at = "released"
  <2>1. admin[b] \in AdminState
    BY <1>2
  <2>2. CASE wg = 1 /\ admin[b].at = "blocked"
    <3>1. admin'[b] = [admin[b] EXCEPT !.at = "released"]
      BY <1>1, <2>2
    <3> QED BY <2>1, <2>2, <3>1 DEF AdminPoint
  <2>3. CASE ~ (wg = 1 /\ admin[b].at = "blocked")
    BY <1>1, <2>1, <2>3
  <2> QED BY <2>2, <2>3
<1>4. admin' \in [Admin -> AdminState]
  <2> HIDE DEF AdminState
  <2>1. admin' = [b \in Admin |-> admin'[b]]
    BY <1>1
  <2> QED BY <1>3, <2>1
<1>5. \A b \in Admin : admin'[b].at # "out" => admin'[b].calls # <<>>
  BY <1>3 DEF AdminsTyped
<1> QED BY <1>3, <1>4, <1>5 DEF AdminsTyped, MaybeListener, Listener, Releases

\* Connection c alone moves, to point p.
LEMMA MovesMoves ==
  ASSUME ConnectionsTyped, NEW c \in Conn, NEW p \in ConnPoint, Moves(c, p)
  PROVE  /\ conn' \in [Conn -> [at : ConnPoint, on : MaybeListener]]
         /\ conn'[c].at = p /\ conn'[c].on = conn[c].on
         /\ \A d \in Conn \ {c} : conn'[d] = conn[d]
<1>1. conn' = [conn EXCEPT ![c].at = p]
  BY DEF Moves
<1>2. conn \in [Conn -> [at : ConnPoint, on : MaybeListener]]
  BY DEF ConnectionsTyped
<1> QED BY <1>1, <1>2

-----------------------------------------------------------------------------
(***************************************************************************)
(* Every variable keeps its type.                                          *)
(***************************************************************************)

LEMMA AdminsTypedInductive == Typed /\ [Next]_vars => AdminsTyped'
<1> SUFFICES ASSUME Typed, [Next]_vars PROVE AdminsTyped'
  OBVIOUS
<1> USE DEF Typed
<1>1. ASSUME NEW a \in Admin, StartChecks(a) PROVE AdminsTyped'
  <2>1. CASE running
    BY <1>1, <2>1, GiveUpMoves DEF StartChecks
  <2>2. CASE ~running
    BY <1>1, <2>2, GoOnMoves DEF StartChecks, Calls, AdminPoint
  <2> QED BY <2>1, <2>2
<1>2. ASSUME NEW a \in Admin, StopCloses(a) PROVE AdminsTyped'
  <2>1. CASE running
    BY <1>2, <2>1, GoOnMoves DEF StopCloses, Calls, AdminPoint
  <2>2. CASE ~running
    BY <1>2, <2>2, ReturnMoves DEF StopCloses, Calls
  <2> QED BY <2>1, <2>2
<1>3. ASSUME NEW a \in Admin, StopNodes(a) PROVE AdminsTyped'
  BY <1>3, ReturnMoves DEF StopNodes, Calls
<1>4. ASSUME NEW a \in Admin, Listen(a) PROVE AdminsTyped'
  <2>1. CASE ~AnyPort /\ bound # {}
    BY <1>4, <2>1, GiveUpMoves DEF Listen
  <2>2. CASE ~(~AnyPort /\ bound # {})
    <3>1. PICK l \in Unused : admin' = [admin EXCEPT ![a].at = "publish", ![a].mine = l]
      BY <1>4, <2>2 DEF Listen
    <3>2. l \in MaybeListener /\ admin[a].calls # <<>> /\ "publish" \in AdminPoint
      BY <1>4 DEF Listen, Unused, AdminsTyped, MaybeListener, AdminPoint
    <3>3. admin \in [Admin -> [at : AdminPoint, calls : Seq(Call), mine : MaybeListener]]
      BY DEF AdminsTyped
    <3>4. admin' \in [Admin -> [at : AdminPoint, calls : Seq(Call), mine : MaybeListener]]
      BY <3>1, <3>2, <3>3
    <3>5. \A b \in Admin : admin'[b].calls = admin[b].calls /\ (b # a => admin'[b] = admin[b])
      BY <3>1, <3>3
    <3> QED BY <3>2, <3>4, <3>5 DEF AdminsTyped, MaybeListener, Listener
  <2> QED BY <2>1, <2>2
<1>5. ASSUME NEW a \in Admin, Publish(a) PROVE AdminsTyped'
  BY <1>5, GoOnMoves DEF Publish, AdminsTyped, AdminPoint
<1>6. ASSUME NEW a \in Admin, Spawn(a) PROVE AdminsTyped'
  BY <1>6, ReturnMoves DEF Spawn, AdminsTyped
<1>7. ASSUME NEW a \in Admin, Wait(a) PROVE AdminsTyped'
  <2>1. CASE wg = 0
    BY <1>7, <2>1, ReturnMoves DEF Wait, AdminsTyped
  <2>2. CASE wg # 0
    BY <1>7, <2>2, GoOnMoves DEF Wait, AdminsTyped, AdminPoint
  <2> QED BY <2>1, <2>2
<1>8. ASSUME NEW a \in Admin, StopReturns(a) PROVE AdminsTyped'
  BY <1>8, ReturnMoves DEF StopReturns, AdminsTyped
<1>9. ASSUME NEW l \in Listener, LoopReadsListener(l) PROVE AdminsTyped'
  BY <1>9 DEF LoopReadsListener, AdminsTyped, MaybeListener, Listener
<1>10. ASSUME NEW l \in Listener, LoopAccepts(l) PROVE AdminsTyped'
  BY <1>10 DEF LoopAccepts, AdminsTyped, MaybeListener, Listener
<1>11. ASSUME NEW l \in Listener, LoopFails(l) PROVE AdminsTyped'
  BY <1>11, DoneReleases DEF LoopFails
<1>12. ASSUME NEW c \in Conn, HandlerChecks(c) PROVE AdminsTyped'
  <2>1. CASE Done
    BY <2>1, DoneReleases
  <2>2. CASE UNCHANGED admin
    BY <2>2 DEF AdminsTyped, MaybeListener, Listener
  <2> QED BY <1>12, <2>1, <2>2 DEF HandlerChecks, Leaves
<1>13. ASSUME NEW c \in Conn, HandlerReads(c) PROVE AdminsTyped'
  <2>1. CASE Done
    BY <2>1, DoneReleases
  <2>2. CASE UNCHANGED admin
    BY <2>2 DEF AdminsTyped, MaybeListener, Listener
  <2> QED BY <1>13, <2>1, <2>2 DEF HandlerReads, Leaves
<1>14. ASSUME NEW c \in Conn, HandlerAnswers(c) PROVE AdminsTyped'
  <2>1. CASE Done
    BY <2>1, DoneReleases
  <2>2. CASE UNCHANGED admin
    BY <2>2 DEF AdminsTyped, MaybeListener, Listener
  <2> QED BY <1>14, <2>1, <2>2 DEF HandlerAnswers, Leaves
<1>15. ASSUME NEW c \in Conn, Connect(c) PROVE AdminsTyped'
  BY <1>15 DEF Connect, AdminsTyped, MaybeListener, Listener
<1>16. ASSUME NEW c \in Conn, SendBody(c) PROVE AdminsTyped'
  BY <1>16 DEF SendBody, AdminsTyped, MaybeListener, Listener
<1>17. ASSUME NEW c \in Conn, ClientCloses(c) PROVE AdminsTyped'
  BY <1>17 DEF ClientCloses, AdminsTyped, MaybeListener, Listener
<1>18. ASSUME NEW c \in Conn, NEW part \in {"bare", "header"},
             SendHeader(c, part)
      PROVE  AdminsTyped'
  BY <1>18 DEF SendHeader, AdminsTyped, MaybeListener, Listener
<1>19. CASE UNCHANGED vars
  BY <1>19 DEF vars, AdminsTyped, MaybeListener, Listener
<1> QED BY <1>1, <1>2, <1>3, <1>4, <1>5, <1>6, <1>7, <1>8, <1>9, <1>10, <1>11, <1>12,
   <1>13, <1>14, <1>15, <1>16, <1>17, <1>18, <1>19 DEF Next, Continues, Accepting,
   Serving, Client

LEMMA ServerTypedInductive == Typed /\ [Next]_vars => ServerTyped'
<1> SUFFICES ASSUME Typed, [Next]_vars PROVE ServerTyped'
  OBVIOUS
<1> USE DEF Typed, ServerTyped, MaybeListener, Listener, serverVars, nodeVars, NoPanic
<1>1. ASSUME NEW a \in Admin, StartChecks(a) PROVE ServerTyped'
  BY <1>1 DEF StartChecks
<1>2. ASSUME NEW a \in Admin, StopCloses(a) PROVE ServerTyped'
  BY <1>2 DEF StopCloses
<1>3. ASSUME NEW a \in Admin, StopNodes(a) PROVE ServerTyped'
  BY <1>3 DEF StopNodes
<1>4. ASSUME NEW a \in Admin, Listen(a) PROVE ServerTyped'
  BY <1>4 DEF Listen, Unused
<1>5. ASSUME NEW a \in Admin, Publish(a) PROVE ServerTyped'
  <2>1. admin[a].mine \in MaybeListener
    BY DEF AdminsTyped
  <2> QED BY <1>5, <2>1 DEF Publish
<1>6. ASSUME NEW a \in Admin, Spawn(a) PROVE ServerTyped'
  BY <1>6 DEF Spawn
<1>7. ASSUME NEW a \in Admin, Wait(a) PROVE ServerTyped'
  BY <1>7 DEF Wait
<1>8. ASSUME NEW a \in Admin, StopReturns(a) PROVE ServerTyped'
  BY <1>8 DEF StopReturns
<1>9. ASSUME NEW l \in Listener, LoopReadsListener(l) PROVE ServerTyped'
  BY <1>9 DEF LoopReadsListener
<1>10. ASSUME NEW l \in Listener, LoopAccepts(l) PROVE ServerTyped'
  BY <1>10 DEF LoopAccepts
<1>11. ASSUME NEW l \in Listener, LoopFails(l) PROVE ServerTyped'
  BY <1>11 DEF LoopFails, Done
<1>12. ASSUME NEW c \in Conn, HandlerChecks(c) PROVE ServerTyped'
  BY <1>12 DEF HandlerChecks, Leaves, Done
<1>13. ASSUME NEW c \in Conn, HandlerReads(c) PROVE ServerTyped'
  BY <1>13 DEF HandlerReads, Leaves, Done
<1>14. ASSUME NEW c \in Conn, HandlerAnswers(c) PROVE ServerTyped'
  BY <1>14 DEF HandlerAnswers, Leaves, Done
<1>15. ASSUME NEW c \in Conn, Connect(c) PROVE ServerTyped'
  BY <1>15 DEF Connect
<1>16. ASSUME NEW c \in Conn, SendBody(c) PROVE ServerTyped'
  BY <1>16 DEF SendBody
<1>17. ASSUME NEW c \in Conn, ClientCloses(c) PROVE ServerTyped'
  BY <1>17 DEF ClientCloses
<1>18. ASSUME NEW c \in Conn, NEW part \in {"bare", "header"},
             SendHeader(c, part)
      PROVE  ServerTyped'
  BY <1>18 DEF SendHeader
<1>19. CASE UNCHANGED vars
  BY <1>19 DEF vars
<1> QED BY <1>1, <1>2, <1>3, <1>4, <1>5, <1>6, <1>7, <1>8, <1>9, <1>10, <1>11, <1>12,
   <1>13, <1>14, <1>15, <1>16, <1>17, <1>18, <1>19 DEF Next, Continues, Accepting,
   Serving, Client

LEMMA LoopsTypedInductive == Typed /\ [Next]_vars => LoopsTyped'
<1> SUFFICES ASSUME Typed, [Next]_vars PROVE LoopsTyped'
  OBVIOUS
<1> USE DEF Typed, LoopsTyped, LoopPoint, MaybeListener, Listener
<1>1. ASSUME NEW a \in Admin, StartChecks(a) PROVE LoopsTyped'
  BY <1>1 DEF StartChecks
<1>2. ASSUME NEW a \in Admin, StopCloses(a) PROVE LoopsTyped'
  BY <1>2 DEF StopCloses
<1>3. ASSUME NEW a \in Admin, StopNodes(a) PROVE LoopsTyped'
  BY <1>3 DEF StopNodes
<1>4. ASSUME NEW a \in Admin, Listen(a) PROVE LoopsTyped'
  BY <1>4 DEF Listen
<1>5. ASSUME NEW a \in Admin, Publish(a) PROVE LoopsTyped'
  BY <1>5 DEF Publish
<1>6. ASSUME NEW a \in Admin, Spawn(a) PROVE LoopsTyped'
  BY <1>6 DEF Spawn
<1>7. ASSUME NEW a \in Admin, Wait(a) PROVE LoopsTyped'
  BY <1>7 DEF Wait
<1>8. ASSUME NEW a \in Admin, StopReturns(a) PROVE LoopsTyped'
  BY <1>8 DEF StopReturns
<1>9. ASSUME NEW l \in Listener, LoopReadsListener(l) PROVE LoopsTyped'
  BY <1>9 DEF LoopReadsListener, ServerTyped
<1>10. ASSUME NEW l \in Listener, LoopAccepts(l) PROVE LoopsTyped'
  BY <1>10 DEF LoopAccepts
<1>11. ASSUME NEW l \in Listener, LoopFails(l) PROVE LoopsTyped'
  BY <1>11 DEF LoopFails
<1>12. ASSUME NEW c \in Conn, HandlerChecks(c) PROVE LoopsTyped'
  BY <1>12 DEF HandlerChecks
<1>13. ASSUME NEW c \in Conn, HandlerReads(c) PROVE LoopsTyped'
  BY <1>13 DEF HandlerReads
<1>14. ASSUME NEW c \in Conn, HandlerAnswers(c) PROVE LoopsTyped'
  BY <1>14 DEF HandlerAnswers
<1>15. ASSUME NEW c \in Conn, Connect(c) PROVE LoopsTyped'
  BY <1>15 DEF Connect
<1>16. ASSUME NEW c \in Conn, SendBody(c) PROVE LoopsTyped'
  BY <1>16 DEF SendBody
<1>17. ASSUME NEW c \in Conn, ClientCloses(c) PROVE LoopsTyped'
  BY <1>17 DEF ClientCloses
<1>18. ASSUME NEW c \in Conn, NEW part \in {"bare", "header"},
             SendHeader(c, part)
      PROVE  LoopsTyped'
  BY <1>18 DEF SendHeader
<1>19. CASE UNCHANGED vars
  BY <1>19 DEF vars
<1> QED BY <1>1, <1>2, <1>3, <1>4, <1>5, <1>6, <1>7, <1>8, <1>9, <1>10, <1>11, <1>12,
   <1>13, <1>14, <1>15, <1>16, <1>17, <1>18, <1>19 DEF Next, Continues, Accepting,
   Serving, Client

LEMMA ConnectionsTypedInductive == Typed /\ [Next]_vars => ConnectionsTyped'
<1> SUFFICES ASSUME Typed, [Next]_vars PROVE ConnectionsTyped'
  OBVIOUS
<1>0. /\ ConnectionsTyped
      /\ conn \in [Conn -> [at : ConnPoint, on : MaybeListener]]
      /\ wire \in [Conn -> Seq(Part)]
      /\ client \in [Conn -> [open : BOOLEAN, sent : Int, owed : Int]]
  BY DEF Typed, ConnectionsTyped
<1> USE DEF MaybeListener, Listener
<1>1. ASSUME NEW a \in Admin, StartChecks(a) PROVE ConnectionsTyped'
  BY <1>0, <1>1 DEF StartChecks, ConnectionsTyped, clientVars
<1>2. ASSUME NEW a \in Admin, StopCloses(a) PROVE ConnectionsTyped'
  <2>1. CASE ~running
    BY <1>0, <1>2, <2>1 DEF StopCloses, ConnectionsTyped, clientVars
  <2>2. CASE running
    <3>1. conn' = [c \in Conn |-> IF conn[c].at = "backlog" /\ conn[c].on = listener
                                   THEN [conn[c] EXCEPT !.at = "gone"] ELSE conn[c]]
      BY <1>2, <2>2 DEF StopCloses
    <3>2. \A c \in Conn : [conn[c] EXCEPT !.at = "gone"] \in [at : ConnPoint, on : MaybeListener]
      BY <1>0 DEF ConnPoint
    <3>3. conn' \in [Conn -> [at : ConnPoint, on : MaybeListener]]
      BY <1>0, <3>1, <3>2
    <3> QED BY <1>0, <1>2, <3>3 DEF StopCloses, ConnectionsTyped, clientVars
  <2> QED BY <2>1, <2>2
<1>3. ASSUME NEW a \in Admin, StopNodes(a) PROVE ConnectionsTyped'
  BY <1>0, <1>3 DEF StopNodes, ConnectionsTyped, clientVars
<1>4. ASSUME NEW a \in Admin, Listen(a) PROVE ConnectionsTyped'
  BY <1>0, <1>4 DEF Listen, ConnectionsTyped, clientVars
<1>5. ASSUME NEW a \in Admin, Publish(a) PROVE ConnectionsTyped'
  BY <1>0, <1>5 DEF Publish, ConnectionsTyped, clientVars
<1>6. ASSUME NEW a \in Admin, Spawn(a) PROVE ConnectionsTyped'
  BY <1>0, <1>6 DEF Spawn, ConnectionsTyped, clientVars
<1>7. ASSUME NEW a \in Admin, Wait(a) PROVE ConnectionsTyped'
  BY <1>0, <1>7 DEF Wait, ConnectionsTyped, clientVars
<1>8. ASSUME NEW a \in Admin, StopReturns(a) PROVE ConnectionsTyped'
  BY <1>0, <1>8 DEF StopReturns, ConnectionsTyped, clientVars
<1>9. ASSUME NEW l \in Listener, LoopReadsListener(l) PROVE ConnectionsTyped'
  BY <1>0, <1>9 DEF LoopReadsListener, ConnectionsTyped, clientVars
<1>10. ASSUME NEW l \in Listener, LoopAccepts(l) PROVE ConnectionsTyped'
  <2>1. PICK c \in Conn : conn' = [conn EXCEPT ![c].at = "check"]
    BY <1>10 DEF LoopAccepts
  <2>2. conn' \in [Conn -> [at : ConnPoint, on : MaybeListener]]
    BY <1>0, <2>1 DEF ConnPoint
  <2> QED BY <1>0, <1>10, <2>2 DEF LoopAccepts, ConnectionsTyped, clientVars
<1>11. ASSUME NEW l \in Listener, LoopFails(l) PROVE ConnectionsTyped'
  BY <1>0, <1>11 DEF LoopFails, ConnectionsTyped, clientVars
<1>12. ASSUME NEW c \in Conn, HandlerChecks(c) PROVE ConnectionsTyped'
  <2>1. conn' \in [Conn -> [at : ConnPoint, on : MaybeListener]]
    BY <1>0, <1>12, MovesMoves DEF HandlerChecks, Leaves, ConnPoint
  <2> QED BY <1>0, <1>12, <2>1 DEF HandlerChecks, ConnectionsTyped, clientVars
<1>13. ASSUME NEW c \in Conn, HandlerReads(c) PROVE ConnectionsTyped'
  <2>1. CASE wire[c] = <<>>
    <3>1. conn' \in [Conn -> [at : ConnPoint, on : MaybeListener]]
      BY <1>0, <1>13, <2>1, MovesMoves DEF HandlerReads, Leaves, ConnPoint
    <3> QED BY <1>0, <1>13, <2>1, <3>1 DEF HandlerReads, ConnectionsTyped
  <2>2. CASE wire[c] # <<>>
    <3>1. Head(wire[c]) \in Part /\ Tail(wire[c]) \in Seq(Part)
      BY <1>0, <2>2, HeadTailProperties
    <3>2. \E p \in ConnPoint : Moves(c, p)
      BY <1>13, <2>2, <3>1 DEF HandlerReads, ConnPoint, Part
    <3>3. conn' \in [Conn -> [at : ConnPoint, on : MaybeListener]]
      BY <1>0, <3>2, MovesMoves
    <3>4. wire' \in [Conn -> Seq(Part)]
      BY <1>0, <1>13, <2>2, <3>1 DEF HandlerReads
    <3> QED BY <1>0, <1>13, <3>3, <3>4 DEF HandlerReads, ConnectionsTyped
  <2> QED BY <2>1, <2>2
<1>14. ASSUME NEW c \in Conn, HandlerAnswers(c) PROVE ConnectionsTyped'
  <2>1. conn' \in [Conn -> [at : ConnPoint, on : MaybeListener]]
    BY <1>0, <1>14, MovesMoves DEF HandlerAnswers, Leaves, ConnPoint
  <2>2. client' \in [Conn -> [open : BOOLEAN, sent : Int, owed : Int]]
    <3>1. client' = [client EXCEPT ![c].owed = client[c].owed - 1]
      BY <1>14 DEF HandlerAnswers
    <3>2. client[c].owed - 1 \in Int
      BY <1>0
    <3> QED BY <1>0, <3>1, <3>2
  <2> QED BY <1>0, <1>14, <2>1, <2>2 DEF HandlerAnswers, ConnectionsTyped
<1>15. ASSUME NEW c \in Conn, Connect(c) PROVE ConnectionsTyped'
  <2>1. PICK l \in bound : conn' = [conn EXCEPT ![c] = [at |-> "backlog", on |-> l]]
    BY <1>15 DEF Connect
  <2>2. conn' \in [Conn -> [at : ConnPoint, on : MaybeListener]]
    BY <1>0, <2>1 DEF Typed, ServerTyped, ConnPoint
  <2>3. client' \in [Conn -> [open : BOOLEAN, sent : Int, owed : Int]]
    BY <1>0, <1>15 DEF Connect
  <2> QED BY <1>0, <1>15, <2>2, <2>3 DEF Connect, ConnectionsTyped
<1>16. ASSUME NEW c \in Conn, SendBody(c) PROVE ConnectionsTyped'
  <2>1. Append(wire[c], "body") \in Seq(Part)
    BY <1>0, AppendProperties DEF Part
  <2>2. wire' \in [Conn -> Seq(Part)]
    BY <1>0, <1>16, <2>1 DEF SendBody
  <2>3. client' \in [Conn -> [open : BOOLEAN, sent : Int, owed : Int]]
    <3>1. client' = [client EXCEPT ![c].owed = client[c].owed + 1]
      BY <1>16 DEF SendBody
    <3>2. client[c].owed + 1 \in Int /\ client[c].sent + 1 \in Int
      BY <1>0
    <3> QED BY <1>0, <3>1, <3>2
  <2> QED BY <1>0, <1>16, <2>2, <2>3 DEF SendBody, ConnectionsTyped
<1>17. ASSUME NEW c \in Conn, ClientCloses(c) PROVE ConnectionsTyped'
  <2>1. client' \in [Conn -> [open : BOOLEAN, sent : Int, owed : Int]]
    BY <1>0, <1>17 DEF ClientCloses
  <2> QED BY <1>0, <1>17, <2>1 DEF ClientCloses, ConnectionsTyped
<1>18. ASSUME NEW c \in Conn, NEW part \in {"bare", "header"},
             SendHeader(c, part)
      PROVE  ConnectionsTyped'
  <2>1. Append(wire[c], part) \in Seq(Part)
    BY <1>0, AppendProperties DEF Part
  <2>2. wire' \in [Conn -> Seq(Part)]
    BY <1>0, <1>18, <2>1 DEF SendHeader
  <2>3. client' \in [Conn -> [open : BOOLEAN, sent : Int, owed : Int]]
    <3>1. client' = [client EXCEPT ![c].sent = client[c].sent + 1,
                                   ![c].owed = IF part = "bare" THEN client[c].owed + 1
                                               ELSE client[c].owed]
      BY <1>18 DEF SendHeader
    <3>2. client[c].owed + 1 \in Int /\ client[c].sent + 1 \in Int
      BY <1>0
    <3> QED BY <1>0, <3>1, <3>2
  <2> QED BY <1>0, <1>18, <2>2, <2>3 DEF SendHeader, ConnectionsTyped
<1>19. CASE UNCHANGED vars
  BY <1>0, <1>19 DEF vars, ConnectionsTyped
<1> QED BY <1>1, <1>2, <1>3, <1>4, <1>5, <1>6, <1>7, <1>8, <1>9, <1>10, <1>11, <1>12,
   <1>13, <1>14, <1>15, <1>16, <1>17, <1>18, <1>19 DEF Next, Continues, Accepting,
   Serving, Client

LEMMA TypedInductive == Typed /\ [Next]_vars => Typed'
BY ServerTypedInductive, AdminsTypedInductive, LoopsTypedInductive, ConnectionsTypedInductive
   DEF Typed

-----------------------------------------------------------------------------
(***************************************************************************)
(* A Stop that waits has closed stopChan.                                  *)
(***************************************************************************)

\* A goroutine moves to a point where it is not in Stop.
LEMMA MovesOutOfStop ==
  ASSUME Typed, StopsOK, NEW a \in Admin, NEW p, NEW calls, AdminMoves(a, p, calls),
         stopped => stopped',
         p \in {"wait", "blocked", "released"} => stopped'
  PROVE  StopsOK'
BY DEF StopsOK, InStop, AdminMoves

LEMMA StopsOKInductive == Typed /\ StopsOK /\ [Next]_vars => StopsOK'
<1> SUFFICES ASSUME Typed, StopsOK, [Next]_vars PROVE StopsOK'
  OBVIOUS
<1>0. AdminsTyped /\ stopped \in BOOLEAN
  BY DEF Typed, ServerTyped
<1> USE DEF serverVars
<1>1. ASSUME NEW a \in Admin, StartChecks(a) PROVE StopsOK'
  <2>1. CASE running
    BY <1>0, <1>1, <2>1, GiveUpMoves, MovesOutOfStop DEF StartChecks
  <2>2. CASE ~running
    <3>1. AdminMoves(a, "listen", admin[a].calls)
      BY <1>0, <1>1, <2>2, GoOnMoves DEF StartChecks, Calls, AdminPoint
    <3> QED BY <1>1, <3>1, MovesOutOfStop DEF StartChecks
  <2> QED BY <2>1, <2>2
<1>2. ASSUME NEW a \in Admin, StopCloses(a) PROVE StopsOK'
  <2>1. CASE running
    <3>1. AdminMoves(a, "wait", admin[a].calls) /\ stopped'
      BY <1>0, <1>2, <2>1, GoOnMoves DEF StopCloses, Calls, AdminPoint
    <3> QED BY <3>1, MovesOutOfStop
  <2>2. CASE ~running
    <3>1. AdminMoves(a, "out", Tail(admin[a].calls)) /\ stopped' = stopped
      BY <1>0, <1>2, <2>2, ReturnMoves DEF StopCloses, Calls
    <3> QED BY <3>1, MovesOutOfStop
  <2> QED BY <2>1, <2>2
<1>3. ASSUME NEW a \in Admin, StopNodes(a) PROVE StopsOK'
  <2>1. AdminMoves(a, "out", Tail(admin[a].calls)) /\ stopped' = stopped
    BY <1>0, <1>3, ReturnMoves DEF StopNodes, Calls
  <2> QED BY <2>1, MovesOutOfStop
<1>4. ASSUME NEW a \in Admin, Listen(a) PROVE StopsOK'
  <2>1. CASE ~AnyPort /\ bound # {}
    BY <1>0, <1>4, <2>1, GiveUpMoves, MovesOutOfStop DEF Listen
  <2>2. CASE ~(~AnyPort /\ bound # {})
    BY <1>0, <1>4, <2>2 DEF Listen, StopsOK, InStop, AdminsTyped
  <2> QED BY <2>1, <2>2
<1>5. ASSUME NEW a \in Admin, Publish(a) PROVE StopsOK'
  <2>1. AdminMoves(a, "spawn", admin[a].calls) /\ stopped' = stopped
    BY <1>0, <1>5, GoOnMoves DEF Publish, AdminsTyped, AdminPoint
  <2> QED BY <2>1, MovesOutOfStop
<1>6. ASSUME NEW a \in Admin, Spawn(a) PROVE StopsOK'
  <2>1. AdminMoves(a, "out", Tail(admin[a].calls)) /\ stopped' = stopped
    BY <1>0, <1>6, ReturnMoves DEF Spawn, AdminsTyped
  <2> QED BY <2>1, MovesOutOfStop
<1>7. ASSUME NEW a \in Admin, Wait(a) PROVE StopsOK'
  <2>1. stopped' = stopped /\ stopped
    BY <1>7 DEF Wait, StopsOK, InStop
  <2>2. CASE wg = 0
    <3>1. AdminMoves(a, "out", Tail(admin[a].calls))
      BY <1>0, <1>7, <2>2, ReturnMoves DEF Wait, AdminsTyped
    <3> QED BY <2>1, <3>1, MovesOutOfStop
  <2>3. CASE wg # 0
    <3>1. AdminMoves(a, "blocked", admin[a].calls)
      BY <1>0, <1>7, <2>3, GoOnMoves DEF Wait, AdminsTyped, AdminPoint
    <3> QED BY <2>1, <3>1, MovesOutOfStop
  <2> QED BY <2>2, <2>3
<1>8. ASSUME NEW a \in Admin, StopReturns(a) PROVE StopsOK'
  <2>1. AdminMoves(a, "out", Tail(admin[a].calls)) /\ stopped' = stopped
    BY <1>0, <1>8, ReturnMoves DEF StopReturns, AdminsTyped
  <2> QED BY <2>1, MovesOutOfStop
<1>9. ASSUME NEW l \in Listener, LoopReadsListener(l) PROVE StopsOK'
  BY <1>9 DEF LoopReadsListener, StopsOK, InStop
<1>10. ASSUME NEW l \in Listener, LoopAccepts(l) PROVE StopsOK'
  BY <1>10 DEF LoopAccepts, StopsOK, InStop
<1>11. ASSUME NEW l \in Listener, LoopFails(l) PROVE StopsOK'
  BY <1>0, <1>11, DoneReleases DEF LoopFails, StopsOK, InStop, Releases
<1>12. ASSUME NEW c \in Conn, HandlerChecks(c) PROVE StopsOK'
  <2>1. stopped' = stopped /\ (Done \/ UNCHANGED admin)
    BY <1>12 DEF HandlerChecks, Leaves
  <2>2. CASE Done
    BY <1>0, <2>1, <2>2, DoneReleases DEF StopsOK, InStop, Releases
  <2>3. CASE UNCHANGED admin
    BY <2>1, <2>3 DEF StopsOK, InStop
  <2> QED BY <2>1, <2>2, <2>3
<1>13. ASSUME NEW c \in Conn, HandlerReads(c) PROVE StopsOK'
  <2>1. stopped' = stopped /\ (Done \/ UNCHANGED admin)
    BY <1>13 DEF HandlerReads, Leaves
  <2>2. CASE Done
    BY <1>0, <2>1, <2>2, DoneReleases DEF StopsOK, InStop, Releases
  <2>3. CASE UNCHANGED admin
    BY <2>1, <2>3 DEF StopsOK, InStop
  <2> QED BY <2>1, <2>2, <2>3
<1>14. ASSUME NEW c \in Conn, HandlerAnswers(c) PROVE StopsOK'
  <2>1. stopped' = stopped /\ (Done \/ UNCHANGED admin)
    BY <1>14 DEF HandlerAnswers, Leaves
  <2>2. CASE Done
    BY <1>0, <2>1, <2>2, DoneReleases DEF StopsOK, InStop, Releases
  <2>3. CASE UNCHANGED admin
    BY <2>1, <2>3 DEF StopsOK, InStop
  <2> QED BY <2>1, <2>2, <2>3
<1>15. ASSUME NEW c \in Conn, Connect(c) PROVE StopsOK'
  BY <1>15 DEF Connect, StopsOK, InStop
<1>16. ASSUME NEW c \in Conn, SendBody(c) PROVE StopsOK'
  BY <1>16 DEF SendBody, StopsOK, InStop
<1>17. ASSUME NEW c \in Conn, ClientCloses(c) PROVE StopsOK'
  BY <1>17 DEF ClientCloses, StopsOK, InStop
<1>18. ASSUME NEW c \in Conn, NEW part \in {"bare", "header"},
             SendHeader(c, part)
      PROVE  StopsOK'
  BY <1>18 DEF SendHeader, StopsOK, InStop
<1>19. CASE UNCHANGED vars
  BY <1>19 DEF vars, StopsOK, InStop
<1> QED BY <1>1, <1>2, <1>3, <1>4, <1>5, <1>6, <1>7, <1>8, <1>9, <1>10, <1>11, <1>12,
   <1>13, <1>14, <1>15, <1>16, <1>17, <1>18, <1>19 DEF Next, Continues, Accepting,
   Serving, Client

-----------------------------------------------------------------------------
(***************************************************************************)
(* Every listener is in one pair of hands.                                 *)
(***************************************************************************)

Owners == ListenersOK /\ NoListenerLeaks

\* A step that makes or hands over no listener.
HandsStay ==
  /\ bound' = bound /\ listener' = listener /\ running' = running
  /\ \A l \in Listener : loop'[l].at = "none" <=> loop[l].at = "none"
  /\ \A b \in Admin : /\ admin'[b].at = "publish" <=> admin[b].at = "publish"
                      /\ admin'[b].at = "spawn" <=> admin[b].at = "spawn"
                      /\ admin'[b].mine = admin[b].mine

LEMMA HandsStayOwners ==
  ASSUME Owners, HandsStay
  PROVE  Owners'
<1>1. \A b \in Admin : Holds(b)' <=> Holds(b)
  BY DEF HandsStay, Holds
<1>2. Unused' = Unused
  BY <1>1 DEF HandsStay, Unused, Listener
<1>3. ListenersOK'
  BY <1>1, <1>2 DEF Owners, ListenersOK, HandsStay, Listener
<1>4. NoListenerLeaks'
  BY DEF Owners, NoListenerLeaks, HandsStay
<1> QED BY <1>3, <1>4 DEF Owners

\* A goroutine that holds no listener moves to a point where it holds none.
LEMMA MoveHandsStay ==
  ASSUME NEW a \in Admin, NEW p, NEW calls, AdminMoves(a, p, calls), ~Holds(a),
         p \notin {"publish", "spawn"}, UNCHANGED <<bound, listener, running, loop>>
  PROVE  HandsStay
<1>1. UNCHANGED bound /\ UNCHANGED listener /\ UNCHANGED running /\ UNCHANGED loop
  OBVIOUS
<1>2. ASSUME NEW b \in Admin
      PROVE  /\ admin'[b].at = "publish" <=> admin[b].at = "publish"
             /\ admin'[b].at = "spawn" <=> admin[b].at = "spawn"
             /\ admin'[b].mine = admin[b].mine
  BY DEF AdminMoves, Holds
<1> QED BY <1>1, <1>2 DEF HandsStay

LEMMA OwnersInductive == Typed /\ Owners /\ [Next]_vars => Owners'
<1> SUFFICES ASSUME Typed, Owners, [Next]_vars PROVE Owners'
  OBVIOUS
<1>0. /\ AdminsTyped /\ LoopsTyped
      /\ loop \in [Listener -> [at : LoopPoint, on : MaybeListener]]
  BY DEF Typed, LoopsTyped
<1> USE DEF serverVars
<1>1. ASSUME NEW a \in Admin, StartChecks(a) PROVE Owners'
  <2>1. UNCHANGED <<bound, listener, running, loop>> /\ ~Holds(a)
    BY <1>1 DEF StartChecks, Calls, Holds
  <2>2. CASE running
    BY <1>0, <1>1, <2>1, <2>2, GiveUpMoves, MoveHandsStay, HandsStayOwners DEF StartChecks
  <2>3. CASE ~running
    <3>1. AdminMoves(a, "listen", admin[a].calls)
      BY <1>0, <1>1, <2>3, GoOnMoves DEF StartChecks, Calls, AdminPoint
    <3> QED BY <2>1, <3>1, MoveHandsStay, HandsStayOwners
  <2> QED BY <2>2, <2>3
<1>2. ASSUME NEW a \in Admin, StopCloses(a) PROVE Owners'
  <2>1. CASE ~running
    <3>1. AdminMoves(a, "out", Tail(admin[a].calls))
      BY <1>0, <1>2, <2>1, ReturnMoves DEF StopCloses, Calls
    <3>2. UNCHANGED <<bound, listener, running, loop>> /\ ~Holds(a)
      BY <1>2, <2>1 DEF StopCloses, Calls, Holds
    <3> QED BY <3>1, <3>2, MoveHandsStay, HandsStayOwners
  <2>2. CASE running
    <3>1. AdminMoves(a, "wait", admin[a].calls)
      BY <1>0, <1>2, <2>2, GoOnMoves DEF StopCloses, Calls, AdminPoint
    <3>2. /\ bound' = bound \ {listener} /\ ~running' /\ ~Holds(a)
          /\ listener' = listener /\ loop' = loop
      BY <1>2, <2>2 DEF StopCloses, Calls, Holds
    <3>3. \A b \in Admin : /\ Holds(b)' <=> Holds(b)
                           /\ admin'[b].at = "publish" <=> admin[b].at = "publish"
                           /\ admin'[b].mine = admin[b].mine
      BY <3>1, <3>2 DEF AdminMoves, Holds
    <3>4. Unused' = Unused
      BY <3>2, <3>3 DEF Unused, Listener
    <3>5. ListenersOK'
      BY <3>2, <3>3, <3>4 DEF Owners, ListenersOK, Listener
    <3>6. NoListenerLeaks'
      BY <3>2, <3>3 DEF Owners, NoListenerLeaks
    <3> QED BY <3>5, <3>6 DEF Owners
  <2> QED BY <2>1, <2>2
<1>3. ASSUME NEW a \in Admin, StopNodes(a) PROVE Owners'
  <2>1. AdminMoves(a, "out", Tail(admin[a].calls))
    BY <1>0, <1>3, ReturnMoves DEF StopNodes, Calls
  <2>2. UNCHANGED <<bound, listener, running, loop>> /\ ~Holds(a)
    BY <1>3 DEF StopNodes, Calls, Holds
  <2> QED BY <2>1, <2>2, MoveHandsStay, HandsStayOwners
<1>4. ASSUME NEW a \in Admin, Listen(a) PROVE Owners'
  <2>1. /\ listener' = listener /\ running' = running /\ loop' = loop
        /\ ~Holds(a) /\ admin[a].at = "listen"
    BY <1>4 DEF Listen, Holds
  <2>2. CASE ~AnyPort /\ bound # {}
    <3>1. AdminMoves(a, "out", <<>>) /\ bound' = bound
      BY <1>0, <1>4, <2>2, GiveUpMoves DEF Listen
    <3> QED BY <2>1, <3>1, MoveHandsStay, HandsStayOwners
  <2>3. CASE ~(~AnyPort /\ bound # {})
    <3>1. PICK l \in Unused : /\ bound' = bound \cup {l}
                              /\ admin' = [admin EXCEPT ![a].at = "publish", ![a].mine = l]
      BY <1>4, <2>3 DEF Listen
    <3>2. /\ admin'[a].at = "publish" /\ admin'[a].mine = l
          /\ \A b \in Admin \ {a} : admin'[b] = admin[b]
      BY <1>0, <3>1 DEF AdminsTyped
    <3>3. \A b \in Admin : Holds(b)' <=> b = a \/ Holds(b)
      BY <2>1, <3>2 DEF Holds
    <3>4. l \in Listener /\ loop[l].at = "none" /\ \A b \in Admin : Holds(b) => admin[b].mine # l
      BY DEF Unused
    <3>5. Unused' \subseteq Unused
      BY <2>1, <3>2, <3>3 DEF Unused, Listener
    <3>6. l # listener
      BY DEF Owners, ListenersOK
    <3>7. \A b \in Admin : Holds(b)' => /\ admin'[b].mine \in Listener
                                        /\ loop'[admin'[b].mine].at = "none"
      BY <2>1, <3>2, <3>3, <3>4 DEF Owners, ListenersOK
    <3>8. \A b, c \in Admin : Holds(b)' /\ Holds(c)' /\ admin'[b].mine = admin'[c].mine => b = c
      BY <3>2, <3>3, <3>4 DEF Owners, ListenersOK
    <3>9. \A b \in Admin : admin'[b].at = "publish" => /\ admin'[b].mine \in bound'
                                                       /\ admin'[b].mine # listener
      <4>1. \A b \in Admin : admin[b].at = "publish" => /\ admin[b].mine \in bound
                                                        /\ admin[b].mine # listener
        BY DEF Owners, ListenersOK
      <4>2. ASSUME NEW b \in Admin \ {a}, admin'[b].at = "publish"
            PROVE  admin'[b].mine \in bound' /\ admin'[b].mine # listener
        <5>1. admin'[b] = admin[b] /\ bound \subseteq bound'
          BY <3>1, <3>2
        <5>2. admin[b].mine \in bound /\ admin[b].mine # listener
          BY <4>1, <4>2, <5>1
        <5> QED BY <5>1, <5>2
      <4>3. l \in bound' /\ admin'[a].mine = l
        BY <3>1, <3>2
      <4> QED BY <3>6, <4>2, <4>3
    <3>10. ~AnyPort => bound' = {l}
      BY <2>3, <3>1
    <3>11. ListenersOK'
      BY <2>1, <3>1, <3>5, <3>7, <3>8, <3>9, <3>10 DEF Owners, ListenersOK, Listener
    <3>12. NoListenerLeaks'
      BY <3>2, <3>10 DEF NoListenerLeaks
    <3> QED BY <3>11, <3>12 DEF Owners
  <2> QED BY <2>2, <2>3
<1>5. ASSUME NEW a \in Admin, Publish(a) PROVE Owners'
  <2>1. AdminMoves(a, "spawn", admin[a].calls)
    BY <1>0, <1>5, GoOnMoves DEF Publish, AdminsTyped, AdminPoint
  <2>2. /\ admin[a].at = "publish" /\ listener' = admin[a].mine /\ running'
        /\ bound' = bound /\ loop' = loop
    BY <1>5 DEF Publish
  <2>3. \A b \in Admin : /\ Holds(b)' <=> Holds(b)
                         /\ admin'[b].at = "publish" <=> b # a /\ admin[b].at = "publish"
                         /\ admin'[b].mine = admin[b].mine
    BY <2>1, <2>2 DEF AdminMoves, Holds
  <2>4. Unused' = Unused
    BY <2>2, <2>3 DEF Unused, Listener
  <2>5. Holds(a) /\ admin[a].mine \in bound
    BY <2>2 DEF Holds, Owners, ListenersOK
  <2>6. admin[a].mine \notin Unused
    BY <2>5 DEF Unused
  <2>7. \A b \in Admin : b # a /\ admin[b].at = "publish" => admin[b].mine # admin[a].mine
    BY <2>5 DEF Owners, ListenersOK, Holds
  <2>8. ListenersOK'
    BY <2>2, <2>3, <2>4, <2>5, <2>6, <2>7 DEF Owners, ListenersOK, Listener
  <2>9. NoListenerLeaks'
    BY <2>2, <2>5 DEF Owners, ListenersOK, NoListenerLeaks
  <2> QED BY <2>8, <2>9 DEF Owners
<1>6. ASSUME NEW a \in Admin, Spawn(a) PROVE Owners'
  <2> DEFINE m == admin[a].mine
  <2>1. AdminMoves(a, "out", Tail(admin[a].calls))
    BY <1>0, <1>6, ReturnMoves DEF Spawn, AdminsTyped
  <2>2. /\ admin[a].at = "spawn" /\ loop' = [loop EXCEPT ![m].at = "read"]
        /\ listener' = listener /\ running' = running /\ bound' = bound
    BY <1>6 DEF Spawn
  <2>3. Holds(a) /\ m \in Listener
    BY <2>2 DEF Holds, Owners, ListenersOK
  <2>4. /\ loop'[m].at = "read"
        /\ \A l \in Listener \ {m} : loop'[l] = loop[l]
    BY <1>0, <2>2, <2>3
  <2>5. \A b \in Admin : /\ Holds(b)' <=> b # a /\ Holds(b)
                         /\ admin'[b].at = "publish" <=> admin[b].at = "publish"
                         /\ admin'[b].mine = admin[b].mine
    BY <2>1, <2>2 DEF AdminMoves, Holds
  <2>6. Unused' \subseteq Unused
    BY <2>3, <2>4, <2>5 DEF Unused, Listener
  <2>7. \A b \in Admin : Holds(b) /\ b # a => admin[b].mine # m
    BY <2>3 DEF Owners, ListenersOK
  <2> HIDE DEF m
  <2>8. ListenersOK'
    BY <2>2, <2>4, <2>5, <2>6, <2>7 DEF Owners, ListenersOK, Listener
  <2>9. NoListenerLeaks'
    BY <2>2, <2>5 DEF Owners, NoListenerLeaks
  <2> QED BY <2>8, <2>9 DEF Owners
<1>7. ASSUME NEW a \in Admin, Wait(a) PROVE Owners'
  <2>1. UNCHANGED <<bound, listener, running, loop>> /\ ~Holds(a)
    BY <1>7 DEF Wait, Holds
  <2>2. CASE wg = 0
    <3>1. AdminMoves(a, "out", Tail(admin[a].calls))
      BY <1>0, <1>7, <2>2, ReturnMoves DEF Wait, AdminsTyped
    <3> QED BY <2>1, <3>1, MoveHandsStay, HandsStayOwners
  <2>3. CASE wg # 0
    <3>1. AdminMoves(a, "blocked", admin[a].calls)
      BY <1>0, <1>7, <2>3, GoOnMoves DEF Wait, AdminsTyped, AdminPoint
    <3> QED BY <2>1, <3>1, MoveHandsStay, HandsStayOwners
  <2> QED BY <2>2, <2>3
<1>8. ASSUME NEW a \in Admin, StopReturns(a) PROVE Owners'
  <2>1. UNCHANGED <<bound, listener, running, loop>> /\ ~Holds(a)
    BY <1>8 DEF StopReturns, Holds
  <2>2. AdminMoves(a, "out", Tail(admin[a].calls))
    BY <1>0, <1>8, ReturnMoves DEF StopReturns, AdminsTyped
  <2> QED BY <2>1, <2>2, MoveHandsStay, HandsStayOwners
<1>9. ASSUME NEW l \in Listener, LoopReadsListener(l) PROVE Owners'
  BY <1>0, <1>9, HandsStayOwners DEF LoopReadsListener, HandsStay
<1>10. ASSUME NEW l \in Listener, LoopAccepts(l) PROVE Owners'
  BY <1>0, <1>10, HandsStayOwners DEF LoopAccepts, HandsStay
<1>11. ASSUME NEW l \in Listener, LoopFails(l) PROVE Owners'
  <2>1. Releases
    BY <1>0, <1>11, DoneReleases DEF LoopFails
  <2> QED BY <1>0, <1>11, <2>1, HandsStayOwners DEF LoopFails, HandsStay, Releases
<1>12. ASSUME NEW c \in Conn, HandlerChecks(c) PROVE Owners'
  <2>1. /\ bound' = bound /\ listener' = listener /\ running' = running /\ loop' = loop
        /\ Done \/ UNCHANGED admin
    BY <1>12 DEF HandlerChecks, Leaves
  <2>2. Releases
    BY <1>0, <2>1, DoneReleases DEF Releases
  <2> QED BY <2>1, <2>2, HandsStayOwners DEF HandsStay, Releases
<1>13. ASSUME NEW c \in Conn, HandlerReads(c) PROVE Owners'
  <2>1. /\ bound' = bound /\ listener' = listener /\ running' = running /\ loop' = loop
        /\ Done \/ UNCHANGED admin
    BY <1>13 DEF HandlerReads, Leaves
  <2>2. Releases
    BY <1>0, <2>1, DoneReleases DEF Releases
  <2> QED BY <2>1, <2>2, HandsStayOwners DEF HandsStay, Releases
<1>14. ASSUME NEW c \in Conn, HandlerAnswers(c) PROVE Owners'
  <2>1. /\ bound' = bound /\ listener' = listener /\ running' = running /\ loop' = loop
        /\ Done \/ UNCHANGED admin
    BY <1>14 DEF HandlerAnswers, Leaves
  <2>2. Releases
    BY <1>0, <2>1, DoneReleases DEF Releases
  <2> QED BY <2>1, <2>2, HandsStayOwners DEF HandsStay, Releases
<1>15. ASSUME NEW c \in Conn, Connect(c) PROVE Owners'
  BY <1>15, HandsStayOwners DEF Connect, HandsStay
<1>16. ASSUME NEW c \in Conn, SendBody(c) PROVE Owners'
  BY <1>16, HandsStayOwners DEF SendBody, HandsStay
<1>17. ASSUME NEW c \in Conn, ClientCloses(c) PROVE Owners'
  BY <1>17, HandsStayOwners DEF ClientCloses, HandsStay
<1>18. ASSUME NEW c \in Conn, NEW part \in {"bare", "header"},
             SendHeader(c, part)
      PROVE  Owners'
  BY <1>18, HandsStayOwners DEF SendHeader, HandsStay
<1>19. CASE UNCHANGED vars
  BY <1>19, HandsStayOwners DEF vars, HandsStay
<1> QED BY <1>1, <1>2, <1>3, <1>4, <1>5, <1>6, <1>7, <1>8, <1>9, <1>10, <1>11, <1>12,
   <1>13, <1>14, <1>15, <1>16, <1>17, <1>18, <1>19 DEF Next, Continues, Accepting,
   Serving, Client

-----------------------------------------------------------------------------
(***************************************************************************)
(* The WaitGroup counts the goroutines that are alive.                     *)
(***************************************************************************)

LEMMA AliveFinite == IsFiniteSet(AliveLoops) /\ IsFiniteSet(AliveHandlers)
<1>1. 1 \in Int /\ MaxListeners \in Int
  BY ServerAssumption
<1>2. IsFiniteSet(Listener)
  BY <1>1, FS_Interval DEF Listener
<1>3. AliveLoops \in SUBSET Listener /\ AliveHandlers \in SUBSET Conn
  BY DEF AliveLoops, AliveHandlers
<1> QED BY <1>2, <1>3, ServerAssumption, FS_Subset

LEMMA AliveInt == Cardinality(AliveLoops) \in Int /\ Cardinality(AliveHandlers) \in Int
BY AliveFinite, FS_CardinalityType

\* A handler that goes on, or a connection without one, changes no count.
LEMMA HandlersStay ==
  ASSUME \A c \in Conn : Handling(c)' <=> Handling(c)
  PROVE  AliveHandlers' = AliveHandlers
BY DEF AliveHandlers

LEMMA LoopsStay ==
  ASSUME \A l \in Listener : loop'[l].at \in {"read", "accept"} <=> loop[l].at \in {"read", "accept"}
  PROVE  AliveLoops' = AliveLoops
BY DEF AliveLoops, Listener

\* A handler that leaves is counted out.
LEMMA HandlerLeaves ==
  ASSUME Typed, Counted, NEW c \in Conn, Handling(c), Leaves(c), UNCHANGED loop
  PROVE  Counted'
<1>1. /\ conn'[c].at = "gone"
      /\ \A d \in Conn \ {c} : conn'[d] = conn[d]
  BY MovesMoves DEF Typed, Leaves, ConnPoint
<1>2. AliveHandlers' = AliveHandlers \ {c} /\ c \in AliveHandlers
  BY <1>1 DEF AliveHandlers, Handling
<1>3. Cardinality(AliveHandlers') = Cardinality(AliveHandlers) - 1
  BY <1>2, AliveFinite, FS_RemoveElement
<1>4. AliveLoops' = AliveLoops
  BY LoopsStay
<1>5. wg' = wg - 1
  BY DEF Leaves, Done
<1> QED BY <1>3, <1>4, <1>5, AliveInt DEF Counted, Alive

\* A handler that goes on to another point is counted as before.
LEMMA HandlerGoesOn ==
  ASSUME Typed, Counted, NEW c \in Conn, Handling(c), UNCHANGED <<loop, wg>>,
         NEW p \in {"check", "header", "data", "handle-bare", "handle"}, Moves(c, p)
  PROVE  Counted'
<1>1. /\ conn'[c].at = p
      /\ \A d \in Conn \ {c} : conn'[d] = conn[d]
  BY MovesMoves DEF Typed, ConnPoint
<1>2. \A d \in Conn : Handling(d)' <=> Handling(d)
  BY <1>1 DEF Handling
<1>3. AliveHandlers' = AliveHandlers /\ AliveLoops' = AliveLoops
  BY <1>2, HandlersStay, LoopsStay
<1> QED BY <1>3 DEF Counted, Alive

\* A step that starts and ends no loop and no handler.
LEMMA CountStays ==
  ASSUME Counted, UNCHANGED <<loop, wg>>, \A c \in Conn : Handling(c)' <=> Handling(c)
  PROVE  Counted'
BY HandlersStay, LoopsStay DEF Counted, Alive

LEMMA CountedInductive == Typed /\ Owners /\ Counted /\ [Next]_vars => Counted'
<1> SUFFICES ASSUME Typed, Owners, Counted, [Next]_vars PROVE Counted'
  OBVIOUS
<1>0. /\ ConnectionsTyped
      /\ conn \in [Conn -> [at : ConnPoint, on : MaybeListener]]
      /\ loop \in [Listener -> [at : LoopPoint, on : MaybeListener]]
  BY DEF Typed, LoopsTyped, ConnectionsTyped
<1>1. ASSUME NEW a \in Admin, StartChecks(a) PROVE Counted'
  BY <1>1, CountStays DEF StartChecks, Handling
<1>2. ASSUME NEW a \in Admin, StopCloses(a) PROVE Counted'
  <2>1. UNCHANGED <<loop, wg>>
    BY <1>2 DEF StopCloses
  <2>2. \A c \in Conn : Handling(c)' <=> Handling(c)
    BY <1>0, <1>2 DEF StopCloses, Handling
  <2> QED BY <2>1, <2>2, CountStays
<1>3. ASSUME NEW a \in Admin, StopNodes(a) PROVE Counted'
  BY <1>3, CountStays DEF StopNodes, Handling
<1>4. ASSUME NEW a \in Admin, Listen(a) PROVE Counted'
  BY <1>4, CountStays DEF Listen, Handling
<1>5. ASSUME NEW a \in Admin, Publish(a) PROVE Counted'
  BY <1>5, CountStays DEF Publish, Handling
<1>6. ASSUME NEW a \in Admin, Spawn(a) PROVE Counted'
  <2> DEFINE m == admin[a].mine
  <2>1. wg' = wg + 1 /\ conn' = conn /\ loop' = [loop EXCEPT ![m].at = "read"] /\ Holds(a)
    BY <1>6 DEF Spawn, Holds
  <2>2. m \in Listener /\ loop[m].at = "none"
    BY <2>1 DEF Owners, ListenersOK
  <2>3. loop'[m].at = "read" /\ \A l \in Listener \ {m} : loop'[l] = loop[l]
    BY <1>0, <2>1, <2>2
  <2> HIDE DEF m
  <2>4. AliveLoops' = AliveLoops \cup {m} /\ m \notin AliveLoops
    BY <2>2, <2>3 DEF AliveLoops, Listener
  <2>5. Cardinality(AliveLoops') = Cardinality(AliveLoops) + 1
    BY <2>4, AliveFinite, FS_AddElement
  <2>6. AliveHandlers' = AliveHandlers
    BY <2>1, HandlersStay DEF Handling
  <2> QED BY <2>1, <2>5, <2>6, AliveInt DEF Counted, Alive
<1>7. ASSUME NEW a \in Admin, Wait(a) PROVE Counted'
  BY <1>7, CountStays DEF Wait, Handling
<1>8. ASSUME NEW a \in Admin, StopReturns(a) PROVE Counted'
  BY <1>8, CountStays DEF StopReturns, Handling
<1>9. ASSUME NEW l \in Listener, LoopReadsListener(l) PROVE Counted'
  <2>1. wg' = wg /\ conn' = conn
    BY <1>9 DEF LoopReadsListener
  <2>2. \A k \in Listener : loop'[k].at \in {"read", "accept"} <=> loop[k].at \in {"read", "accept"}
    BY <1>0, <1>9 DEF LoopReadsListener
  <2>3. AliveHandlers' = AliveHandlers
    BY <2>1, HandlersStay DEF Handling
  <2> QED BY <2>1, <2>2, <2>3, LoopsStay DEF Counted, Alive
<1>10. ASSUME NEW l \in Listener, LoopAccepts(l) PROVE Counted'
  <2>1. PICK c \in Conn : conn[c].at = "backlog" /\ conn' = [conn EXCEPT ![c].at = "check"]
    BY <1>10 DEF LoopAccepts
  <2>2. \A k \in Listener : loop'[k].at \in {"read", "accept"} <=> loop[k].at \in {"read", "accept"}
    BY <1>0, <1>10 DEF LoopAccepts
  <2>3. conn'[c].at = "check" /\ \A d \in Conn \ {c} : conn'[d] = conn[d]
    BY <1>0, <2>1
  <2>4. AliveHandlers' = AliveHandlers \cup {c} /\ c \notin AliveHandlers
    BY <2>1, <2>3 DEF AliveHandlers, Handling
  <2>5. Cardinality(AliveHandlers') = Cardinality(AliveHandlers) + 1
    BY <2>4, AliveFinite, FS_AddElement
  <2>6. wg' = wg + 1 /\ AliveLoops' = AliveLoops
    BY <1>10, <2>2, LoopsStay DEF LoopAccepts
  <2> QED BY <2>5, <2>6, AliveInt DEF Counted, Alive
<1>11. ASSUME NEW l \in Listener, LoopFails(l) PROVE Counted'
  <2>1. wg' = wg - 1 /\ conn' = conn
    BY <1>11 DEF LoopFails, Done
  <2>2. loop[l].at = "accept" /\ loop'[l].at = "exited"
        /\ \A k \in Listener \ {l} : loop'[k] = loop[k]
    BY <1>0, <1>11 DEF LoopFails
  <2>3. AliveLoops' = AliveLoops \ {l} /\ l \in AliveLoops
    BY <2>2 DEF AliveLoops, Listener
  <2>4. Cardinality(AliveLoops') = Cardinality(AliveLoops) - 1
    BY <2>3, AliveFinite, FS_RemoveElement
  <2>5. AliveHandlers' = AliveHandlers
    BY <2>1, HandlersStay DEF Handling
  <2> QED BY <2>1, <2>4, <2>5, AliveInt DEF Counted, Alive
<1>12. ASSUME NEW c \in Conn, HandlerChecks(c) PROVE Counted'
  <2>1. Handling(c) /\ UNCHANGED loop
    BY <1>12 DEF HandlerChecks, Handling
  <2>2. Leaves(c) \/ (Moves(c, "header") /\ UNCHANGED <<wg, loop>>)
    BY <1>12 DEF HandlerChecks
  <2> QED BY <2>1, <2>2, HandlerLeaves, HandlerGoesOn
<1>13. ASSUME NEW c \in Conn, HandlerReads(c) PROVE Counted'
  <2>1. Handling(c) /\ UNCHANGED loop
    BY <1>13 DEF HandlerReads, Handling
  <2>2. wire[c] # <<>> => Head(wire[c]) \in Part
    BY <1>0, HeadTailProperties DEF ConnectionsTyped
  <2>3. Leaves(c) \/ \E p \in {"handle-bare", "data", "handle"} : Moves(c, p) /\ UNCHANGED <<wg, loop>>
    BY <1>13, <2>2 DEF HandlerReads, Part
  <2> QED BY <2>1, <2>3, HandlerLeaves, HandlerGoesOn
<1>14. ASSUME NEW c \in Conn, HandlerAnswers(c) PROVE Counted'
  <2>1. Handling(c) /\ UNCHANGED loop
    BY <1>14 DEF HandlerAnswers, Handling
  <2>2. Leaves(c) \/ (Moves(c, "check") /\ UNCHANGED <<wg, loop>>)
    BY <1>14 DEF HandlerAnswers
  <2> QED BY <2>1, <2>2, HandlerLeaves, HandlerGoesOn
<1>15. ASSUME NEW c \in Conn, Connect(c) PROVE Counted'
  <2>1. PICK l \in bound : conn' = [conn EXCEPT ![c] = [at |-> "backlog", on |-> l]]
    BY <1>15 DEF Connect
  <2>2. conn[c].at = "new" /\ conn'[c].at = "backlog" /\ \A d \in Conn \ {c} : conn'[d] = conn[d]
    BY <1>0, <1>15, <2>1 DEF Connect
  <2>3. \A d \in Conn : Handling(d)' <=> Handling(d)
    BY <2>2 DEF Handling
  <2> QED BY <1>15, <2>3, CountStays DEF Connect
<1>16. ASSUME NEW c \in Conn, SendBody(c) PROVE Counted'
  BY <1>16, CountStays DEF SendBody, Handling
<1>17. ASSUME NEW c \in Conn, ClientCloses(c) PROVE Counted'
  BY <1>17, CountStays DEF ClientCloses, Handling
<1>18. ASSUME NEW c \in Conn, NEW part \in {"bare", "header"},
             SendHeader(c, part)
      PROVE  Counted'
  BY <1>18, CountStays DEF SendHeader, Handling
<1>19. CASE UNCHANGED vars
  BY <1>19, CountStays DEF vars, Handling
<1> QED BY <1>1, <1>2, <1>3, <1>4, <1>5, <1>6, <1>7, <1>8, <1>9, <1>10, <1>11, <1>12,
   <1>13, <1>14, <1>15, <1>16, <1>17, <1>18, <1>19 DEF Next, Continues, Accepting,
   Serving, Client

-----------------------------------------------------------------------------
(***************************************************************************)
(* What a client is owed is on its way.                                    *)
(***************************************************************************)

LEMMA WholeFinite ==
  ASSUME NEW s \in Seq(Part)
  PROVE  IsFiniteSet(Whole(s)) /\ Cardinality(Whole(s)) \in Nat
<1>1. Len(s) \in Int /\ 1 \in Int
  BY LenProperties
<1>2. IsFiniteSet(1 .. Len(s)) /\ Whole(s) \in SUBSET (1 .. Len(s))
  BY <1>1, FS_Interval DEF Whole
<1> QED BY <1>2, FS_Subset, FS_CardinalityType

LEMMA WholeAppend ==
  ASSUME NEW s \in Seq(Part), NEW x \in Part
  PROVE  Cardinality(Whole(Append(s, x))) =
           Cardinality(Whole(s)) + (IF x \in {"bare", "body"} THEN 1 ELSE 0)
<1> DEFINE t == Append(s, x)
           n == Len(s)
<1>1. /\ Len(t) = n + 1 /\ n \in Nat
      /\ \A i \in 1 .. n : t[i] = s[i]
      /\ t[n + 1] = x
  BY AppendProperties, LenProperties
<1>2. n + 1 \notin Whole(s)
  BY <1>1 DEF Whole
<1> HIDE DEF t
<1>3. CASE x \in {"bare", "body"}
  <2>1. Whole(t) = Whole(s) \cup {n + 1}
    BY <1>1, <1>3 DEF Whole
  <2> QED BY <1>2, <1>3, <2>1, WholeFinite, FS_AddElement DEF t
<1>4. CASE x \notin {"bare", "body"}
  <2>1. Whole(t) = Whole(s)
    BY <1>1, <1>4 DEF Whole
  <2> QED BY <1>4, <2>1, WholeFinite DEF t
<1> QED BY <1>3, <1>4

LEMMA WholeTail ==
  ASSUME NEW s \in Seq(Part), s # <<>>
  PROVE  Cardinality(Whole(s)) =
           Cardinality(Whole(Tail(s))) + (IF Head(s) \in {"bare", "body"} THEN 1 ELSE 0)
<1> DEFINE t == Tail(s)
           n == Len(s)
           W == Whole(s) \ {1}
           f == [i \in Whole(t) |-> i + 1]
<1>1. /\ Len(t) = n - 1 /\ n \in Nat /\ n >= 1
      /\ \A i \in 1 .. n - 1 : t[i] = s[i + 1]
      /\ t \in Seq(Part) /\ Head(s) = s[1]
  BY HeadTailProperties, LenProperties
<1> HIDE DEF t, n
<1>2. f \in Bijection(Whole(t), W)
  <2>1. \A i \in Whole(t) : i \in 1 .. n - 1 /\ i + 1 \in W
    BY <1>1 DEF Whole, n
  <2>2. f \in [Whole(t) -> W]
    BY <2>1
  <2>3. \A i, j \in Whole(t) : f[i] = f[j] => i = j
    BY <2>1
  <2>4. \A w \in W : \E i \in Whole(t) : f[i] = w
    <3> TAKE w \in W
    <3>1. w - 1 \in Whole(t) /\ w - 1 + 1 = w
      BY <1>1 DEF Whole, n
    <3> QED BY <3>1
  <2> QED BY <2>2, <2>3, <2>4 DEF Bijection, Injection, Surjection, IsInjective
<1>3. Cardinality(W) = Cardinality(Whole(t))
  <2>1. ExistsBijection(Whole(t), W)
    BY <1>2 DEF ExistsBijection
  <2> HIDE DEF W
  <2> QED BY <1>1, <2>1, WholeFinite, FS_Bijection
<1>4. Cardinality(W) = IF 1 \in Whole(s) THEN Cardinality(Whole(s)) - 1
                       ELSE Cardinality(Whole(s))
  BY WholeFinite, FS_RemoveElement
<1>5. 1 \in Whole(s) <=> Head(s) \in {"bare", "body"}
  BY <1>1 DEF Whole, n
<1> QED BY <1>3, <1>4, <1>5, WholeFinite DEF t

\* A connection that a step leaves alone, but for the listeners.
LEMMA ConnectionStays ==
  ASSUME NEW c \in Conn, ConnectionOK(c),
         conn'[c] = conn[c], wire'[c] = wire[c], client'[c] = client[c],
         conn[c].at = "backlog" /\ conn[c].on \in bound => conn[c].on \in bound'
  PROVE  ConnectionOK(c)'
BY DEF ConnectionOK, Busy, MidRequest

LEMMA ConnectionsStay ==
  ASSUME ConnectionsOK, UNCHANGED <<conn, wire, client>>, bound \subseteq bound'
  PROVE  ConnectionsOK'
BY ConnectionStays DEF ConnectionsOK

\* A step of connection c alone.
LEMMA OneConnectionSteps ==
  ASSUME ConnectionsOK, NEW c \in Conn, ConnectionOK(c)', UNCHANGED bound,
         \A d \in Conn \ {c} : /\ conn'[d] = conn[d] /\ wire'[d] = wire[d]
                               /\ client'[d] = client[d]
  PROVE  ConnectionsOK'
BY ConnectionStays DEF ConnectionsOK

LEMMA ConnectionsInductive == Typed /\ Owners /\ ConnectionsOK /\ [Next]_vars => ConnectionsOK'
<1> SUFFICES ASSUME Typed, Owners, ConnectionsOK, [Next]_vars PROVE ConnectionsOK'
  OBVIOUS
<1>0. /\ ConnectionsTyped
      /\ conn \in [Conn -> [at : ConnPoint, on : MaybeListener]]
      /\ wire \in [Conn -> Seq(Part)]
      /\ client \in [Conn -> [open : BOOLEAN, sent : Int, owed : Int]]
      /\ \A c \in Conn : ConnectionOK(c)
  BY DEF Typed, ConnectionsTyped, ConnectionsOK
<1> USE DEF serverVars, clientVars
<1>1. ASSUME NEW a \in Admin, StartChecks(a) PROVE ConnectionsOK'
  BY <1>1, ConnectionsStay DEF StartChecks
<1>2. ASSUME NEW a \in Admin, StopCloses(a) PROVE ConnectionsOK'
  <2>1. CASE ~running
    BY <1>2, <2>1, ConnectionsStay DEF StopCloses
  <2>2. CASE running
    <3>1. /\ wire' = wire /\ client' = client /\ bound' = bound \ {listener}
          /\ conn' = [c \in Conn |-> IF conn[c].at = "backlog" /\ conn[c].on = listener
                                     THEN [conn[c] EXCEPT !.at = "gone"] ELSE conn[c]]
      BY <1>2, <2>2 DEF StopCloses
    <3>2. ASSUME NEW c \in Conn PROVE ConnectionOK(c)'
      <4>1. CASE conn[c].at = "backlog" /\ conn[c].on = listener
        <5>1. conn'[c].at = "gone"
          BY <1>0, <3>1, <4>1
        <5> QED BY <1>0, <3>1, <4>1, <5>1 DEF ConnectionOK, Busy, MidRequest
      <4>2. CASE ~(conn[c].at = "backlog" /\ conn[c].on = listener)
        <5>1. conn'[c] = conn[c]
          BY <3>1, <4>2
        <5> QED BY <1>0, <3>1, <4>2, <5>1, ConnectionStays
      <4> QED BY <4>1, <4>2
    <3> QED BY <3>2 DEF ConnectionsOK
  <2> QED BY <2>1, <2>2
<1>3. ASSUME NEW a \in Admin, StopNodes(a) PROVE ConnectionsOK'
  BY <1>3, ConnectionsStay DEF StopNodes
<1>4. ASSUME NEW a \in Admin, Listen(a) PROVE ConnectionsOK'
  BY <1>4, ConnectionsStay DEF Listen
<1>5. ASSUME NEW a \in Admin, Publish(a) PROVE ConnectionsOK'
  BY <1>5, ConnectionsStay DEF Publish
<1>6. ASSUME NEW a \in Admin, Spawn(a) PROVE ConnectionsOK'
  BY <1>6, ConnectionsStay DEF Spawn
<1>7. ASSUME NEW a \in Admin, Wait(a) PROVE ConnectionsOK'
  BY <1>7, ConnectionsStay DEF Wait
<1>8. ASSUME NEW a \in Admin, StopReturns(a) PROVE ConnectionsOK'
  BY <1>8, ConnectionsStay DEF StopReturns
<1>9. ASSUME NEW l \in Listener, LoopReadsListener(l) PROVE ConnectionsOK'
  BY <1>9, ConnectionsStay DEF LoopReadsListener
<1>10. ASSUME NEW l \in Listener, LoopAccepts(l) PROVE ConnectionsOK'
  <2>1. PICK c \in Conn : conn[c].at = "backlog" /\ conn' = [conn EXCEPT ![c].at = "check"]
    BY <1>10 DEF LoopAccepts
  <2>2. conn'[c].at = "check" /\ \A d \in Conn \ {c} : conn'[d] = conn[d]
    BY <1>0, <2>1
  <2>3. wire' = wire /\ client' = client /\ bound' = bound
    BY <1>10 DEF LoopAccepts
  <2>4. ConnectionOK(c)'
    BY <1>0, <2>1, <2>2, <2>3 DEF ConnectionOK, Busy, MidRequest
  <2> QED BY <2>2, <2>3, <2>4, OneConnectionSteps
<1>11. ASSUME NEW l \in Listener, LoopFails(l) PROVE ConnectionsOK'
  BY <1>11, ConnectionsStay DEF LoopFails
<1>12. ASSUME NEW c \in Conn, HandlerChecks(c) PROVE ConnectionsOK'
  <2>1. /\ conn[c].at = "check" /\ conn'[c].at \in {"header", "gone"}
        /\ \A d \in Conn \ {c} : conn'[d] = conn[d]
    BY <1>0, <1>12, MovesMoves DEF HandlerChecks, Leaves, ConnPoint
  <2>2. wire' = wire /\ client' = client /\ bound' = bound
    BY <1>12 DEF HandlerChecks
  <2>3. ConnectionOK(c)'
    BY <1>0, <2>1, <2>2 DEF ConnectionOK, Busy, MidRequest
  <2> QED BY <2>1, <2>2, <2>3, OneConnectionSteps
<1>13. ASSUME NEW c \in Conn, HandlerReads(c) PROVE ConnectionsOK'
  <2>1. conn[c].at \in {"header", "data"} /\ client' = client /\ bound' = bound
    BY <1>13 DEF HandlerReads
  <2>2. CASE wire[c] = <<>>
    <3>1. wire' = wire /\ conn'[c].at = "gone" /\ \A d \in Conn \ {c} : conn'[d] = conn[d]
      BY <1>0, <1>13, <2>2, MovesMoves DEF HandlerReads, Leaves, ConnPoint
    <3>2. ConnectionOK(c)'
      <4>1. client[c].owed \in Int /\ client[c].sent \in Int
        BY <1>0
      <4>2. client'[c] = client[c] /\ wire'[c] = wire[c] /\ ~Busy(c) /\ ~Busy(c)' /\ ~MidRequest(c)'
        BY <2>1, <2>2, <3>1 DEF Busy, MidRequest
      <4>3. client[c].owed <= client[c].sent
        BY <1>0, <4>1 DEF ConnectionOK
      <4> QED BY <1>0, <3>1, <4>1, <4>2, <4>3 DEF ConnectionOK
    <3> QED BY <2>1, <3>1, <3>2, OneConnectionSteps
  <2>3. CASE wire[c] # <<>>
    <3> DEFINE s == wire[c]
               t == Tail(s)
               busy == IF Head(s) \in {"bare", "body"} THEN 1 ELSE 0
    <3>1. /\ s \in Seq(Part) /\ Head(s) \in Part /\ t \in Seq(Part)
          /\ Len(t) = Len(s) - 1 /\ Len(s) \in Nat /\ Len(s) >= 1
          /\ \A i \in 1 .. Len(t) : t[i] = s[i + 1]
          /\ Head(s) = s[1]
      BY <1>0, <2>3, HeadTailProperties, LenProperties
    <3>2. /\ wire'[c] = t /\ \A d \in Conn \ {c} : wire'[d] = wire[d]
      BY <1>0, <1>13, <2>3 DEF HandlerReads
    <3>3. \E q \in ConnPoint : /\ Moves(c, q)
                               /\ q = CASE Head(s) = "bare" -> "handle-bare"
                                        [] Head(s) = "header" -> "data"
                                        [] Head(s) = "body" -> "handle"
      BY <1>13, <2>3, <3>1 DEF HandlerReads, ConnPoint, Part
    <3>4. /\ conn'[c].at = CASE Head(s) = "bare" -> "handle-bare"
                             [] Head(s) = "header" -> "data"
                             [] Head(s) = "body" -> "handle"
          /\ \A d \in Conn \ {c} : conn'[d] = conn[d]
      BY <1>0, <3>3, MovesMoves
    <3>5. Cardinality(Whole(s)) = Cardinality(Whole(t)) + busy
      BY <2>3, <3>1, WholeTail
    <3>6. /\ (IF Busy(c)' THEN 1 ELSE 0) = busy /\ ~Busy(c)
      BY <2>1, <3>1, <3>4 DEF Busy, Part
    <3>7. MidRequest(c)' <=> MidRequest(c)
      <4> HIDE DEF t
      <4>1. CASE Len(s) = 1
        <5>1. t = <<>>
          BY <3>1, <4>1
        <5>2. MidRequest(c)' <=> conn'[c].at = "data"
          BY <3>2, <5>1 DEF MidRequest
        <5>3. MidRequest(c) <=> Head(s) = "header"
          BY <2>3, <3>1, <4>1 DEF MidRequest
        <5> QED BY <3>1, <3>4, <5>2, <5>3 DEF Part
      <4>2. CASE Len(s) # 1
        <5> HIDE DEF s
        <5>0. Len(s) \in Nat /\ Len(s) >= 1 /\ Len(t) = Len(s) - 1
          BY <3>1
        <5>1. Len(t) \in 1 .. Len(t) /\ Len(t) + 1 = Len(s)
          BY <5>0, <4>2
        <5>2. t # <<>> /\ t[Len(t)] = s[Len(s)]
          BY <3>1, <5>1
        <5> QED BY <2>3, <3>2, <5>2 DEF MidRequest, s
      <4> QED BY <4>1, <4>2
    <3>8. Cardinality(Whole(s)) \in Nat /\ Cardinality(Whole(t)) \in Nat
      BY <3>1, WholeFinite
    <3>9. conn'[c].at \notin {"new", "backlog"}
      BY <3>1, <3>4 DEF Part
    <3>10. ConnectionOK(c)'
      <4>1. client[c].owed = Cardinality(Whole(s)) /\ client'[c] = client[c]
        BY <1>0, <2>1, <3>6, <3>8 DEF ConnectionOK
      <4>2. client'[c].owed = Cardinality(Whole(wire'[c])) + busy
        BY <3>2, <3>5, <4>1
      <4>3. client'[c].owed + (IF MidRequest(c)' THEN 1 ELSE 0) <= client'[c].sent
        BY <1>0, <3>7, <4>1 DEF ConnectionOK
      <4> HIDE DEF t, busy
      <4> QED BY <3>6, <3>9, <4>2, <4>3 DEF ConnectionOK, Whole
    <3> QED BY <2>1, <3>2, <3>4, <3>10, OneConnectionSteps
  <2> QED BY <2>2, <2>3
<1>14. ASSUME NEW c \in Conn, HandlerAnswers(c) PROVE ConnectionsOK'
  <2>1. /\ conn[c].at \in {"handle-bare", "handle"} /\ conn'[c].at \in {"check", "gone"}
        /\ \A d \in Conn \ {c} : conn'[d] = conn[d]
    BY <1>0, <1>14, MovesMoves DEF HandlerAnswers, Leaves, ConnPoint
  <2>2. wire' = wire /\ bound' = bound /\ client' = [client EXCEPT ![c].owed = client[c].owed - 1]
    BY <1>14 DEF HandlerAnswers
  <2>3. /\ client'[c].owed = client[c].owed - 1 /\ client'[c].sent = client[c].sent
        /\ \A d \in Conn \ {c} : client'[d] = client[d]
    BY <1>0, <2>2
  <2>4. wire[c] \in Seq(Part) /\ client[c].owed \in Int /\ client[c].sent \in Int
    BY <1>0
  <2>5. Cardinality(Whole(wire[c])) \in Nat
    BY <2>4, WholeFinite
  <2>6. Busy(c) /\ ~Busy(c)' /\ (MidRequest(c)' => MidRequest(c))
    BY <2>1, <2>2 DEF Busy, MidRequest
  <2>7. ConnectionOK(c)'
    BY <1>0, <2>1, <2>2, <2>3, <2>4, <2>5, <2>6 DEF ConnectionOK
  <2> QED BY <2>1, <2>2, <2>3, <2>7, OneConnectionSteps
<1>15. ASSUME NEW c \in Conn, Connect(c) PROVE ConnectionsOK'
  <2>1. PICK l \in bound : conn' = [conn EXCEPT ![c] = [at |-> "backlog", on |-> l]]
    BY <1>15 DEF Connect
  <2>2. /\ conn[c].at = "new" /\ conn'[c].at = "backlog" /\ conn'[c].on = l
        /\ \A d \in Conn \ {c} : conn'[d] = conn[d]
    BY <1>0, <1>15, <2>1 DEF Connect
  <2>3. wire' = wire /\ bound' = bound /\ client' = [client EXCEPT ![c].open = TRUE]
    BY <1>15 DEF Connect
  <2>4. /\ client'[c].owed = client[c].owed /\ client'[c].sent = client[c].sent
        /\ \A d \in Conn \ {c} : client'[d] = client[d]
    BY <1>0, <2>3
  <2>5. ConnectionOK(c)'
    BY <1>0, <2>2, <2>3, <2>4 DEF ConnectionOK, Busy, MidRequest
  <2> QED BY <2>2, <2>3, <2>4, <2>5, OneConnectionSteps
<1>16. ASSUME NEW c \in Conn, SendBody(c) PROVE ConnectionsOK'
  <2> DEFINE s == wire[c]
             t == Append(s, "body")
  <2>1. s \in Seq(Part) /\ "body" \in Part /\ client[c].owed \in Int /\ client[c].sent \in Int
    BY <1>0 DEF Part
  <2>2. t \in Seq(Part) /\ t # <<>> /\ t[Len(t)] = "body"
    BY <2>1, AppendProperties
  <2>3. Cardinality(Whole(t)) = Cardinality(Whole(s)) + (IF "body" \in {"bare", "body"} THEN 1 ELSE 0)
    BY <2>1, WholeAppend
  <2>4. Cardinality(Whole(s)) \in Nat
    BY <2>1, WholeFinite
  <2>5. /\ client[c].open /\ conn' = conn /\ bound' = bound
        /\ wire' = [wire EXCEPT ![c] = t]
        /\ client' = [client EXCEPT ![c].owed = client[c].owed + 1]
    BY <1>16 DEF SendBody
  <2>6. /\ wire'[c] = t /\ \A d \in Conn \ {c} : wire'[d] = wire[d] /\ client'[d] = client[d]
        /\ client'[c].owed = client[c].owed + 1 /\ client'[c].sent = client[c].sent
    BY <1>0, <2>5
  <2>7. conn[c].at # "new"
    BY <1>0, <2>5 DEF ConnectionOK
  <2>8. MidRequest(c)' <=> "body" = "header"
    BY <2>2, <2>6 DEF MidRequest
  <2>9. Busy(c)' <=> Busy(c)
    BY <2>5 DEF Busy
  <2>10. MidRequest(c)
    BY <1>16 DEF SendBody
  <2>11. client'[c].owed + (IF MidRequest(c)' THEN 1 ELSE 0) <= client'[c].sent
    BY <1>0, <2>1, <2>6, <2>8, <2>10 DEF ConnectionOK
  <2>12. client'[c].owed = Cardinality(Whole(t)) + (IF Busy(c) THEN 1 ELSE 0)
    BY <1>0, <2>1, <2>3, <2>4, <2>6, <2>8 DEF ConnectionOK
  <2> HIDE DEF t
  <2>13. ConnectionOK(c)'
    BY <1>0, <2>5, <2>6, <2>7, <2>9, <2>11, <2>12 DEF ConnectionOK, Whole
  <2> QED BY <2>5, <2>6, <2>13, OneConnectionSteps
<1>17. ASSUME NEW c \in Conn, ClientCloses(c) PROVE ConnectionsOK'
  <2>1. wire' = wire /\ conn' = conn /\ bound' = bound /\ client' = [client EXCEPT ![c].open = FALSE]
    BY <1>17 DEF ClientCloses
  <2>2. /\ client'[c].owed = client[c].owed /\ client'[c].sent = client[c].sent /\ ~client'[c].open
        /\ \A d \in Conn \ {c} : client'[d] = client[d]
    BY <1>0, <2>1
  <2>3. ConnectionOK(c)'
    BY <1>0, <2>1, <2>2 DEF ConnectionOK, Busy, MidRequest
  <2> QED BY <2>1, <2>2, <2>3, OneConnectionSteps
<1>18. ASSUME NEW c \in Conn, NEW part \in {"bare", "header"},
             SendHeader(c, part)
      PROVE  ConnectionsOK'
  <2> DEFINE s == wire[c]
             t == Append(s, part)
  <2>1. s \in Seq(Part) /\ part \in Part /\ client[c].owed \in Int /\ client[c].sent \in Int
    BY <1>0 DEF Part
  <2>2. t \in Seq(Part) /\ t # <<>> /\ t[Len(t)] = part
    BY <2>1, AppendProperties
  <2>3. Cardinality(Whole(t)) = Cardinality(Whole(s)) + (IF part \in {"bare", "body"} THEN 1 ELSE 0)
    BY <2>1, WholeAppend
  <2>4. Cardinality(Whole(s)) \in Nat
    BY <2>1, WholeFinite
  <2>5. /\ client[c].open /\ conn' = conn /\ bound' = bound
        /\ wire' = [wire EXCEPT ![c] = t]
        /\ client' = [client EXCEPT ![c].sent = client[c].sent + 1,
                                   ![c].owed = IF part = "bare" THEN client[c].owed + 1
                                               ELSE client[c].owed]
    BY <1>18 DEF SendHeader
  <2>6. /\ wire'[c] = t /\ \A d \in Conn \ {c} : wire'[d] = wire[d] /\ client'[d] = client[d]
        /\ client'[c].owed = (IF part = "bare" THEN client[c].owed + 1 ELSE client[c].owed)
        /\ client'[c].sent = client[c].sent + 1
    BY <1>0, <2>5
  <2>7. conn[c].at # "new"
    BY <1>0, <2>5 DEF ConnectionOK
  <2>8. MidRequest(c)' <=> part = "header"
    BY <2>2, <2>6 DEF MidRequest
  <2>9. Busy(c)' <=> Busy(c)
    BY <2>5 DEF Busy
  <2>10. ~MidRequest(c)
    BY <1>18 DEF SendHeader
  <2>11. client'[c].owed + (IF MidRequest(c)' THEN 1 ELSE 0) <= client'[c].sent
    BY <1>0, <2>1, <2>6, <2>8, <2>10 DEF ConnectionOK
  <2>12. client'[c].owed = Cardinality(Whole(t)) + (IF Busy(c) THEN 1 ELSE 0)
    BY <1>0, <2>1, <2>3, <2>4, <2>6, <2>8 DEF ConnectionOK
  <2> HIDE DEF t
  <2>13. ConnectionOK(c)'
    BY <1>0, <2>5, <2>6, <2>7, <2>9, <2>11, <2>12 DEF ConnectionOK, Whole
  <2> QED BY <2>5, <2>6, <2>13, OneConnectionSteps
<1>19. CASE UNCHANGED vars
  BY <1>19, ConnectionsStay DEF vars
<1> QED BY <1>1, <1>2, <1>3, <1>4, <1>5, <1>6, <1>7, <1>8, <1>9, <1>10, <1>11, <1>12,
   <1>13, <1>14, <1>15, <1>16, <1>17, <1>18, <1>19 DEF Next, Continues, Accepting,
   Serving, Client

-----------------------------------------------------------------------------
(***************************************************************************)
(* The inductive invariant holds always.                                   *)
(***************************************************************************)

LEMMA IInvInitially == Init => IInv
<1> SUFFICES ASSUME Init PROVE IInv
  OBVIOUS
<1> USE DEF Init
<1>1. Typed
  <2>1. ServerTyped
    <3>1. wg \in Int /\ bound \in SUBSET Listener /\ listener \in MaybeListener
      BY DEF MaybeListener
    <3>2. /\ running \in BOOLEAN /\ stopped \in BOOLEAN /\ nodesUp \in BOOLEAN
          /\ refused \in BOOLEAN /\ crashed \in BOOLEAN
      OBVIOUS
    <3> QED BY <3>1, <3>2 DEF ServerTyped
  <2>2. AdminsTyped
    BY ServerAssumption DEF AdminsTyped, AdminPoint, Call, MaybeListener
  <2>3. LoopsTyped
    BY DEF LoopsTyped, LoopPoint, MaybeListener
  <2>4. ConnectionsTyped
    BY DEF ConnectionsTyped, ConnPoint, MaybeListener
  <2> QED BY <2>1, <2>2, <2>3, <2>4 DEF Typed
<1>2. Counted
  <2>1. AliveLoops = {} /\ AliveHandlers = {}
    BY DEF AliveLoops, AliveHandlers, Handling
  <2> QED BY <2>1, FS_EmptySet DEF Counted, Alive
<1>3. ListenersOK
  <2>1. \A a \in Admin : ~Holds(a) /\ admin[a].at # "publish"
    BY DEF Holds
  <2>2. listener \notin Unused
    BY ServerAssumption DEF Unused, Listener, NoListener
  <2> QED BY <2>1, <2>2 DEF ListenersOK
<1>4. ConnectionsOK
  <2> SUFFICES ASSUME NEW c \in Conn PROVE ConnectionOK(c)
    BY DEF ConnectionsOK
  <2>1. /\ wire[c] = <<>> /\ conn[c].at = "new" /\ ~client[c].open
        /\ client[c].owed = 0 /\ client[c].sent = 0
    OBVIOUS
  <2>2. Whole(wire[c]) = {}
    BY DEF Whole
  <2>3. Cardinality(Whole(wire[c])) = 0
    BY <2>2, FS_EmptySet
  <2>4. ~Busy(c) /\ ~MidRequest(c)
    BY <2>1 DEF Busy, MidRequest
  <2> HIDE DEF Init
  <2> QED BY <2>1, <2>3, <2>4 DEF ConnectionOK
<1>5. StopsOK
  BY DEF StopsOK, InStop
<1>6. NoListenerLeaks
  BY DEF NoListenerLeaks
<1> QED BY <1>1, <1>2, <1>3, <1>4, <1>5, <1>6 DEF IInv

LEMMA IInvInductive == IInv /\ [Next]_vars => IInv'
<1> SUFFICES ASSUME IInv, [Next]_vars PROVE IInv'
  OBVIOUS
<1>1. Typed /\ Owners /\ Counted /\ ConnectionsOK /\ StopsOK
  BY DEF IInv, Owners
<1>2. Typed' /\ Owners'
  BY <1>1, TypedInductive, OwnersInductive
<1>3. Counted' /\ ConnectionsOK' /\ StopsOK'
  BY <1>1, CountedInductive, ConnectionsInductive, StopsOKInductive
<1> QED BY <1>2, <1>3 DEF IInv, Owners

THEOREM IInvAlways == Spec => []IInv
BY IInvInitially, IInvInductive, PTL DEF Spec

LEMMA IInvTypeOK == IInv => TypeOK
<1> SUFFICES ASSUME IInv PROVE TypeOK
  OBVIOUS
<1>1. ServerTyped /\ Counted /\ ConnectionsOK
  BY DEF IInv, Typed
<1>2. \A a \in Admin : admin[a].at \in AdminPoint
  BY DEF IInv, Typed, AdminsTyped
<1>3. ASSUME NEW c \in Conn
      PROVE  conn[c].at \in ConnPoint /\ client[c].owed \in 0 .. client[c].sent
  <2>1. /\ conn[c].at \in ConnPoint /\ wire[c] \in Seq(Part)
        /\ client[c].owed \in Int /\ client[c].sent \in Int
    BY DEF IInv, Typed, ConnectionsTyped
  <2>2. Cardinality(Whole(wire[c])) \in Nat /\ ConnectionOK(c)
    BY <1>1, <2>1, WholeFinite DEF ConnectionsOK
  <2>3. client[c].owed >= 0 /\ client[c].owed <= client[c].sent
    BY <2>1, <2>2 DEF ConnectionOK
  <2> QED BY <2>1, <2>3
<1> QED BY <1>1, <1>2, <1>3 DEF ServerTyped, Counted, TypeOK, AdminPoint, ConnPoint,
   Handling, MaybeListener

\* Every variable stays in its type; the WaitGroup counts the loops and the handlers that
\* are alive (server.go:113, 172, 186, 206); a client is never owed more responses than it
\* has sent requests.
THEOREM TypeCorrect == Spec => []TypeOK
BY IInvAlways, IInvTypeOK, PTL

\* Whatever Starts and Stops overlap (server.go:95-150), a listener that is open on a fixed
\* port is the server's, or that of a Start about to publish it.
THEOREM NoListenerEverLeaks == Spec => []NoListenerLeaks
<1>1. IInv => NoListenerLeaks
  BY DEF IInv
<1> QED BY <1>1, IInvAlways, PTL

-----------------------------------------------------------------------------
(***************************************************************************)
(* The nodes are stopped when nobody can reach them any more.  This takes a *)
(* caller that waits for its Stop before it stops the nodes, and no other   *)
(* caller of Stop: a second Stop returns at once (server.go:131).           *)
(***************************************************************************)

\* The calls of main (main.go:121-147), and of Cleanup after EnsureCluster
\* (test_client.go:420-452): no other goroutine calls Stop or stops the nodes.
MainScript == <<"start", "stop", "stop-nodes">>

OnlyMainStops(main) == /\ Script[main] = MainScript
                       /\ \A a \in Admin \ {main} : Script[a] \in Seq({"start"})

\* Every handler that is left, or comes, leaves when it looks at stopChan.
Drained == stopped /\ \A c \in Conn : conn[c].at \notin {"header", "data", "handle-bare", "handle"}

OthersStart(main) ==
  \A a \in Admin \ {main} : ~InStop(a) /\ admin[a].calls \in Seq({"start"})

\* Where main is in its calls, and what holds of the server there.
MainAt(main) ==
  LET at == admin[main].at
      calls == admin[main].calls
  IN \/ calls = MainScript /\ at \in {"out", "listen", "publish"}
     \/ calls = MainScript /\ at = "spawn" /\ running
     \/ calls = Tail(MainScript) /\ at = "out" /\ running
     \/ calls = Tail(MainScript) /\ at \in {"wait", "blocked", "released"} /\ stopped
     \/ calls = Tail(Tail(MainScript)) /\ at = "out" /\ (Drained \/ crashed)
     \/ calls = <<>> /\ at = "out"

MainOK(main) == /\ OthersStart(main)
                /\ MainAt(main)
                /\ ~nodesUp => Drained
                /\ ~refused

LEMMA MainsCalls ==
  /\ MainScript # <<>> /\ Head(MainScript) = "start"
  /\ Tail(MainScript) # <<>> /\ Head(Tail(MainScript)) = "stop" /\ Tail(MainScript) # MainScript
  /\ Tail(Tail(MainScript)) # <<>> /\ Head(Tail(Tail(MainScript))) = "stop-nodes"
  /\ Tail(Tail(Tail(MainScript))) = <<>>
BY DEF MainScript

\* A goroutine that only starts the server moves on.
LEMMA OtherMoves ==
  ASSUME NEW main \in Admin, OthersStart(main), NEW a \in Admin \ {main}, NEW p, NEW calls,
         AdminMoves(a, p, calls), p \notin {"wait", "blocked", "released"},
         calls \in Seq({"start"})
  PROVE  OthersStart(main)' /\ admin'[main] = admin[main]
BY DEF OthersStart, AdminMoves, InStop

LEMMA MainMoves ==
  ASSUME NEW main \in Admin, OthersStart(main), NEW p, NEW calls, AdminMoves(main, p, calls)
  PROVE  OthersStart(main)'
BY DEF OthersStart, AdminMoves, InStop

LEMMA OthersCalls ==
  ASSUME NEW main \in Admin, OthersStart(main), NEW a \in Admin \ {main}
  PROVE  /\ ~Calls(a, "stop") /\ ~Calls(a, "stop-nodes") /\ ~InStop(a)
         /\ admin[a].calls # <<>> => Tail(admin[a].calls) \in Seq({"start"})
         /\ admin[a].calls \in Seq({"start"}) /\ <<>> \in Seq({"start"})
<1>1. admin[a].calls \in Seq({"start"}) /\ ~InStop(a)
  BY DEF OthersStart
<1>2. admin[a].calls # <<>> => /\ Head(admin[a].calls) = "start"
                               /\ Tail(admin[a].calls) \in Seq({"start"})
  BY <1>1, HeadTailProperties
<1> QED BY <1>1, <1>2 DEF Calls

\* A step that leaves main where it is, or releases it.
LEMMA MainStays ==
  ASSUME NEW main \in Admin, MainOK(main), OthersStart(main)',
         admin'[main].calls = admin[main].calls,
         \/ admin'[main].at = admin[main].at
         \/ admin[main].at = "blocked" /\ admin'[main].at = "released",
         running => running', stopped => stopped', Drained => Drained',
         UNCHANGED <<nodesUp, refused, crashed>>
  PROVE  MainOK(main)'
<1>1. MainAt(main)'
  BY DEF MainOK, MainAt
<1> QED BY <1>1 DEF MainOK

LEMMA DrainedStays ==
  ASSUME Drained, stopped',
         \A c \in Conn : \/ conn'[c].at = conn[c].at
                         \/ conn'[c].at \in {"new", "backlog", "check", "gone"}
  PROVE  Drained'
BY DEF Drained

LEMMA ReleasesOthers ==
  ASSUME NEW main \in Admin, OthersStart(main), Releases \/ UNCHANGED admin
  PROVE  /\ OthersStart(main)' /\ admin'[main].calls = admin[main].calls
         /\ \/ admin'[main].at = admin[main].at
            \/ admin[main].at = "blocked" /\ admin'[main].at = "released"
BY DEF OthersStart, Releases, InStop

LEMMA NobodyCountedDrained == Typed /\ Counted /\ stopped /\ wg = 0 => Drained
<1> SUFFICES ASSUME Typed, Counted, stopped, wg = 0 PROVE Drained
  OBVIOUS
<1>1. Cardinality(AliveLoops) \in Nat /\ Cardinality(AliveHandlers) \in Nat
  BY AliveFinite, FS_CardinalityType
<1>2. Cardinality(AliveHandlers) = 0
  BY <1>1 DEF Counted, Alive
<1>3. AliveHandlers = {}
  BY <1>2, AliveFinite, FS_EmptySet
<1> QED BY <1>3 DEF AliveHandlers, Handling, Drained

LEMMA MainOKInductive ==
  ASSUME NEW main \in Admin, IInv, MainOK(main), [Next]_vars
  PROVE  MainOK(main)'
<1>0. /\ Typed /\ Counted /\ AdminsTyped /\ ConnectionsTyped
      /\ admin \in [Admin -> [at : AdminPoint, calls : Seq(Call), mine : MaybeListener]]
      /\ conn \in [Conn -> [at : ConnPoint, on : MaybeListener]]
      /\ MainOK(main) /\ OthersStart(main) /\ MainAt(main)
      /\ ~nodesUp => Drained
      /\ refused = FALSE /\ nodesUp \in BOOLEAN /\ crashed \in BOOLEAN
  BY DEF IInv, Typed, AdminsTyped, ConnectionsTyped, ServerTyped, MainOK
<1> USE DEF serverVars, clientVars, nodeVars
<1>1. ASSUME NEW a \in Admin, StartChecks(a) PROVE MainOK(main)'
  <2>0. UNCHANGED <<running, stopped, nodesUp, refused, crashed>> /\ conn' = conn
    BY <1>1 DEF StartChecks, NoPanic
  <2>1. admin[a].at = "out" /\ admin[a].calls # <<>> /\ Head(admin[a].calls) = "start"
    BY <1>1 DEF StartChecks, Calls
  <2>2. \E q \in {"out", "listen"}, rest \in {admin[a].calls, <<>>} :
           /\ AdminMoves(a, q, rest)
           /\ q = "listen" => rest = admin[a].calls
           /\ q = "out" => rest = <<>>
    <3>1. CASE running
      BY <1>0, <1>1, <3>1, GiveUpMoves DEF StartChecks
    <3>2. CASE ~running
      BY <1>0, <1>1, <2>1, <3>2, GoOnMoves DEF StartChecks, AdminPoint
    <3> QED BY <3>1, <3>2
  <2>3. Drained => Drained'
    BY <2>0 DEF Drained
  <2>4. CASE a = main
    <3>1. OthersStart(main)'
      BY <1>0, <2>2, <2>4, MainMoves
    <3>2. admin[main].calls = MainScript
      BY <1>0, <2>1, <2>4, MainsCalls DEF MainAt
    <3>3. MainAt(main)'
      BY <2>2, <2>4, <3>2 DEF AdminMoves, MainAt
    <3> QED BY <1>0, <2>0, <2>3, <3>1, <3>3 DEF MainOK
  <2>5. CASE a # main
    <3>1. OthersStart(main)' /\ admin'[main] = admin[main]
      BY <1>0, <2>2, <2>5, OtherMoves, OthersCalls
    <3> QED BY <1>0, <2>0, <2>3, <3>1, MainStays
  <2> QED BY <2>4, <2>5
<1>2. ASSUME NEW a \in Admin, StopCloses(a) PROVE MainOK(main)'
  <2>0. a = main /\ admin[main].at = "out" /\ admin[main].calls # <<>> /\ Head(admin[main].calls) = "stop"
    BY <1>0, <1>2, OthersCalls DEF StopCloses, Calls
  <2>1. admin[main].calls = Tail(MainScript) /\ running
    BY <1>0, <2>0, MainsCalls DEF MainAt
  <2>2. /\ stopped' = TRUE /\ nodesUp' = nodesUp /\ refused' = refused /\ GoOn(main, "wait")
        /\ conn' = [c \in Conn |-> IF conn[c].at = "backlog" /\ conn[c].on = listener
                                   THEN [conn[c] EXCEPT !.at = "gone"] ELSE conn[c]]
    BY <1>2, <2>0, <2>1 DEF StopCloses
  <2>3. AdminMoves(main, "wait", Tail(MainScript))
    BY <1>0, <2>1, <2>2, MainsCalls, GoOnMoves DEF AdminPoint
  <2>4. \A c \in Conn : conn'[c].at = conn[c].at \/ conn'[c].at = "gone"
    BY <1>0, <2>2
  <2>5. Drained => Drained'
    BY <2>2, <2>4, DrainedStays
  <2>6. MainAt(main)'
    BY <2>2, <2>3 DEF AdminMoves, MainAt
  <2> QED BY <1>0, <2>2, <2>3, <2>5, <2>6, MainMoves DEF MainOK
<1>3. ASSUME NEW a \in Admin, StopNodes(a) PROVE MainOK(main)'
  <2>0. /\ a = main /\ admin[main].at = "out" /\ admin[main].calls # <<>>
        /\ Head(admin[main].calls) = "stop-nodes"
    BY <1>0, <1>3, OthersCalls DEF StopNodes, Calls
  <2>1. admin[main].calls = Tail(Tail(MainScript)) /\ (Drained \/ crashed)
    BY <1>0, <2>0, MainsCalls DEF MainAt
  <2>2. ~crashed /\ refused' = refused /\ UNCHANGED conn /\ UNCHANGED stopped
    BY <1>3 DEF StopNodes, NoPanic
  <2>3. Drained'
    BY <2>1, <2>2 DEF Drained
  <2>4. AdminMoves(main, "out", <<>>)
    BY <1>0, <1>3, <2>0, <2>1, MainsCalls, ReturnMoves DEF StopNodes
  <2>5. MainAt(main)'
    BY <2>4 DEF AdminMoves, MainAt
  <2> QED BY <1>0, <2>2, <2>3, <2>4, <2>5, MainMoves DEF MainOK
<1>4. ASSUME NEW a \in Admin, Listen(a) PROVE MainOK(main)'
  <2>0. /\ UNCHANGED <<running, stopped, nodesUp, refused, crashed>> /\ conn' = conn
        /\ admin[a].at = "listen"
    BY <1>4 DEF Listen, NoPanic
  <2>1. Drained => Drained'
    BY <2>0 DEF Drained
  <2>2. \E q \in {"out", "publish"}, rest \in {admin[a].calls, <<>>} :
          /\ admin'[a].at = q /\ admin'[a].calls = rest
          /\ \A b \in Admin \ {a} : admin'[b] = admin[b]
          /\ q = "publish" => rest = admin[a].calls
          /\ q = "out" => rest = <<>>
    <3>1. CASE ~AnyPort /\ bound # {}
      BY <1>0, <1>4, <3>1, GiveUpMoves DEF Listen, AdminMoves
    <3>2. CASE ~(~AnyPort /\ bound # {})
      <4>1. PICK l \in Unused : admin' = [admin EXCEPT ![a].at = "publish", ![a].mine = l]
        BY <1>4, <3>2 DEF Listen
      <4> QED BY <1>0, <4>1
    <3> QED BY <3>1, <3>2
  <2>3. CASE a = main
    <3>1. OthersStart(main)'
      BY <1>0, <2>2, <2>3 DEF OthersStart, InStop
    <3>2. admin[main].calls = MainScript
      BY <1>0, <2>0, <2>3 DEF MainAt
    <3>3. MainAt(main)'
      BY <2>2, <2>3, <3>2 DEF MainAt
    <3> QED BY <1>0, <2>0, <2>1, <3>1, <3>3 DEF MainOK
  <2>4. CASE a # main
    <3>1. admin[a].calls \in Seq({"start"}) /\ <<>> \in Seq({"start"})
      BY <1>0, <2>4, OthersCalls
    <3>2. OthersStart(main)' /\ admin'[main] = admin[main]
      BY <1>0, <2>2, <2>4, <3>1 DEF OthersStart, InStop
    <3> QED BY <1>0, <2>0, <2>1, <3>2, MainStays
  <2> QED BY <2>3, <2>4
<1>5. ASSUME NEW a \in Admin, Publish(a) PROVE MainOK(main)'
  <2>0. /\ UNCHANGED <<stopped, nodesUp, refused, crashed>> /\ conn' = conn
        /\ admin[a].at = "publish" /\ running' = TRUE
    BY <1>5 DEF Publish, NoPanic
  <2>1. Drained => Drained'
    BY <2>0 DEF Drained
  <2>2. AdminMoves(a, "spawn", admin[a].calls)
    BY <1>0, <1>5, GoOnMoves DEF Publish, AdminsTyped, AdminPoint
  <2>3. CASE a = main
    <3>1. MainAt(main)'
      BY <1>0, <2>0, <2>2, <2>3 DEF MainAt, AdminMoves
    <3> QED BY <1>0, <2>0, <2>1, <2>2, <2>3, <3>1, MainMoves DEF MainOK
  <2>4. CASE a # main
    <3>1. OthersStart(main)' /\ admin'[main] = admin[main]
      BY <1>0, <2>2, <2>4, OtherMoves, OthersCalls
    <3> QED BY <1>0, <2>0, <2>1, <3>1, MainStays
  <2> QED BY <2>3, <2>4
<1>6. ASSUME NEW a \in Admin, Spawn(a) PROVE MainOK(main)'
  <2>0. /\ UNCHANGED <<running, stopped, nodesUp, refused, crashed>> /\ conn' = conn
        /\ admin[a].at = "spawn"
    BY <1>6 DEF Spawn, NoPanic
  <2>1. Drained => Drained'
    BY <2>0 DEF Drained
  <2>2. AdminMoves(a, "out", Tail(admin[a].calls)) /\ admin[a].calls # <<>>
    BY <1>0, <1>6, ReturnMoves DEF Spawn, AdminsTyped
  <2>3. CASE a = main
    <3>1. MainAt(main)'
      BY <1>0, <2>0, <2>2, <2>3 DEF MainAt, AdminMoves
    <3> QED BY <1>0, <2>0, <2>1, <2>2, <2>3, <3>1, MainMoves DEF MainOK
  <2>4. CASE a # main
    <3>0. Tail(admin[a].calls) \in Seq({"start"})
      BY <1>0, <2>2, <2>4, OthersCalls
    <3>1. OthersStart(main)' /\ admin'[main] = admin[main]
      <4> DEFINE rest == Tail(admin[a].calls)
      <4>1. AdminMoves(a, "out", rest) /\ rest \in Seq({"start"}) /\ a \in Admin \ {main}
        BY <2>2, <2>4, <3>0
      <4> HIDE DEF rest
      <4> QED BY <1>0, <4>1, OtherMoves
    <3> QED BY <1>0, <2>0, <2>1, <3>1, MainStays
  <2> QED BY <2>3, <2>4
<1>7. ASSUME NEW a \in Admin, Wait(a) PROVE MainOK(main)'
  <2>0. /\ UNCHANGED <<running, stopped, nodesUp, refused, crashed>> /\ conn' = conn
        /\ admin[a].at = "wait"
    BY <1>7 DEF Wait, NoPanic
  <2>1. Drained => Drained'
    BY <2>0 DEF Drained
  <2>2. a = main
    BY <1>0, <2>0, OthersCalls DEF InStop
  <2>3. admin[main].calls = Tail(MainScript) /\ stopped
    BY <1>0, <2>0, <2>2 DEF MainAt
  <2>4. CASE wg = 0
    <3>1. AdminMoves(main, "out", Tail(Tail(MainScript)))
      BY <1>0, <1>7, <2>2, <2>3, <2>4, MainsCalls, ReturnMoves DEF Wait
    <3>2. Drained
      BY <1>0, <2>3, <2>4, NobodyCountedDrained
    <3>3. MainAt(main)'
      BY <2>1, <3>1, <3>2 DEF MainAt, AdminMoves
    <3> QED BY <1>0, <2>0, <2>1, <3>1, <3>3, MainMoves DEF MainOK
  <2>5. CASE wg # 0
    <3>1. AdminMoves(main, "blocked", Tail(MainScript))
      BY <1>0, <1>7, <2>2, <2>3, <2>5, MainsCalls, GoOnMoves DEF Wait, AdminPoint
    <3>2. MainAt(main)'
      BY <2>0, <2>3, <3>1 DEF MainAt, AdminMoves
    <3> QED BY <1>0, <2>0, <2>1, <3>1, <3>2, MainMoves DEF MainOK
  <2> QED BY <2>4, <2>5
<1>8. ASSUME NEW a \in Admin, StopReturns(a) PROVE MainOK(main)'
  <2>0. /\ UNCHANGED <<running, stopped, nodesUp, refused>> /\ conn' = conn
        /\ crashed' = (wg # 0) /\ admin[a].at = "released"
    BY <1>8 DEF StopReturns
  <2>1. Drained => Drained'
    BY <2>0 DEF Drained
  <2>2. a = main
    BY <1>0, <2>0, OthersCalls DEF InStop
  <2>3. admin[main].calls = Tail(MainScript) /\ stopped
    BY <1>0, <2>0, <2>2 DEF MainAt
  <2>4. AdminMoves(main, "out", Tail(Tail(MainScript)))
    BY <1>0, <1>8, <2>2, <2>3, MainsCalls, ReturnMoves DEF StopReturns
  <2>5. wg = 0 => Drained
    BY <1>0, <2>3, NobodyCountedDrained
  <2>6. Drained' \/ crashed'
    BY <2>0, <2>1, <2>5
  <2>7. MainAt(main)'
    BY <2>4, <2>6 DEF MainAt, AdminMoves
  <2> QED BY <1>0, <2>0, <2>1, <2>4, <2>7, MainMoves DEF MainOK
<1>9. ASSUME NEW l \in Listener, LoopReadsListener(l) PROVE MainOK(main)'
  <2>1. /\ UNCHANGED <<running, stopped, nodesUp, refused, crashed>>
        /\ UNCHANGED admin /\ UNCHANGED conn
    BY <1>9 DEF LoopReadsListener, NoPanic
  <2>2. Drained => Drained'
    BY <2>1 DEF Drained
  <2> QED BY <1>0, <2>1, <2>2, ReleasesOthers, MainStays
<1>10. ASSUME NEW l \in Listener, LoopAccepts(l) PROVE MainOK(main)'
  <2>1. UNCHANGED <<running, stopped, nodesUp, refused, crashed>> /\ UNCHANGED admin
    BY <1>10 DEF LoopAccepts, NoPanic
  <2>2. \E c \in Conn : conn' = [conn EXCEPT ![c].at = "check"]
    BY <1>10 DEF LoopAccepts
  <2>3. \A c \in Conn : conn'[c].at = conn[c].at \/ conn'[c].at = "check"
    BY <1>0, <2>2
  <2>4. Drained => Drained'
    BY <2>1, <2>3, DrainedStays DEF Drained
  <2> QED BY <1>0, <2>1, <2>4, ReleasesOthers, MainStays
<1>11. ASSUME NEW l \in Listener, LoopFails(l) PROVE MainOK(main)'
  <2>1. UNCHANGED <<running, stopped, nodesUp, refused, crashed>> /\ UNCHANGED conn
    BY <1>11 DEF LoopFails, NoPanic
  <2>2. Drained => Drained'
    BY <2>1 DEF Drained
  <2>3. Releases
    BY <1>0, <1>11, DoneReleases DEF LoopFails
  <2> QED BY <1>0, <2>1, <2>2, <2>3, ReleasesOthers, MainStays
<1>12. ASSUME NEW c \in Conn, HandlerChecks(c) PROVE MainOK(main)'
  <2>1. UNCHANGED <<running, stopped, nodesUp, refused, crashed>>
    BY <1>12 DEF HandlerChecks, NoPanic
  <2>2. Releases \/ UNCHANGED admin
    BY <1>0, <1>12, DoneReleases DEF HandlerChecks, Leaves
  <2>3. stopped => \A k \in Conn : conn'[k].at = conn[k].at \/ conn'[k].at = "gone"
    BY <1>0, <1>12, MovesMoves DEF HandlerChecks, Leaves, ConnPoint
  <2>4. Drained => Drained'
    BY <2>1, <2>3, DrainedStays DEF Drained
  <2> QED BY <1>0, <2>1, <2>2, <2>4, ReleasesOthers, MainStays
<1>13. ASSUME NEW c \in Conn, HandlerReads(c) PROVE MainOK(main)'
  <2>1. UNCHANGED <<running, stopped, nodesUp, refused, crashed>>
    BY <1>13 DEF HandlerReads, NoPanic
  <2>2. Releases \/ UNCHANGED admin
    BY <1>0, <1>13, DoneReleases DEF HandlerReads, Leaves
  <2>3. ~Drained
    BY <1>13 DEF HandlerReads, Drained
  <2> QED BY <1>0, <2>1, <2>2, <2>3, ReleasesOthers, MainStays
<1>14. ASSUME NEW c \in Conn, HandlerAnswers(c) PROVE MainOK(main)'
  <2>1. UNCHANGED <<running, stopped, nodesUp, crashed>>
    BY <1>14 DEF HandlerAnswers, NoPanic
  <2>2. Releases \/ UNCHANGED admin
    BY <1>0, <1>14, DoneReleases DEF HandlerAnswers, Leaves
  <2>3. ~Drained
    BY <1>14 DEF HandlerAnswers, Drained
  <2>4. nodesUp /\ refused' = refused
    BY <1>0, <1>14, <2>3 DEF HandlerAnswers
  <2> QED BY <1>0, <2>1, <2>2, <2>3, <2>4, ReleasesOthers, MainStays
<1>15. ASSUME NEW c \in Conn, Connect(c) PROVE MainOK(main)'
  <2>1. UNCHANGED <<running, stopped, nodesUp, refused, crashed>> /\ UNCHANGED admin
    BY <1>15 DEF Connect, NoPanic
  <2>2. \E l \in bound : conn' = [conn EXCEPT ![c] = [at |-> "backlog", on |-> l]]
    BY <1>15 DEF Connect
  <2>3. \A k \in Conn : conn'[k].at = conn[k].at \/ conn'[k].at = "backlog"
    BY <1>0, <2>2
  <2>4. Drained => Drained'
    BY <2>1, <2>3, DrainedStays DEF Drained
  <2> QED BY <1>0, <2>1, <2>4, ReleasesOthers, MainStays
<1>16. ASSUME NEW c \in Conn, SendBody(c) PROVE MainOK(main)'
  <2>1. /\ UNCHANGED <<running, stopped, nodesUp, refused, crashed>>
        /\ UNCHANGED admin /\ UNCHANGED conn
    BY <1>16 DEF SendBody, NoPanic
  <2>2. Drained => Drained'
    BY <2>1 DEF Drained
  <2> QED BY <1>0, <2>1, <2>2, ReleasesOthers, MainStays
<1>17. ASSUME NEW c \in Conn, ClientCloses(c) PROVE MainOK(main)'
  <2>1. /\ UNCHANGED <<running, stopped, nodesUp, refused, crashed>>
        /\ UNCHANGED admin /\ UNCHANGED conn
    BY <1>17 DEF ClientCloses, NoPanic
  <2>2. Drained => Drained'
    BY <2>1 DEF Drained
  <2> QED BY <1>0, <2>1, <2>2, ReleasesOthers, MainStays
<1>18. ASSUME NEW c \in Conn, NEW part \in {"bare", "header"}, SendHeader(c, part) PROVE MainOK(main)'
  <2>1. /\ UNCHANGED <<running, stopped, nodesUp, refused, crashed>>
        /\ UNCHANGED admin /\ UNCHANGED conn
    BY <1>18 DEF SendHeader, NoPanic
  <2>2. Drained => Drained'
    BY <2>1 DEF Drained
  <2> QED BY <1>0, <2>1, <2>2, ReleasesOthers, MainStays
<1>19. CASE UNCHANGED vars
  <2>1. UNCHANGED <<running, stopped, nodesUp, refused, crashed>> /\ UNCHANGED admin /\ UNCHANGED conn
    BY <1>19 DEF vars
  <2>2. Drained => Drained'
    BY <2>1 DEF Drained
  <2> QED BY <1>0, <2>1, <2>2, ReleasesOthers, MainStays
<1> QED BY <1>1, <1>2, <1>3, <1>4, <1>5, <1>6, <1>7, <1>8, <1>9, <1>10, <1>11, <1>12,
          <1>13, <1>14, <1>15, <1>16, <1>17, <1>18, <1>19
        DEF Next, Continues, Accepting, Serving, Client

LEMMA MainOKInitially ==
  ASSUME NEW main \in Admin, OnlyMainStops(main), Init
  PROVE  MainOK(main)
<1>1. OthersStart(main)
  BY DEF OthersStart, OnlyMainStops, InStop, Init
<1>2. MainAt(main)
  BY DEF MainAt, OnlyMainStops, Init
<1> QED BY <1>1, <1>2 DEF MainOK, Init

\* main and Cleanup stop the nodes after Stop has waited for the handlers (main.go:138-147,
\* server.go:145): no command of a client meets a stopped node, however many goroutines
\* start the server meanwhile, and on any port.
THEOREM NoCommandEverMeetsStoppedNode ==
  ASSUME NEW main \in Admin, OnlyMainStops(main)
  PROVE  Spec => []NoCommandMeetsStoppedNode
<1>1. Init => MainOK(main)
  BY MainOKInitially
<1>2. IInv /\ MainOK(main) /\ [Next]_vars => MainOK(main)'
  BY MainOKInductive
<1>3. MainOK(main) => NoCommandMeetsStoppedNode
  BY DEF MainOK, NoCommandMeetsStoppedNode
<1> QED BY <1>1, <1>2, <1>3, IInvAlways, PTL DEF Spec

-----------------------------------------------------------------------------
(***************************************************************************)
(* The server implements ConnectionService: every step is a step of the    *)
(* abstract specification or changes nothing of what is seen outside.      *)
(***************************************************************************)

Up == bound # {}

StopSeen == IF crashed \/ \E a \in Admin : InStop(a) THEN "waiting"
            ELSE IF stopped THEN "returned" ELSE "no"

LinkAt(c) == IF conn[c].at = "new" THEN "none"
             ELSE IF Handling(c) THEN "served" ELSE conn[c].at

Link == [c \in Conn |-> LinkAt(c)]

ClientSeen == [c \in Conn |-> [open |-> client[c].open, owed |-> client[c].owed]]

Stutters == UNCHANGED <<Up, StopSeen, Link, ClientSeen>>

OutsideStep == Outside!Next \/ Stutters

\* The abstract specification in these terms.
LEMMA OutsideIs ==
  /\ Outside!vars = <<Up, StopSeen, Link, ClientSeen>>
  /\ Outside!Init <=> /\ Up = FALSE /\ StopSeen = "no"
                      /\ Link = [c \in Conn |-> "none"]
                      /\ ClientSeen = [c \in Conn |-> [open |-> FALSE, owed |-> 0]]
  /\ Outside!Start <=> Up' = TRUE /\ UNCHANGED <<StopSeen, Link, ClientSeen>>
  /\ Outside!Stop <=> /\ StopSeen' = "waiting" /\ Up' = FALSE
                      /\ Link' = [c \in Conn |-> IF Link[c] = "backlog" THEN "gone" ELSE Link[c]]
                      /\ UNCHANGED ClientSeen
  /\ Outside!StopReturns <=> /\ StopSeen = "waiting"
                             /\ \A c \in Conn : Link[c] # "served"
                             /\ StopSeen' = "returned"
                             /\ UNCHANGED <<Up, Link, ClientSeen>>
  /\ \A c : Outside!Dial(c) <=>
              /\ Up
              /\ Link[c] \in {"none", "gone"} /\ ~ClientSeen[c].open
              /\ Link' = [Link EXCEPT ![c] = "backlog"]
              /\ ClientSeen' = [ClientSeen EXCEPT ![c] = [open |-> TRUE, owed |-> 0]]
              /\ UNCHANGED <<Up, StopSeen>>
  /\ \A c : Outside!Send(c) <=>
              /\ ClientSeen[c].open
              /\ ClientSeen' = [ClientSeen EXCEPT ![c].owed = @ + 1]
              /\ UNCHANGED <<Up, StopSeen, Link>>
  /\ \A c : Outside!Close(c) <=>
              /\ ClientSeen[c].open
              /\ ClientSeen' = [ClientSeen EXCEPT ![c].open = FALSE]
              /\ UNCHANGED <<Up, StopSeen, Link>>
  /\ \A c : Outside!Accept(c) <=>
              /\ Link[c] = "backlog"
              /\ Link' = [Link EXCEPT ![c] = "served"]
              /\ UNCHANGED <<Up, StopSeen, ClientSeen>>
  /\ \A c : Outside!Answer(c) <=>
              /\ Link[c] = "served"
              /\ ClientSeen[c].owed > 0
              /\ ClientSeen' = [ClientSeen EXCEPT ![c].owed = @ - 1]
              /\ \/ UNCHANGED Link
                 \/ ~ClientSeen[c].open /\ Link' = [Link EXCEPT ![c] = "gone"]
              /\ UNCHANGED <<Up, StopSeen>>
  /\ \A c : Outside!End(c) <=>
              /\ Link[c] = "served"
              /\ ~ClientSeen[c].open \/ StopSeen # "no"
              /\ Link' = [Link EXCEPT ![c] = "gone"]
              /\ UNCHANGED <<Up, StopSeen, ClientSeen>>
BY DEF Outside!vars, Outside!Init, Outside!Start, Outside!Stop, Outside!StopReturns,
       Outside!Dial, Outside!Send, Outside!Close, Outside!Accept, Outside!Answer,
       Outside!End, Up, StopSeen, Link, LinkAt, ClientSeen

LEMMA StopSeenStays ==
  ASSUME Releases \/ UNCHANGED admin, UNCHANGED <<stopped, crashed>>
  PROVE  StopSeen' = StopSeen
<1>1. \A a \in Admin : InStop(a)' <=> InStop(a)
  BY DEF Releases, InStop
<1> QED BY <1>1 DEF StopSeen

\* A goroutine moves, within Stop or outside it.
LEMMA MovesStopSeen ==
  ASSUME NEW a \in Admin, NEW p, NEW calls, AdminMoves(a, p, calls),
         p \in {"wait", "blocked", "released"} <=> InStop(a), UNCHANGED <<stopped, crashed>>
  PROVE  StopSeen' = StopSeen
<1>1. \A b \in Admin : InStop(b)' <=> InStop(b)
  BY DEF AdminMoves, InStop
<1> QED BY <1>1 DEF StopSeen

LEMMA OneLinkMoves ==
  ASSUME NEW c \in Conn, NEW v, LinkAt(c)' = v, \A d \in Conn \ {c} : conn'[d] = conn[d]
  PROVE  /\ Link' = [Link EXCEPT ![c] = v]
         /\ LinkAt(c) = v => Link' = Link
<1>1. \A d \in Conn \ {c} : LinkAt(d)' = LinkAt(d)
  BY DEF LinkAt, Handling
<1> QED BY <1>1 DEF Link

LEMMA OneClientMoves ==
  ASSUME NEW c \in Conn, \A d \in Conn \ {c} : client'[d] = client[d]
  PROVE  /\ ClientSeen' = [ClientSeen EXCEPT ![c] = [open |-> client'[c].open,
                                                     owed |-> client'[c].owed]]
         /\ client'[c].open = client[c].open =>
              ClientSeen' = [ClientSeen EXCEPT ![c].owed = client'[c].owed]
         /\ client'[c].owed = client[c].owed =>
              ClientSeen' = [ClientSeen EXCEPT ![c].open = client'[c].open]
         /\ client'[c].owed = client[c].owed /\ client'[c].open = client[c].open =>
              ClientSeen' = ClientSeen
BY DEF ClientSeen

LEMMA StoppedIsSeen == IInv => /\ stopped => StopSeen # "no"
                               /\ (\E a \in Admin : InStop(a)) => StopSeen = "waiting" /\ stopped
BY DEF IInv, StopsOK, StopSeen

LEMMA SeenIs == \A c \in Conn : /\ Link[c] = LinkAt(c) /\ ClientSeen[c].open = client[c].open
                                /\ ClientSeen[c].owed = client[c].owed
BY DEF Link, ClientSeen

LEMMA NobodyServed == Typed /\ Counted /\ wg = 0 => \A c \in Conn : Link[c] # "served"
<1> SUFFICES ASSUME Typed, Counted, wg = 0, NEW c \in Conn PROVE Link[c] # "served"
  OBVIOUS
<1>1. Cardinality(AliveLoops) \in Nat /\ Cardinality(AliveHandlers) \in Nat
  BY AliveFinite, FS_CardinalityType
<1>2. Cardinality(AliveHandlers) = 0
  BY <1>1 DEF Counted, Alive
<1>3. AliveHandlers = {}
  BY <1>2, AliveFinite, FS_EmptySet
<1>4. ~Handling(c) /\ conn[c].at \in ConnPoint
  BY <1>3 DEF AliveHandlers, Typed, ConnectionsTyped
<1> QED BY <1>4, SeenIs DEF LinkAt, Handling, ConnPoint

\* A Stop that comes back: the last one to, or one of several.
LEMMA StopComesBack ==
  ASSUME IInv, NEW a \in Admin, InStop(a), NEW calls, AdminMoves(a, "out", calls), wg = 0,
         ~crashed, ~crashed', UNCHANGED <<stopped, bound, conn, client>>
  PROVE  OutsideStep
<1>1. Up' = Up /\ Link' = Link /\ ClientSeen' = ClientSeen
  BY DEF Up, Link, LinkAt, Handling, ClientSeen
<1>2. StopSeen = "waiting" /\ stopped
  BY StoppedIsSeen
<1>3. \A b \in Admin : InStop(b)' <=> InStop(b) /\ b # a
  BY DEF AdminMoves, InStop
<1>4. CASE \E b \in Admin : InStop(b)'
  <2>1. StopSeen' = StopSeen
    BY <1>2, <1>4 DEF StopSeen
  <2> QED BY <1>1, <2>1 DEF OutsideStep, Stutters
<1>5. CASE ~\E b \in Admin : InStop(b)'
  <2>1. StopSeen' = "returned"
    BY <1>2, <1>5 DEF StopSeen
  <2>2. \A c \in Conn : Link[c] # "served"
    BY NobodyServed DEF IInv
  <2>3. Outside!StopReturns
    BY <1>1, <1>2, <2>1, <2>2, OutsideIs
  <2> QED BY <2>3 DEF OutsideStep, Outside!Next
<1> QED BY <1>4, <1>5

LEMMA StepsOutside ==
  ASSUME ~AnyPort, IInv, [Next]_vars
  PROVE  OutsideStep
<1>0. /\ AdminsTyped /\ ConnectionsTyped
      /\ admin \in [Admin -> [at : AdminPoint, calls : Seq(Call), mine : MaybeListener]]
      /\ conn \in [Conn -> [at : ConnPoint, on : MaybeListener]]
      /\ wire \in [Conn -> Seq(Part)]
      /\ client \in [Conn -> [open : BOOLEAN, sent : Int, owed : Int]]
      /\ bound \subseteq Listener /\ running \in BOOLEAN /\ crashed \in BOOLEAN
  BY DEF IInv, Typed, AdminsTyped, ConnectionsTyped, ServerTyped
<1>same. ASSUME UNCHANGED <<bound, conn, client>>, StopSeen' = StopSeen
         PROVE  OutsideStep
  BY <1>same DEF OutsideStep, Stutters, Up, Link, LinkAt, Handling, ClientSeen
<1>send. ASSUME NEW c \in Conn, UNCHANGED <<stopped, crashed, bound, admin, conn>>, client[c].open,
                client'[c].owed = client[c].owed + 1, client'[c].open = client[c].open,
                \A d \in Conn \ {c} : client'[d] = client[d]
         PROVE  OutsideStep
  <2>1. ClientSeen' = [ClientSeen EXCEPT ![c].owed = @ + 1]
    <3>1. ClientSeen' = [ClientSeen EXCEPT ![c].owed = client[c].owed + 1]
      BY <1>send, OneClientMoves
    <3> QED BY <3>1, SeenIs
  <2>2. UNCHANGED <<Up, StopSeen, Link>>
    BY <1>send, StopSeenStays DEF Up, Link, LinkAt, Handling
  <2>3. Outside!Send(c)
    BY <1>send, <2>1, <2>2, SeenIs, OutsideIs
  <2> QED BY <2>3 DEF OutsideStep, Outside!Next
<1> USE DEF serverVars, clientVars, nodeVars
<1>1. ASSUME NEW a \in Admin, StartChecks(a) PROVE OutsideStep
  <2>1. UNCHANGED <<stopped, crashed, bound, conn, client>> /\ ~InStop(a)
    BY <1>1 DEF StartChecks, NoPanic, Calls, InStop
  <2>2. StopSeen' = StopSeen
    <3>1. CASE running
      BY <1>0, <1>1, <2>1, <3>1, GiveUpMoves, MovesStopSeen DEF StartChecks
    <3>2. CASE ~running
      <4>1. AdminMoves(a, "listen", admin[a].calls)
        BY <1>0, <1>1, <3>2, GoOnMoves DEF StartChecks, Calls, AdminPoint
      <4> QED BY <2>1, <4>1, MovesStopSeen
    <3> QED BY <3>1, <3>2
  <2> QED BY <2>1, <2>2, <1>same
<1>2. ASSUME NEW a \in Admin, StopCloses(a) PROVE OutsideStep
  <2>0. ~InStop(a) /\ client' = client /\ ~crashed
    BY <1>2 DEF StopCloses, Calls, InStop
  <2>1. CASE ~running
    <3>1. UNCHANGED <<stopped, crashed, bound, conn, client>>
      BY <1>2, <2>1 DEF StopCloses
    <3>2. AdminMoves(a, "out", Tail(admin[a].calls))
      BY <1>0, <1>2, <2>1, ReturnMoves DEF StopCloses, Calls
    <3> QED BY <2>0, <3>1, <3>2, MovesStopSeen, <1>same
  <2>2. CASE running
    <3>1. /\ bound' = bound \ {listener}
          /\ conn' = [c \in Conn |-> IF conn[c].at = "backlog" /\ conn[c].on = listener
                                     THEN [conn[c] EXCEPT !.at = "gone"] ELSE conn[c]]
      BY <1>2, <2>2 DEF StopCloses
    <3>2. bound = {listener}
      BY <2>2 DEF IInv, ListenersOK
    <3>3. Up' = FALSE
      BY <3>1, <3>2 DEF Up
    <3>4. AdminMoves(a, "wait", admin[a].calls)
      BY <1>0, <1>2, <2>2, GoOnMoves DEF StopCloses, Calls, AdminPoint
    <3>5. StopSeen' = "waiting"
      BY <3>4 DEF AdminMoves, InStop, StopSeen
    <3>6. ASSUME NEW c \in Conn
          PROVE  LinkAt(c)' = IF LinkAt(c) = "backlog" THEN "gone" ELSE LinkAt(c)
      <4>1. conn[c].at \in ConnPoint /\ (conn[c].at = "backlog" => conn[c].on = listener)
        BY <1>0, <3>2 DEF IInv, ConnectionsOK, ConnectionOK
      <4>2. CASE conn[c].at = "backlog"
        <5>1. conn'[c].at = "gone" /\ LinkAt(c) = "backlog"
          BY <1>0, <3>1, <4>1, <4>2 DEF LinkAt, Handling
        <5> QED BY <5>1 DEF LinkAt, Handling
      <4>3. CASE conn[c].at # "backlog"
        <5>1. conn'[c] = conn[c] /\ LinkAt(c) # "backlog"
          BY <3>1, <4>3 DEF LinkAt, Handling
        <5> QED BY <5>1 DEF LinkAt, Handling
      <4> QED BY <4>2, <4>3
    <3>7. Link' = [c \in Conn |-> IF Link[c] = "backlog" THEN "gone" ELSE Link[c]]
      BY <3>6 DEF Link
    <3>8. ClientSeen' = ClientSeen
      BY <2>0 DEF ClientSeen
    <3>9. Outside!Stop
      BY <3>3, <3>5, <3>7, <3>8, OutsideIs
    <3> QED BY <3>9 DEF OutsideStep, Outside!Next
  <2> QED BY <2>1, <2>2
<1>3. ASSUME NEW a \in Admin, StopNodes(a) PROVE OutsideStep
  <2>1. UNCHANGED <<stopped, crashed, bound, conn, client>> /\ ~InStop(a)
    BY <1>3 DEF StopNodes, NoPanic, Calls, InStop
  <2>2. AdminMoves(a, "out", Tail(admin[a].calls))
    BY <1>0, <1>3, ReturnMoves DEF StopNodes, Calls
  <2> QED BY <2>1, <2>2, MovesStopSeen, <1>same
<1>4. ASSUME NEW a \in Admin, Listen(a) PROVE OutsideStep
  <2>1. UNCHANGED <<stopped, crashed, conn, client>> /\ ~InStop(a)
    BY <1>4 DEF Listen, NoPanic, InStop
  <2>2. CASE bound # {}
    <3>1. AdminMoves(a, "out", <<>>) /\ bound' = bound
      BY <1>0, <1>4, <2>2, GiveUpMoves DEF Listen
    <3> QED BY <2>1, <3>1, MovesStopSeen, <1>same
  <2>3. CASE bound = {}
    <3>1. PICK l \in Unused : /\ bound' = bound \cup {l}
                              /\ admin' = [admin EXCEPT ![a].at = "publish", ![a].mine = l]
      BY <1>4, <2>3 DEF Listen
    <3>2. \A b \in Admin : InStop(b)' <=> InStop(b)
      BY <1>0, <2>1, <3>1 DEF InStop
    <3>3. StopSeen' = StopSeen /\ Up' = TRUE
      BY <2>1, <3>1, <3>2 DEF StopSeen, Up
    <3>4. Link' = Link /\ ClientSeen' = ClientSeen
      BY <2>1 DEF Link, LinkAt, Handling, ClientSeen
    <3>5. Outside!Start
      BY <3>3, <3>4, OutsideIs
    <3> QED BY <3>5 DEF OutsideStep, Outside!Next
  <2> QED BY <2>2, <2>3
<1>5. ASSUME NEW a \in Admin, Publish(a) PROVE OutsideStep
  <2>1. UNCHANGED <<stopped, crashed, bound, conn, client>> /\ ~InStop(a)
    BY <1>5 DEF Publish, NoPanic, InStop
  <2>2. AdminMoves(a, "spawn", admin[a].calls)
    BY <1>0, <1>5, GoOnMoves DEF Publish, AdminsTyped, AdminPoint
  <2> QED BY <2>1, <2>2, MovesStopSeen, <1>same
<1>6. ASSUME NEW a \in Admin, Spawn(a) PROVE OutsideStep
  <2>1. UNCHANGED <<stopped, crashed, bound, conn, client>> /\ ~InStop(a)
    BY <1>6 DEF Spawn, NoPanic, InStop
  <2>2. AdminMoves(a, "out", Tail(admin[a].calls))
    BY <1>0, <1>6, ReturnMoves DEF Spawn, AdminsTyped
  <2> QED BY <2>1, <2>2, MovesStopSeen, <1>same
<1>7. ASSUME NEW a \in Admin, Wait(a) PROVE OutsideStep
  <2>1. UNCHANGED <<stopped, crashed, bound, conn, client>> /\ InStop(a) /\ ~crashed
    BY <1>7 DEF Wait, NoPanic, InStop
  <2>2. CASE wg = 0
    <3>1. AdminMoves(a, "out", Tail(admin[a].calls))
      BY <1>0, <1>7, <2>2, ReturnMoves DEF Wait, AdminsTyped
    <3> QED BY <2>1, <2>2, <3>1, StopComesBack
  <2>3. CASE wg # 0
    <3>1. AdminMoves(a, "blocked", admin[a].calls)
      BY <1>0, <1>7, <2>3, GoOnMoves DEF Wait, AdminsTyped, AdminPoint
    <3> QED BY <2>1, <3>1, MovesStopSeen, <1>same
  <2> QED BY <2>2, <2>3
<1>8. ASSUME NEW a \in Admin, StopReturns(a) PROVE OutsideStep
  <2>1. /\ UNCHANGED <<stopped, bound, conn, client>> /\ InStop(a) /\ ~crashed
        /\ crashed' = (wg # 0)
    BY <1>8 DEF StopReturns, InStop
  <2>2. AdminMoves(a, "out", Tail(admin[a].calls))
    BY <1>0, <1>8, ReturnMoves DEF StopReturns, AdminsTyped
  <2>3. CASE wg = 0
    BY <2>1, <2>2, <2>3, StopComesBack
  <2>4. CASE wg # 0
    <3>1. StopSeen' = "waiting" /\ StopSeen = "waiting"
      BY <2>1, <2>4, StoppedIsSeen DEF StopSeen
    <3> QED BY <2>1, <3>1, <1>same
  <2> QED BY <2>3, <2>4
<1>9. ASSUME NEW l \in Listener, LoopReadsListener(l) PROVE OutsideStep
  <2>1. UNCHANGED <<stopped, crashed, bound, conn, client, admin>>
    BY <1>9 DEF LoopReadsListener, NoPanic
  <2> QED BY <2>1, StopSeenStays, <1>same
<1>10. ASSUME NEW l \in Listener, LoopAccepts(l) PROVE OutsideStep
  <2>1. UNCHANGED <<stopped, crashed, bound, client, admin>>
    BY <1>10 DEF LoopAccepts, NoPanic
  <2>2. PICK c \in Conn : conn[c].at = "backlog" /\ conn' = [conn EXCEPT ![c].at = "check"]
    BY <1>10 DEF LoopAccepts
  <2>3. conn'[c].at = "check" /\ \A d \in Conn \ {c} : conn'[d] = conn[d]
    BY <1>0, <2>2
  <2>4. LinkAt(c) = "backlog" /\ LinkAt(c)' = "served"
    BY <2>2, <2>3 DEF LinkAt, Handling
  <2>5. Link' = [Link EXCEPT ![c] = "served"] /\ Link[c] = "backlog"
    BY <2>3, <2>4, OneLinkMoves, SeenIs
  <2>6. UNCHANGED <<Up, StopSeen, ClientSeen>>
    BY <2>1, StopSeenStays DEF Up, ClientSeen
  <2>7. Outside!Accept(c)
    BY <2>5, <2>6, OutsideIs
  <2> QED BY <2>7 DEF OutsideStep, Outside!Next
<1>11. ASSUME NEW l \in Listener, LoopFails(l) PROVE OutsideStep
  <2>1. UNCHANGED <<stopped, crashed, bound, conn, client>>
    BY <1>11 DEF LoopFails, NoPanic
  <2>2. Releases
    BY <1>0, <1>11, DoneReleases DEF LoopFails
  <2> QED BY <2>1, <2>2, StopSeenStays, <1>same
<1>12. ASSUME NEW c \in Conn, HandlerChecks(c) PROVE OutsideStep
  <2>1. UNCHANGED <<stopped, crashed, bound, client>> /\ conn[c].at = "check"
    BY <1>12 DEF HandlerChecks, NoPanic
  <2>2. Releases \/ UNCHANGED admin
    BY <1>0, <1>12, DoneReleases DEF HandlerChecks, Leaves
  <2>3. UNCHANGED <<Up, StopSeen, ClientSeen>> /\ LinkAt(c) = "served"
    BY <2>1, <2>2, StopSeenStays DEF Up, ClientSeen, LinkAt, Handling
  <2>4. CASE stopped
    <3>1. conn'[c].at = "gone" /\ \A d \in Conn \ {c} : conn'[d] = conn[d]
      BY <1>0, <1>12, <2>4, MovesMoves DEF HandlerChecks, Leaves, ConnPoint
    <3>2. LinkAt(c)' = "gone"
      BY <3>1 DEF LinkAt, Handling
    <3>3. Outside!End(c)
      BY <2>3, <2>4, <3>1, <3>2, OneLinkMoves, SeenIs, StoppedIsSeen, OutsideIs
    <3> QED BY <3>3 DEF OutsideStep, Outside!Next
  <2>5. CASE ~stopped
    <3>1. conn'[c].at = "header" /\ \A d \in Conn \ {c} : conn'[d] = conn[d]
      BY <1>0, <1>12, <2>5, MovesMoves DEF HandlerChecks, ConnPoint
    <3>2. LinkAt(c)' = "served"
      BY <3>1 DEF LinkAt, Handling
    <3> QED BY <2>3, <3>1, <3>2, OneLinkMoves DEF OutsideStep, Stutters
  <2> QED BY <2>4, <2>5
<1>13. ASSUME NEW c \in Conn, HandlerReads(c) PROVE OutsideStep
  <2>1. UNCHANGED <<stopped, crashed, bound, client>> /\ conn[c].at \in {"header", "data"}
    BY <1>13 DEF HandlerReads, NoPanic
  <2>2. Releases \/ UNCHANGED admin
    BY <1>0, <1>13, DoneReleases DEF HandlerReads, Leaves
  <2>3. UNCHANGED <<Up, StopSeen, ClientSeen>> /\ LinkAt(c) = "served"
    BY <2>1, <2>2, StopSeenStays DEF Up, ClientSeen, LinkAt, Handling
  <2>4. CASE wire[c] = <<>>
    <3>1. /\ conn'[c].at = "gone" /\ \A d \in Conn \ {c} : conn'[d] = conn[d]
          /\ ~client[c].open
      BY <1>0, <1>13, <2>4, MovesMoves DEF HandlerReads, Leaves, ConnPoint
    <3>2. LinkAt(c)' = "gone"
      BY <3>1 DEF LinkAt, Handling
    <3>3. Outside!End(c)
      BY <2>3, <3>1, <3>2, OneLinkMoves, SeenIs, OutsideIs
    <3> QED BY <3>3 DEF OutsideStep, Outside!Next
  <2>5. CASE wire[c] # <<>>
    <3>1. wire[c] \in Seq(Part) /\ Head(wire[c]) \in Part
      BY <1>0, <2>5, HeadTailProperties
    <3>2. PICK q \in {"handle-bare", "data", "handle"} : Moves(c, q)
      BY <1>13, <2>5, <3>1 DEF HandlerReads, Part
    <3>3. conn'[c].at = q /\ \A d \in Conn \ {c} : conn'[d] = conn[d]
      BY <1>0, <3>2, MovesMoves DEF ConnPoint
    <3>4. LinkAt(c)' = "served"
      BY <3>3 DEF LinkAt, Handling
    <3> QED BY <2>3, <3>3, <3>4, OneLinkMoves DEF OutsideStep, Stutters
  <2> QED BY <2>4, <2>5
<1>14. ASSUME NEW c \in Conn, HandlerAnswers(c) PROVE OutsideStep
  <2>1. /\ UNCHANGED <<stopped, crashed, bound>> /\ conn[c].at \in {"handle-bare", "handle"}
        /\ client' = [client EXCEPT ![c].owed = client[c].owed - 1]
    BY <1>14 DEF HandlerAnswers, NoPanic
  <2>2. Releases \/ UNCHANGED admin
    BY <1>0, <1>14, DoneReleases DEF HandlerAnswers, Leaves
  <2>3. UNCHANGED <<Up, StopSeen>> /\ LinkAt(c) = "served"
    BY <2>1, <2>2, StopSeenStays DEF Up, LinkAt, Handling
  <2>4. /\ client'[c].owed = client[c].owed - 1 /\ client'[c].open = client[c].open
        /\ \A d \in Conn \ {c} : client'[d] = client[d]
    BY <1>0, <2>1
  <2>5. ClientSeen' = [ClientSeen EXCEPT ![c].owed = ClientSeen[c].owed - 1]
    <3>1. ClientSeen' = [ClientSeen EXCEPT ![c].owed = client[c].owed - 1]
      BY <2>4, OneClientMoves
    <3> QED BY <3>1, SeenIs
  <2>6. client[c].owed > 0
    <3>1. wire[c] \in Seq(Part) /\ client[c].owed \in Int /\ ConnectionOK(c) /\ Busy(c)
      BY <1>0, <2>1 DEF IInv, ConnectionsOK, Busy
    <3>2. Cardinality(Whole(wire[c])) \in Nat
      BY <3>1, WholeFinite
    <3> QED BY <3>1, <3>2 DEF ConnectionOK
  <2>7. CASE Moves(c, "check")
    <3>1. conn'[c].at = "check" /\ \A d \in Conn \ {c} : conn'[d] = conn[d]
      BY <1>0, <2>7, MovesMoves DEF ConnPoint
    <3>2. LinkAt(c)' = "served"
      BY <3>1 DEF LinkAt, Handling
    <3>3. Link' = Link
      BY <2>3, <3>1, <3>2, OneLinkMoves
    <3>4. Outside!Answer(c)
      BY <2>3, <2>5, <2>6, <3>3, SeenIs, OutsideIs
    <3> QED BY <3>4 DEF OutsideStep, Outside!Next
  <2>8. CASE ~client[c].open /\ Leaves(c)
    <3>1. conn'[c].at = "gone" /\ \A d \in Conn \ {c} : conn'[d] = conn[d]
      BY <1>0, <2>8, MovesMoves DEF Leaves, ConnPoint
    <3>2. LinkAt(c)' = "gone"
      BY <3>1 DEF LinkAt, Handling
    <3>3. Link' = [Link EXCEPT ![c] = "gone"]
      BY <3>1, <3>2, OneLinkMoves
    <3>4. Outside!Answer(c)
      BY <2>3, <2>5, <2>6, <2>8, <3>3, SeenIs, OutsideIs
    <3> QED BY <3>4 DEF OutsideStep, Outside!Next
  <2> QED BY <1>14, <2>7, <2>8 DEF HandlerAnswers
<1>15. ASSUME NEW c \in Conn, Connect(c) PROVE OutsideStep
  <2>1. /\ UNCHANGED <<stopped, crashed, bound, admin>> /\ conn[c].at = "new"
        /\ client' = [client EXCEPT ![c].open = TRUE]
    BY <1>15 DEF Connect, NoPanic
  <2>2. PICK l \in bound : conn' = [conn EXCEPT ![c] = [at |-> "backlog", on |-> l]]
    BY <1>15 DEF Connect
  <2>3. conn'[c].at = "backlog" /\ \A d \in Conn \ {c} : conn'[d] = conn[d]
    BY <1>0, <2>2
  <2>4. LinkAt(c) = "none" /\ LinkAt(c)' = "backlog"
    BY <2>1, <2>3 DEF LinkAt, Handling
  <2>5. Link' = [Link EXCEPT ![c] = "backlog"] /\ Link[c] = "none"
    BY <2>3, <2>4, OneLinkMoves, SeenIs
  <2>6. ~client[c].open /\ client[c].owed = 0
    <3>1. ConnectionOK(c) /\ wire[c] = <<>> /\ ~Busy(c) /\ ~client[c].open
      BY <2>1 DEF IInv, ConnectionsOK, ConnectionOK, Busy
    <3>2. Whole(wire[c]) = {}
      BY <3>1 DEF Whole
    <3>3. Cardinality(Whole(wire[c])) = 0
      BY <3>2, FS_EmptySet
    <3> QED BY <3>1, <3>3 DEF ConnectionOK
  <2>7. ClientSeen' = [ClientSeen EXCEPT ![c] = [open |-> TRUE, owed |-> 0]]
    <3>1. /\ client'[c].owed = 0 /\ client'[c].open = TRUE
          /\ \A d \in Conn \ {c} : client'[d] = client[d]
      BY <1>0, <2>1, <2>6
    <3> QED BY <3>1, OneClientMoves
  <2>8. UNCHANGED <<Up, StopSeen>> /\ Up
    BY <2>1, <2>2, StopSeenStays DEF Up
  <2>9. Outside!Dial(c)
    BY <2>5, <2>6, <2>7, <2>8, SeenIs, OutsideIs
  <2> QED BY <2>9 DEF OutsideStep, Outside!Next
<1>16. ASSUME NEW c \in Conn, SendBody(c) PROVE OutsideStep
  <2>1. /\ UNCHANGED <<stopped, crashed, bound, admin, conn>> /\ client[c].open
        /\ client' = [client EXCEPT ![c].owed = client[c].owed + 1]
    BY <1>16 DEF SendBody, NoPanic
  <2>2. /\ client'[c].owed = client[c].owed + 1 /\ client'[c].open = client[c].open
        /\ \A d \in Conn \ {c} : client'[d] = client[d]
    BY <1>0, <2>1
  <2> QED BY <2>1, <2>2, <1>send
<1>17. ASSUME NEW c \in Conn, ClientCloses(c) PROVE OutsideStep
  <2>1. /\ UNCHANGED <<stopped, crashed, bound, admin, conn>> /\ client[c].open
        /\ client' = [client EXCEPT ![c].open = FALSE]
    BY <1>17 DEF ClientCloses, NoPanic
  <2>2. /\ client'[c].owed = client[c].owed /\ client'[c].open = FALSE
        /\ \A d \in Conn \ {c} : client'[d] = client[d]
    BY <1>0, <2>1
  <2>3. ClientSeen' = [ClientSeen EXCEPT ![c].open = FALSE]
    BY <2>2, OneClientMoves
  <2>4. UNCHANGED <<Up, StopSeen, Link>>
    BY <2>1, StopSeenStays DEF Up, Link, LinkAt, Handling
  <2>5. Outside!Close(c)
    BY <2>1, <2>3, <2>4, SeenIs, OutsideIs
  <2> QED BY <2>5 DEF OutsideStep, Outside!Next
<1>18. ASSUME NEW c \in Conn, NEW part \in {"bare", "header"}, SendHeader(c, part) PROVE OutsideStep
  <2>1. /\ UNCHANGED <<stopped, crashed, bound, admin, conn>> /\ client[c].open
        /\ client' = [client EXCEPT ![c].sent = client[c].sent + 1,
                                    ![c].owed = IF part = "bare" THEN client[c].owed + 1
                                                ELSE client[c].owed]
    BY <1>18 DEF SendHeader, NoPanic
  <2>2. /\ client'[c].owed = (IF part = "bare" THEN client[c].owed + 1 ELSE client[c].owed)
        /\ client'[c].open = client[c].open
        /\ \A d \in Conn \ {c} : client'[d] = client[d]
    BY <1>0, <2>1
  <2>3. CASE part = "bare"
    BY <2>1, <2>2, <2>3, <1>send
  <2>4. CASE part # "bare"
    <3>1. ClientSeen' = ClientSeen
      BY <2>2, <2>4, OneClientMoves
    <3> QED BY <2>1, <3>1, StopSeenStays DEF OutsideStep, Stutters, Up, Link, LinkAt, Handling
  <2> QED BY <2>3, <2>4
<1>19. CASE UNCHANGED vars
  BY <1>19, StopSeenStays, <1>same DEF vars
<1> QED BY <1>1, <1>2, <1>3, <1>4, <1>5, <1>6, <1>7, <1>8, <1>9, <1>10, <1>11, <1>12,
          <1>13, <1>14, <1>15, <1>16, <1>17, <1>18, <1>19
        DEF Next, Continues, Accepting, Serving, Client

\* A client of a server on a port of its own sees what ConnectionService promises, whatever
\* goroutines start and stop the server (server.go:95-306): it is dialled while a listener
\* is open, a handler ends only when its client has closed or Stop was called, each response
\* answers a request, and Stop returns when no handler is left.
THEOREM ServerImplementsConnectionService ==
  ASSUME ~AnyPort
  PROVE  Spec => ImplementsConnectionService
<1>1. Init => Outside!Init
  <2> SUFFICES ASSUME Init PROVE Outside!Init
    OBVIOUS
  <2>1. Up = FALSE /\ StopSeen = "no"
    BY DEF Init, Up, StopSeen, InStop
  <2>2. Link = [c \in Conn |-> "none"] /\ ClientSeen = [c \in Conn |-> [open |-> FALSE, owed |-> 0]]
    BY DEF Init, Link, LinkAt, ClientSeen
  <2> QED BY <2>1, <2>2, OutsideIs
<1>2. IInv /\ [Next]_vars => [Outside!Next]_Outside!vars
  <2> SUFFICES ASSUME IInv, [Next]_vars PROVE Outside!Next \/ UNCHANGED Outside!vars
    OBVIOUS
  <2>1. Stutters => UNCHANGED Outside!vars
    BY DEF Stutters, Outside!vars, Up, StopSeen, Link, LinkAt, ClientSeen
  <2> QED BY <2>1, StepsOutside DEF OutsideStep
<1> QED BY <1>1, <1>2, IInvAlways, PTL DEF Spec, ImplementsConnectionService, Outside!Spec
=============================================================================
