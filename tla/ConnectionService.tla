-------------------------- MODULE ConnectionService --------------------------
(***************************************************************************)
(* What a client may rely on of pkg/server: while the server is up it can  *)
(* be dialled; a connection is accepted, requests on it are answered, and  *)
(* its handler ends once the client has closed it or the server is being   *)
(* stopped; and Stop returns only when no handler is left.  Listeners,     *)
(* locks, the WaitGroup and the parts of a request do not appear here:     *)
(* TCPServer implements this module, and TestClient builds on it.          *)
(***************************************************************************)
EXTENDS Naturals

CONSTANT Conn

VARIABLES up,     \* the server listens
          stop,   \* "no" one has called Stop; its caller is "waiting"; it has "returned"
          link,   \* link[c]: the server's end of connection c
          client  \* client[c]: is the client's end open, and how many requests of it have
                  \* arrived whole and are not answered

vars == <<up, stop, link, client>>

Init == /\ up = FALSE
        /\ stop = "no"
        /\ link = [c \in Conn |-> "none"]
        /\ client = [c \in Conn |-> [open |-> FALSE, owed |-> 0]]

Start == /\ up' = TRUE
         /\ UNCHANGED <<stop, link, client>>

\* Connections that wait to be accepted are reset.
Stop == /\ stop' = "waiting"
        /\ up' = FALSE
        /\ link' = [c \in Conn |-> IF link[c] = "backlog" THEN "gone" ELSE link[c]]
        /\ UNCHANGED client

StopReturns == /\ stop = "waiting"
               /\ \A c \in Conn : link[c] # "served"
               /\ stop' = "returned"
               /\ UNCHANGED <<up, link, client>>

\* A name may be used again for a new connection.
Dial(c) == /\ up
           /\ link[c] \in {"none", "gone"} /\ ~client[c].open
           /\ link' = [link EXCEPT ![c] = "backlog"]
           /\ client' = [client EXCEPT ![c] = [open |-> TRUE, owed |-> 0]]
           /\ UNCHANGED <<up, stop>>

Send(c) == /\ client[c].open
           /\ client' = [client EXCEPT ![c].owed = @ + 1]
           /\ UNCHANGED <<up, stop, link>>

Close(c) == /\ client[c].open
            /\ client' = [client EXCEPT ![c].open = FALSE]
            /\ UNCHANGED <<up, stop, link>>

Accept(c) == /\ link[c] = "backlog"
             /\ link' = [link EXCEPT ![c] = "served"]
             /\ UNCHANGED <<up, stop, client>>

\* The response cannot be written to a client that has closed: then the handler may end.
Answer(c) == /\ link[c] = "served"
             /\ client[c].owed > 0
             /\ client' = [client EXCEPT ![c].owed = @ - 1]
             /\ \/ UNCHANGED link
                \/ ~client[c].open /\ link' = [link EXCEPT ![c] = "gone"]
             /\ UNCHANGED <<up, stop>>

End(c) == /\ link[c] = "served"
          /\ ~client[c].open \/ stop # "no"
          /\ link' = [link EXCEPT ![c] = "gone"]
          /\ UNCHANGED <<up, stop, client>>

Next == \/ Start \/ Stop \/ StopReturns
        \/ \E c \in Conn : \/ Dial(c) \/ Send(c) \/ Close(c)
                           \/ Accept(c) \/ Answer(c) \/ End(c)

Spec == Init /\ [][Next]_vars
=============================================================================
