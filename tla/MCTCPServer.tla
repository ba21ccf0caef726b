---------------------------- MODULE MCTCPServer ----------------------------
(***************************************************************************)
(* TCPServer with the callers of the program.                              *)
(***************************************************************************)
EXTENDS TCPServer

CONSTANTS main, other, c1, c2

\* The server's main, and a second goroutine that starts the server too.
MainAndStarter ==
  [a \in Admin |-> IF a = main THEN <<"start", "stop", "stop-nodes">> ELSE <<"start">>]

MainAlone == [a \in Admin |-> <<"start", "stop", "stop-nodes">>]

\* One client sends two requests in a row, the other only connects.
Requests == [c \in Conn |-> IF c = c1 THEN 2 ELSE 0]
=============================================================================
