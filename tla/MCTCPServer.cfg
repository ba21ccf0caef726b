CONSTANTS
  c1 = c1
  c2 = c2
  Conn = {c1, c2}
  main = main
  other = other
  Admin = {main, other}
  Script <- MainAndStarter
  AnyPort = FALSE
  AcceptErrors = TRUE
  MaxListeners = 4
  MaxRequests <- Requests
SPECIFICATION FairSpec
INVARIANTS TypeOK NoListenerLeaks NoCommandMeetsStoppedNode
PROPERTIES EveryRequestAnswered StopReturnsOnceClientsLeave ImplementsConnectionService
CHECK_DEADLOCK FALSE
