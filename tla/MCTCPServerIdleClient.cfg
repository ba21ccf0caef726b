CONSTANTS
  c1 = c1
  c2 = c2
  Conn = {c1}
  main = main
  other = other
  Admin = {main}
  Script <- MainAlone
  AnyPort = TRUE
  AcceptErrors = FALSE
  MaxListeners = 4
  MaxRequests <- Requests
SPECIFICATION FairSpec
PROPERTY StopAlwaysReturns
CHECK_DEADLOCK FALSE
