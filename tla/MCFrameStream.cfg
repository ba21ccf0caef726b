CONSTANTS
  Base = 8
  LenBytes = 2
  MaxKeyLength = 1
  MaxValueLength = 2
  Request <- MCRequest
  Raw <- MCRaw
  Answer <- MCAnswer
  Message <- MCMessage
  MaxCommands = 3
SPECIFICATION FairSpec
INVARIANTS TypeOK NoByteLostOrInvented ParsersAgree ResponseParsersAgree AnswersAreOwn
PROPERTY CommandsReturn
CHECK_DEADLOCK FALSE
