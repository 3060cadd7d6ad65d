SPECIFICATION FairRunLogSpec
CONSTANTS
  Openers = {a, b}
  TornWrites = TRUE
  MaxLines = 3
  MaxReconnects = 2
CHECK_DEADLOCK FALSE
INVARIANTS RunLogTypeOK StreamHasNoGap
PROPERTIES ImplementsEventStream EveryEventArrives
