SPECIFICATION RunLogSpec
CONSTANTS
  Openers = {a, b}
  TornWrites = TRUE
  MaxLines = 2
  MaxReconnects = 0
CHECK_DEADLOCK FALSE
INVARIANT PublishedIsReadable
