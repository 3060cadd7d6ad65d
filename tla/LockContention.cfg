SPECIFICATION MCSpec
CONSTANTS
  Processes = {a, b, c}
  OldFile = old
  NoFile = nofile
  LeftOver = {"none", "pid"}
  MayDie = TRUE
CHECK_DEADLOCK FALSE
INVARIANT TypeOK
PROPERTIES PidLockNeverDropped PairImplementsOneWriter SomebodyOpens
