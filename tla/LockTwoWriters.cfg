SPECIFICATION MCSpec
CONSTANTS
  Processes = {a, b, c}
  OldFile = old
  NoFile = nofile
  LeftOver = {"none", "pid"}
  MayDie = FALSE
CHECK_DEADLOCK FALSE
INVARIANT OneWriterPerRunLog
