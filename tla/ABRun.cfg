SPECIFICATION FairSpec
CONSTANTS
  Arms = {bare, harness}
  Thread = thread
  Nobody = nobody
  Unremovable = {"baseline", "preview"}
CHECK_DEADLOCK FALSE
INVARIANTS TypeOK SameBaseline VerdictKeepsPrimary NoContainerOutlivesRun
PROPERTY RunEnds
