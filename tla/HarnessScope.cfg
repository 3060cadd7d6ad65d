SPECIFICATION Spec
CONSTANTS
  Files = {"src", "tests", "other"}
  Versions = {0, 1}
  Allowed <- MCAllowed
  MayBeLarge = {"other"}
  SuiteWrites = {"tests"}
  Starts <- MCStarts
  Good <- MCGood
  BuildSessions = 2
  MaxResults = 3
  NoContent = nocontent
CHECK_DEADLOCK FALSE
INVARIANTS TypeOK ScopeKept PassesStands CacheIsTrue
