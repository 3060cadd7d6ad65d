\* One build of an arm and its checkpoint, with up to two faults.
CONSTANTS
  Endpoints <- MCEndpoints
  Allowed <- MCAllowed
  Artifacts = {"progress"}
  TestPaths = {"tests"}
  Existing = {"old1"}
  Hidden = {"h1", "h2"}
  Exempt <- MCExempt
  Builds <- MCBuilds
  Measures <- MCMeasures
  Mutants = {"m1"}
  Early = {TRUE, FALSE}
SPECIFICATION Spec
INVARIANTS
  OrderNeverChangesScore
  RulesJudgedRight
CHECK_DEADLOCK FALSE
