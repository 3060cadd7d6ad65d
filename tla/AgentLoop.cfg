SPECIFICATION ViewSpec
CONSTANTS
  Phases <- MCPhases
  Budgets <- MCBudgets
  HarnessLimit = TRUE
  Responses <- MCResponses
CHECK_DEADLOCK FALSE
INVARIANTS TypeOK DoneMeansChecked StatusMatchesSessions ViewAgrees
PROPERTIES EndedRunStandsStill ImplementsArmRun
