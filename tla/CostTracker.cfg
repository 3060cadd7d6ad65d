SPECIFICATION MCSpec
CONSTANTS
  NCommands = 2
  NArms = 2
  Sessions = {"class"}
  SessionOf <- MCSessionOf
  NoSession = "none"
  IsExperiment <- MCIsExperiment
  RunCap = 3
  BatchCap = 4
  SessionCap = 4
  ExperimentCap = 5
  BuildCap = 5
  WorstCases = {1, 2}
  MaxWorst = 2
  ActualCosts = {0, 2}
  EstimatesHold = TRUE
  OpeningAmounts = {1}
  MaxEntries = 3
CHECK_DEADLOCK FALSE
INVARIANTS TypeOK TotalsAgreeWithLedger BuildOvershootBounded HeldIsWhatOpenCallsHold CapsHoldWithinCommand
PROPERTIES BatchCapIsABudget PaidCallNeverRaises
