\* Up to three proposed tests, two at a time in an A/B, two evaluated in testgen.
CONSTANTS
  Old <- MCOld
  Existing <- MCExisting
  Workspaces <- MCWorkspaces
  Edits <- MCEdits
  Mutants <- MCMutants
  MaxTests = 2
  Caps <- MCCaps
  Cpus = 2
SPECIFICATION Spec
INVARIANTS
  KeptTestsEarned
  CountedOnce
  SuiteAfterLayer
CHECK_DEADLOCK FALSE
