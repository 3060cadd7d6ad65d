SPECIFICATION Spec
CONSTANTS
  Commands = {c1, c2, c3}
  NoFile = NoFile
CHECK_DEADLOCK FALSE
INVARIANTS JudgedWithWholeBaseline
