\* --minvarHole on a sketch with one hole, whose value is the control.
SPECIFICATION Spec
CONSTANTS
  Problems = 1
  Controls = {0, 1, 2}
  i1 = i1
  i2 = i2
  i3 = i3
  Inputs = {i1, i2}
  Width <- MCWidth
  NINPUTS = 3
  InitSize = 2
  IterLimit = 0
  FileProblems = {}
  AssumeProblems = {}
  LightVerif = FALSE
  MinVarHole = TRUE
INVARIANTS OptimalClaim
CHECK_DEADLOCK FALSE
