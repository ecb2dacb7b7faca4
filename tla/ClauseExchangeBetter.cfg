SPECIFICATION Spec
CONSTANTS
  Procs = {p, q}
  Vars <- MCVars
  Initial <- MCInitial
  Lessons <- MCLessons
  Solutions <- MCSolutions
  MinHoles <- MCMinHoles
  Modes = {TRUE}
  Blocks = {8, 39}
  MinBuf = 5
  p = p
  q = q
SYMMETRY Symmetry
INVARIANT BetterKept
CHECK_DEADLOCK FALSE
