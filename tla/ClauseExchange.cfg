SPECIFICATION Spec
CONSTANTS
  Procs = {p, q}
  Vars <- MCVars
  Initial <- MCInitial
  Lessons <- MCLessons
  Solutions <- MCSolutions
  MinHoles <- MCMinHoles
  Modes = {TRUE, FALSE}
  Blocks = {8, 39}
  MinBuf = 5
  p = p
  q = q
SYMMETRY Symmetry
INVARIANTS
  TypeOK
  KnowledgeSound
  DoneJustified
  WholeMessages
PROPERTIES
  PublicationsGrow
CHECK_DEADLOCK FALSE
