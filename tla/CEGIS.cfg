\* Two harnesses, three sizes, no limits: the plain loop.
SPECIFICATION FairSpec
CONSTANTS
  Problems = 2
  Controls = {c1, c2, c3}
  i1 = i1
  i2 = i2
  i3 = i3
  Inputs = {i1, i2}
  Width <- MCWidth
  NINPUTS = 3
  InitSize = 2
  IterLimit = 0
  FileProblems = {}
  AssumeProblems = {}
  LightVerif = FALSE
  MinVarHole = FALSE
INVARIANTS TypeOK AnswerCorrect FailureJustified InputStoreMatches OriginalIsLive StackTracksCurrent NewCounterexample
PROPERTIES Implements SolveEnds
CHECK_DEADLOCK FALSE
