\* Every option at once but light verification: three harnesses, the first over a
\* file, the second with an assume, minimization, and -terminateafter 3.
SPECIFICATION FairSpec
CONSTANTS
  Problems = 3
  Controls = {c1, c2, c3}
  i1 = i1
  i2 = i2
  i3 = i3
  Inputs = {i2}
  Width <- MCWidth
  NINPUTS = 3
  InitSize = 2
  IterLimit = 3
  FileProblems = {0}
  AssumeProblems = {1}
  LightVerif = FALSE
  MinVarHole = TRUE
INVARIANTS AnswerCorrect FailureJustified InputStoreMatches OriginalIsLive StackTracksCurrent
PROPERTY SolveEnds
CHECK_DEADLOCK FALSE
