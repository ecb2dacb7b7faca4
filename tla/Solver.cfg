SPECIFICATION Spec
CONSTANTS
  Vars = {0, 1, 2, 3, 4, 5}
  Jobs <- MCJobs
  Cutoffs = {1, 2}
  RestartFirst = 1
  MaxRestarts = 1
  LearntLimit <- MCLearntLimit
  MaxPicks = 2
INVARIANT TypeOK
INVARIANT WatchesRight
INVARIANT NothingMissed
INVARIANT AttemptsRight
INVARIANT AnswersRight
INVARIANT NothingLost
PROPERTY Implements
PROPERTY ScriptEnds
