SPECIFICATION Spec
CONSTANTS
  Vars = {0, 1, 2, 3, 4, 5}
  Jobs <- RevivedJobs
  Cutoffs = {1, 2}
  RestartFirst = 3
  MaxRestarts = 1
  LearntLimit <- MCLearntLimit
  MaxPicks = 2
INVARIANT SatHasModel
