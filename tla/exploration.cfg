SPECIFICATION Spec
CONSTANTS
  Pages <- MCPages
  Looks <- MCLooks
  Samples = 2
  MaxChecks = 3
  MaxSteps = 7
  MaxScores = 1
  Refreshes = TRUE
  MaxDrift = 2
INVARIANTS
  TypeOK
  TrajectoryIsComplete
  ChecksCapped
PROPERTIES
  NeverReplayed
CHECK_DEADLOCK FALSE
