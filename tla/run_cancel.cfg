SPECIFICATION Spec
CONSTANTS
  r1 = r1
  r2 = r2
  c1 = c1
  c2 = c2
  Runs <- OneRun
  Cancels <- TwoCancels
  Target <- FirstRun
  MaxTools <- FirstRunTools
  MaxUpsets = 2
  MaxAcks = 0
SYMMETRY CancelSymmetry
INVARIANTS
  TypeOK
  AcceptedCancelHonoured
  ConcludedOnce
  CancelRecordOrdered
  VerifiedHistory
PROPERTIES
  ImplementsOutcome
  NoLaunchAfterCancel
\* When every run is over and every request answered, nothing is left to do.
CHECK_DEADLOCK FALSE
