SPECIFICATION Spec
CONSTANTS
  r1 = r1
  r2 = r2
  c1 = c1
  c2 = c2
  Runs <- OneRun
  Cancels <- OneCancel
  Target <- FirstRun
  MaxTools <- FirstRunTools
  MaxUpsets = 0
  MaxAcks = 0
INVARIANTS
  CancelFirstEndsCancelled
\* When every run is over and every request answered, nothing is left to do.
CHECK_DEADLOCK FALSE
