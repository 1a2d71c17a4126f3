SPECIFICATION StreamSpec
CONSTANTS
  r1 = r1
  c1 = c1
  Runs <- OneRun
  Cancels <- OneCancel
  Target <- OnlyRun
  MaxTools <- OneTool
  MaxUpsets = 0
  MaxAcks = 0
INVARIANTS
  StreamLosesNothing
\* When the run is over, its stream ended and the request answered, nothing is left.
CHECK_DEADLOCK FALSE
