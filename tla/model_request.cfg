SPECIFICATION FairSpec
CONSTANTS
  t1 = t1
  t2 = t2
  t3 = t3
  Tools <- ThreeTools
  ToolLimit = 2
  Retries = 1
  MaxCalls = 2
  MaxFinalizing = 1
  MaxPrograms = 1
INVARIANTS
  TypeOK
  ResultCoversActs
PROPERTIES
  DecisionEnds
  QueuedToolSettles
  ImplementsDecision
\* When the loop is over and every call settled, nothing is left to do.
CHECK_DEADLOCK FALSE
