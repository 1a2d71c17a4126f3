SPECIFICATION FairSpec
CONSTANTS
  popup = popup
  second = second
  NoTask = NoTask
  Inputs <- TwoInputs
  Quota <- NoQuotas
  Limit <- NoLimits
  ProbeCost = 1
  MaxFaults = 1
PROPERTIES
  ParentCloses
  SubmitAnswered
\* When the parent has committed and its tool has returned, nothing is left to do.
CHECK_DEADLOCK FALSE
