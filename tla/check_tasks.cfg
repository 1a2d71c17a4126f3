SPECIFICATION Spec
CONSTANTS
  popup = popup
  second = second
  NoTask = NoTask
  Inputs <- TwoInputs
  Quota <- Quotas
  Limit <- Limits
  ProbeCost = 2
  MaxFaults = 1
INVARIANTS
  TypeOK
  BudgetHonoured
  AbortedNeverPasses
  CleanRunsVerify
  LostEventsQuarantine
PROPERTIES
  SettledAtCommit
\* When the parent has committed and its tool has returned, nothing is left to do.
CHECK_DEADLOCK FALSE
