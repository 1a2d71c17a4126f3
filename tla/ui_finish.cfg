SPECIFICATION FairSpec
CONSTANTS
  check = check
  gap = gap
  document = document
  popup = popup
  childRead = childRead
  Checks <- TheChecks
  Extras <- TheExtras
  MaxFaults = 1
  Documents <- TheDocument
  Reads <- NoReads
  Popups <- ThePopup
  ChildReads <- TheChild
  MaxRequests = 1
  MaxEvents = 2
  GapItems <- TheGap
  MaxLedger = 3
INVARIANTS
  TypeOK
  SharedCapHolds
  SealedLogFinal
  CoveredIsUnintervened
  HonestFinishVerifies
PROPERTIES
  SealAnswered
\* When the scan has ended nothing is left to do.
CHECK_DEADLOCK FALSE
