SPECIFICATION FairSpec
CONSTANTS
  p1 = p1
  validator = validator
  reviewer = reviewer
  publisher = publisher
  user = user
  arena = arena
  controller = controller
  None = None
  Proposals <- TheProposal
  Validators <- TheValidator
  Reviewers <- TheReviewer
  Publishers <- ThePublisher
  Clients <- TheClients
  Trusted <- TheArena
  Controllers <- TheController
INVARIANTS
  TypeOK
  RegisteredWasApproved
  EnabledIsRegistered
  LeaseExcludesOrdinary
PROPERTIES
  AdmissionServes
