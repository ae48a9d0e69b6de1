SPECIFICATION Spec
CONSTANTS
  Worker = {w1, w2}
  NoWorker = NoWorker
  Orphan = Orphan
  TeamStages = 1
  Gated = TRUE
  VerifierRejects = FALSE
  MaxAutoRetries = 1
  MaxRequests = 2
  MaxErrors = 1
  MaxDeaths = 0
CHECK_DEADLOCK FALSE
SYMMETRY Interchangeable
INVARIANT
  CeoAfterConsent
PROPERTY
  ImplementsDelivery
