SPECIFICATION FairSpec
CONSTANTS
  Worker = {w1, w2}
  NoWorker = NoWorker
  Orphan = Orphan
  TeamStages = 1
  Gated = TRUE
  VerifierRejects = FALSE
  MaxAutoRetries = 2
  MaxRequests = 1
  MaxErrors = 0
  MaxDeaths = 0
CHECK_DEADLOCK FALSE
PROPERTY OneRerunPerFailure
