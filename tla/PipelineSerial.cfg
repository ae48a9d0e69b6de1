SPECIFICATION FairSpec
CONSTANTS
  Worker = {w1}
  NoWorker = NoWorker
  Orphan = Orphan
  TeamStages = 2
  Gated = TRUE
  VerifierRejects = TRUE
  MaxAutoRetries = 2
  MaxRequests = 3
  MaxErrors = 0
  MaxDeaths = 1
CHECK_DEADLOCK FALSE
INVARIANTS
  TypeOK
  ApprovedStageNotRedone
  RetryBudgetHolds
  CompletedMeansCeo
PROPERTIES
  OneRerunPerFailure
  ApprovedMissionReports
  RetriesEndUnlessEscalated
