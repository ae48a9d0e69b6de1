SPECIFICATION FairSpec
CONSTANTS
  WorkStages = 2
  Request = {r1}
  ReplanAt = 2
  EscalateAt = 3
  MaxDeaths = 1
INVARIANTS
  TypeOK
  CompletedByOwner
  StagesBacked
  AttemptBudget
PROPERTIES
  ReachedMissionIsHeard
