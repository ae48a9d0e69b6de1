SPECIFICATION Spec
CONSTANTS
  Chat = {p1, p2, p3}
  Scheduled = {s1, s2}
  Key = {k1}
  NoKey = NoKey
  Ticker = {t1, t2, t3}
  MaxTickers = 2
  MaxDeaths = 1
SYMMETRY Interchangeable
INVARIANTS
  TypeOK
  RetryNotRunAgain
  RepliesTruthful
  OneActiveObjective
  MarkersTruthful
PROPERTIES
  ImplementsObjectives
