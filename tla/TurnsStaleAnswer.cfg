SPECIFICATION Spec
CONSTANTS
  Chat = {p1, p2}
  Scheduled = {}
  Key = {k1}
  NoKey = NoKey
  Ticker = {t1}
  MaxTickers = 1
  MaxDeaths = 1
PROPERTIES
  CurrentAnswerOnly
