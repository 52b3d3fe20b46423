SPECIFICATION FairSpec
CONSTANTS
  Bots = {b1, b2}
  Requests = {r1}
  Ticks = {t1}
  Workers = {}
  Urls = {u1}
  Nobody = Nobody
  NoUrl = NoUrl
  HappyAttempts = 2
  ProbeAttempts = 1
  Threshold = 1
  PageSize = 2
  MaxStalls = 1
  MaxFaults = 1
  MaxEvictions = 0
PROPERTIES EveryHireIsPickedUp
CHECK_DEADLOCK FALSE
