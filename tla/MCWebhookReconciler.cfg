SPECIFICATION FairSpec
CONSTANTS
  Bots = {b1}
  Requests = {}
  Ticks = {t1, t2}
  Workers = {w1}
  Urls = {u1}
  Nobody = Nobody
  NoUrl = NoUrl
  HappyAttempts = 2
  ProbeAttempts = 1
  Threshold = 1
  PageSize = 1
  MaxStalls = 1
  MaxFaults = 1
  MaxEvictions = 1
PROPERTIES StuckIsReset
CHECK_DEADLOCK FALSE
