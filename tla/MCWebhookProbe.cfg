SPECIFICATION Spec
CONSTANTS
  Bots = {b1}
  Requests = {}
  Ticks = {t1}
  Workers = {w1}
  Urls = {u1}
  Nobody = Nobody
  NoUrl = NoUrl
  HappyAttempts = 2
  ProbeAttempts = 1
  Threshold = 1
  PageSize = 1
  MaxStalls = 1
  MaxFaults = 0
  MaxEvictions = 0
PROPERTIES ProbeEnqueues
CHECK_DEADLOCK FALSE
