SPECIFICATION Spec
CONSTANTS
  Bots = {b1}
  Requests = {}
  Ticks = {t1}
  Workers = {w1, w2}
  Urls = {u1, u2}
  Nobody = Nobody
  NoUrl = NoUrl
  HappyAttempts = 2
  ProbeAttempts = 1
  Threshold = 1
  PageSize = 1
  MaxStalls = 1
  MaxFaults = 1
  MaxEvictions = 0
INVARIANTS TypeOK RegisteredMeansAccepted AtMostOneIncrementPerJob QuarantineUnreachable
PROPERTIES OnlyRegistrarLeavesRegistered FreshRegistrationUndisturbed
CHECK_DEADLOCK FALSE
