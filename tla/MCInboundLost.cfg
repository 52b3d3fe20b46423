SPECIFICATION Spec
CONSTANTS
  c1 = c1
  c2 = c2
  u1 = u1
  Channels = {c1}
  Contacts = {u1}
  Messages <- OneThread
  Convs = {d1, d2}
  NoConv = NoConv
  Handlers = {h1}
  Timeout = 1
  Quota = 1
  MaxTime = 0
  MaxFaults = 1
  MaxChanges = 0
INVARIANTS NoMessageLost
CHECK_DEADLOCK FALSE
