SPECIFICATION MCSpec
CONSTANTS
  s1 = s1
  s2 = s2
  c1 = c1
  m1 = m1
  w1 = w1
  w2 = w2
  None = None
  Senders = {s1, s2}
  LeaseTime = 2
  SendTime = 1
  LinkTime = 3
  MaxResends = 2
  MaxFaults = 2
INVARIANTS
  DuplicatesHaveACause
PROPERTIES
  LinksKeepWorking
  EmailArrives
  WebhooksFinish
  RepairCatchesUp
CHECK_DEADLOCK FALSE
