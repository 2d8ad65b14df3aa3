SPECIFICATION Spec
CONSTANTS
  c1 = c1
  m1 = m1
  w1 = w1
  w2 = w2
  None = None
  Customers = {c1}
  Emails = {m1}
  EmailOf <- MCEmailOf
  SignedIn = {}
  MaxInvoice = 2
  Handlers = {w1}
  Repairers = {w2}
  MaxVer = 2
  MaxChanges = 7
  MaxFaults = 1
INVARIANTS
  AckedIsMirrored
  NoLostActivation
  AccessIsSound
PROPERTIES
  MirrorSpec
CHECK_DEADLOCK FALSE
