SPECIFICATION Spec
CONSTANTS
  laptop = laptop
  phone = phone
  p1 = p1
  p2 = p2
  home = home
  work = work
  None = None
  Devices = {laptop, phone}
  Passwords = {p1, p2}
  Addresses = {home, work}
  Home = home
  MaxRequests = 5
SYMMETRY MCSymmetry
INVARIANTS
  SessionKnowsPassword
  StripeAheadWithLink
PROPERTIES
  SignedOutForGood
CHECK_DEADLOCK FALSE
