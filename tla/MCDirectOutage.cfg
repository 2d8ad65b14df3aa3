SPECIFICATION OutageSpec
CONSTANTS
  Tabs = {tab1}
  MaxAttempts = 2
  Offers = {press}
  Life = 2
  MinLife = 1
  MaxMishaps = 0
  None = None
PROPERTY PaidIsActivated
CHECK_DEADLOCK FALSE
