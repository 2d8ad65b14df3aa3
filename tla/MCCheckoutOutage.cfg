SPECIFICATION OutageSpec
CONSTANTS
  None = None
  Tabs = {tab1}
  MaxAttempts = 2
  Early = {press, pro}
  Standard = {press, pro}
  Life = 2
  MinLife = 1
  MaxFaults = 1
PROPERTY PaidAttemptEnds
