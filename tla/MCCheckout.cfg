SPECIFICATION MCSpec
CONSTANTS
  tab1 = tab1
  tab2 = tab2
  press = press
  pro = pro
  press2027 = press2027
  None = None
  Tabs = {tab1, tab2}
  MaxAttempts = 2
  Early = {press, pro}
  Standard = {pro}
  Life = 2
  MinLife = 1
  MaxFaults = 1
INVARIANTS
  OneSubscription
  PaidIsOnRecord
PROPERTIES
  AttemptsEnd
  DirectPurchasesHold
