SPECIFICATION Spec
CONSTANTS
  seat1 = seat1
  seat2 = seat2
  account1 = account1
  p1 = p1
  p2 = p2
  unknown = unknown
  None = None
  Accounts = {account1}
  Seats = {seat1, seat2}
  AccountOf <- MCAccountOf
  Seeded = {p1, p2}
  Ids = {p1, p2, unknown}
  Rates = {0, 2}
  MaxMonth = 3
  ExpiryMonths = 2
  MaxMove = 1
  MaxRequests = 1
PROPERTY ExpiredPointsAreNotSpent
