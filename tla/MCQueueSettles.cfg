SPECIFICATION OQFairSpec
CONSTANTS
  Tabs = {t1}
  Items = {i1, i2}
  Payments = {i2}
  Digital = {}
  Seatings = {i1}
  Leased = {}
  MaxRetries = 2
  QueueLimit = 2
  MaxPresses = 1
  TabsClose = TRUE
  NoItem = NoItem
CHECK_DEADLOCK FALSE
PROPERTY
  QueuedSettles
