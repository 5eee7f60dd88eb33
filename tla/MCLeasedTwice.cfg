SPECIFICATION OQSpec
CONSTANTS
  Tabs = {t1}
  Items = {i1}
  Payments = {}
  Digital = {}
  Seatings = {}
  Leased = {i1}
  MaxRetries = 2
  QueueLimit = 2
  MaxPresses = 1
  TabsClose = TRUE
  NoItem = NoItem
CHECK_DEADLOCK FALSE
INVARIANT
  LeasedActsOnce
