SPECIFICATION RequestsSpec
CONSTANTS
  Scenes = {"checkout"}
  Checkouts = {k1}
  Requests = {r1, r2, r3}
  OrderIds = {o1, o2, o3}
  SlowServer = TRUE
  LostCommits = FALSE
  NoCheckout = NoCheckout
  NoOrderId = NoOrderId
  Tabs = {t1}
  Items = {i1, i2}
  Payments = {i1}
  Digital = {}
  Seatings = {}
  Leased = {i2}
  MaxRetries = 2
  QueueLimit = 2
  MaxPresses = 1
  TabsClose = TRUE
  NoItem = NoItem
CHECK_DEADLOCK FALSE
INVARIANT
  OneOrderPerKey
