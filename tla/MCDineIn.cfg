SPECIFICATION DineSpec
CONSTANTS
  Tables = {t1}
  Sessions = {s1}
  Keys = {}
  MaxGuests = 1
  NoSession = NoSession
  NoKey = NoKey
  NoTable = NoTable
  Orders = {o1, o2}
  Payments = {p1, p2}
  PayKeys = {}
  MaxTotal = 2
  RepeatRefunds = FALSE
  LaterDiscounts = FALSE
  NoOrder = NoOrder
  NoPayKey = NoPayKey
  Kots = {k1, k2}
  Calls = {c1, c2}
  PosKeys = {}
  Staff = {"kitchen", "cashier"}
  Ops = {"submit", "tap", "dropKot", "partial", "complete", "pay"}
  Quiet = TRUE
  OnePartial = TRUE
  Crashes = FALSE
  MaxQty = 2
  Kitchens = {TRUE}
  NoPosKey = NoPosKey
  NoKot = NoKot
SYMMETRY Symmetric
CHECK_DEADLOCK FALSE
INVARIANTS
  DineTypeOK
  TicketsMatchBill
  CompletedIsDone
  OneBillPerSession
PROPERTIES
  TerminalOrderIsFinal
