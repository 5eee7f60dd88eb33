SPECIFICATION DineSpec
CONSTANTS
  Tables = {t1}
  Sessions = {s1}
  Keys = {}
  MaxGuests = 1
  NoSession = NoSession
  NoKey = NoKey
  NoTable = NoTable
  Orders = {o1}
  Payments = {p1}
  PayKeys = {}
  MaxTotal = 1
  RepeatRefunds = FALSE
  LaterDiscounts = FALSE
  NoOrder = NoOrder
  NoPayKey = NoPayKey
  Kots = {k1}
  Calls = {c1, c2}
  PosKeys = {}
  Staff = {"manager"}
  Ops = {"submit", "tap", "pay"}
  Quiet = TRUE
  OnePartial = TRUE
  Crashes = FALSE
  MaxQty = 1
  Kitchens = {TRUE}
  NoPosKey = NoPosKey
  NoKot = NoKot
SYMMETRY Symmetric
CHECK_DEADLOCK FALSE
PROPERTIES
  TerminalOrderIsFinal
