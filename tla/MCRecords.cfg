SPECIFICATION RecordsSpec
CONSTANTS
  Scenes = {"tables", "bills"}
  Tables = {t1, t2}
  Sessions = {i1, i2, i3}
  Keys = {k1}
  MaxGuests = 2
  NoSession = NoSession
  NoKey = NoKey
  NoTable = NoTable
  Orders = {o1}
  Payments = {p1}
  PayKeys = {}
  MaxTotal = 7
  Items = {1, 2}
  ItemRate <- Rates
  TaxInside = {1}
  Prices = {2, 3}
  Discounts <- SomeDiscounts
  MaxQty = 2
  RepeatRefunds = FALSE
  LaterDiscounts = FALSE
  NoOrder = NoOrder
  NoPayKey = NoPayKey
SYMMETRY Symmetric
CHECK_DEADLOCK FALSE
INVARIANTS
  OneOpenSessionPerTable
  KeyOpensOnce
  LedgerBalanced
  NeverOverpaid
  BillAddsUp
  AllocationExact
PROPERTIES
  ImplementsLock
  CancellingNeverRaises
  PricedBillsKeepLedger
