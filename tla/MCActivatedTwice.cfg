SPECIFICATION SubSpec
CONSTANTS
  Payments = {p1}
  Calls = {c1, c2}
  Newborn = FALSE
  Prompt = TRUE
  Patient = FALSE
  Faults = FALSE
  MaxMishaps = 0
  MaxLog = 1
  MaxTime = 1
  TrialLength = 2
  Period = 3
  NoEvent = NoEvent
  NoPayment = NoPayment
  Kinds = {"order.paid", "payment.captured"}
  Ops = {"verify"}
SYMMETRY Interchangeable
INVARIANTS
  ActivatedOnce
CHECK_DEADLOCK FALSE
