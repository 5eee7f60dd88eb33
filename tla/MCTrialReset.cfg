SPECIFICATION SubSpec
CONSTANTS
  Payments = {p1}
  Calls = {c1, c2}
  Newborn = FALSE
  Prompt = TRUE
  Patient = FALSE
  Faults = TRUE
  MaxMishaps = 1
  MaxLog = 1
  MaxTime = 1
  TrialLength = 2
  Period = 3
  NoEvent = NoEvent
  NoPayment = NoPayment
  Kinds = {"payment.captured"}
  Ops = {}
SYMMETRY Interchangeable
PROPERTIES
  TrialOnlyOnce
CHECK_DEADLOCK FALSE
