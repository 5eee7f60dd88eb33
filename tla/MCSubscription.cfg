SPECIFICATION SubSpec
CONSTANTS
  Payments = {p1, p2}
  Calls = {c1, c2}
  Newborn = TRUE
  Prompt = TRUE
  Patient = FALSE
  Faults = TRUE
  MaxMishaps = 1
  MaxLog = 1
  MaxTime = 0
  TrialLength = 2
  Period = 3
  NoEvent = NoEvent
  NoPayment = NoPayment
  Kinds = {"payment.captured", "payment.failed", "subscription.charged", "other"}
  Ops = {"trial", "verify"}
SYMMETRY Interchangeable
INVARIANTS
  ActiveIsBought
  OneWorkerPerEvent
PROPERTIES
  EventIsFinal
CHECK_DEADLOCK FALSE
