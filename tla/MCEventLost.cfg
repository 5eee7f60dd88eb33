SPECIFICATION FairSubSpec
CONSTANTS
  Payments = {p1}
  Calls = {c1, c2}
  Newborn = FALSE
  Prompt = TRUE
  Patient = FALSE
  Faults = FALSE
  MaxMishaps = 1
  MaxLog = 1
  MaxTime = 1
  TrialLength = 2
  Period = 3
  NoEvent = NoEvent
  NoPayment = NoPayment
  Kinds = {"payment.captured"}
  Ops = {}
PROPERTIES
  PaidIsActivated
CHECK_DEADLOCK FALSE
