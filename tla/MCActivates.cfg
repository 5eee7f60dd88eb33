SPECIFICATION FairSubSpec
CONSTANTS
  Payments = {p1}
  Calls = {c1, c2}
  Newborn = FALSE
  Prompt = TRUE
  Patient = TRUE
  Faults = FALSE
  MaxMishaps = 2
  MaxLog = 1
  MaxTime = 1
  TrialLength = 2
  Period = 3
  NoEvent = NoEvent
  NoPayment = NoPayment
  Ops = {"trial"}
  Kinds = {"order.paid","payment.captured", "subscription.charged", "subscription.cancelled", "other"}
PROPERTIES
  PaidIsActivated
  TrialOnlyOnce
CHECK_DEADLOCK FALSE
