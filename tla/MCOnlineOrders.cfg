SPECIFICATION ScenesFairSpec
CONSTANTS
  d1 = d1
  d2 = d2
  Scenes = {"served", "watched", "kitchen", "counter"}
  Desks = {d1, d2}
  Chores = {c1, c2}
  Adjusts = {a1}
  Portions = 2
  Cook = "kitchen"
  Slips = {k1, k2}
  Duties <- OneDeskEach
  CollectAt <- AfterAcceptance
  LateFirst = FALSE
  CrashAt <- CrashAfterwards
CHECK_DEADLOCK FALSE
INVARIANTS
  OnlineTypeOK
  OneSlipPerOrder
  CompletedIsFinished
PROPERTIES
  GuestSeesProgress
  GuestLearnsTheEnd
