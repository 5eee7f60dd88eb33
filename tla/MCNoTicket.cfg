SPECIFICATION ScenesSpec
CONSTANTS
  d1 = d1
  d2 = d2
  Scenes = {"all"}
  Desks = {d1, d2}
  Chores = {c1, c2}
  Adjusts = {a1}
  Portions = 2
  Cook = "kitchen"
  Slips = {k1}
  Duties <- OneDeskEach
  CollectAt <- AfterAcceptance
  LateFirst = FALSE
  CrashAt <- CrashAnywhere
CHECK_DEADLOCK FALSE
INVARIANT AcceptedHasSlip
