CONSTANTS
  h1 = h1
  h2 = h2
  f1 = f1
  s1 = s1
  v1 = v1
  Families = {f1}
  Assessed = {f1}
  Rows = {1, 2}
  Sittings = {s1}
  Visits = {v1}
  Ending = {}
  Capacity = 2
  Handlers = {h1, h2}
  Calls = {"book", "cancel", "checkIn", "noShow", "defer", "resume", "withdraw", "skip", "launch", "walkIn", "handIn", "abandon"}
  Alone = {"book", "abandon", "skip", "defer", "withdraw"}
  LaunchFirst = TRUE
  MaxLaunches = 2
  MaxCrashes = 0
SPECIFICATION Spec
SYMMETRY HandlerSymmetry
CHECK_DEADLOCK FALSE
INVARIANT TypeOK
INVARIANT HandedInIsMarked
INVARIANT DecidedOnPaper
INVARIANT NeverBothEnds
INVARIANT AtKeyboard
