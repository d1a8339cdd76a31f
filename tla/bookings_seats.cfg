CONSTANTS
  h1 = h1
  h2 = h2
  f1 = f1
  f2 = f2
  s1 = s1
  v1 = v1
  Families = {f1, f2}
  Assessed = {f1, f2}
  Rows = {1, 2, 3}
  Sittings = {s1}
  Visits = {}
  Ending = {s1}
  Capacity = 1
  Handlers = {h1, h2}
  Calls = {"book", "move", "cancel", "checkIn", "noShow"}
  Alone = {"move", "noShow"}
  LaunchFirst = TRUE
  MaxLaunches = 0
  MaxCrashes = 1
SPECIFICATION Spec
SYMMETRY FamilySymmetry
CHECK_DEADLOCK FALSE
INVARIANT NeverOverfull
INVARIANT BookedIsRecorded
