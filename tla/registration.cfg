CONSTANTS
  h1 = h1
  h2 = h2
  c1 = c1
  c2 = c2
  Codes = {c1, c2}
  Required = {c1}
  Handlers = {h1, h2}
  Calls = {"save", "upload", "review", "read", "submit", "enrol"}
  Alone = {"read"}
  MaxDocs = 2
  MaxUploads = 2
  MaxClicks = 3
  MaxTroubles = 3
  MaxMoves = 1
  MaxCrashes = 1
SPECIFICATION Spec
CHECK_DEADLOCK FALSE
INVARIANT TypeOK
INVARIANT DocumentStands
INVARIANT EnrolledOnRegister
INVARIANT FlagsHaveTask
SYMMETRY HandlerSymmetry
CONSTRAINT Few
