CONSTANTS
  h1 = h1
  h2 = h2
  q1 = q1
  q2 = q2
  s1 = s1
  s2 = s2
  Answers = {q1, q2}
  Sends = {s1, s2}
  TidyAlone = TRUE
  Handlers = {h1, h2}
  MaxClicks = 2
  MaxCrashes = 0
  MaxTroubles = 2
SPECIFICATION Spec
CHECK_DEADLOCK FALSE
INVARIANT LastMarkCompletes
SYMMETRY HandlerSymmetry
CONSTRAINT Few
