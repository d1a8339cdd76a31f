CONSTANTS
  h1 = h1
  h2 = h2
  q1 = q1
  q2 = q2
  s1 = s1
  s2 = s2
  Answers = {q1, q2}
  Sends = {s1, s2}
  TidyAlone = TRUE
  Handlers = {h1, h2}
  MaxClicks = 2
  MaxCrashes = 1
  MaxTroubles = 2
SPECIFICATION Spec
CHECK_DEADLOCK FALSE
INVARIANT TypeOK
 
 
PROPERTY PersonStands
SYMMETRY HandlerSymmetry
CONSTRAINT Few
