CONSTANTS
  m1 = m1
  w1 = w1
  w2 = w2
  Moments = {m1}
  Workers = {w1, w2}
  Limit = 2
  MaxAttempts = 2
  MaxCrashes = 1
  MaxRetries = 1
  MaxMoves = 1
SPECIFICATION Spec
SYMMETRY WorkerSymmetry
INVARIANT TypeOK
INVARIANT MessagedOnce
