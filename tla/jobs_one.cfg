CONSTANTS
  m1 = m1
  w1 = w1
  w2 = w2
  Moments = {m1}
  Workers = {w1, w2}
  Limit = 2
  MaxAttempts = 2
  MaxCrashes = 2
  MaxRetries = 1
  MaxMoves = 0
SPECIFICATION FairSpec
INVARIANT OneRunner
INVARIANT DoneIsDelivered
PROPERTY KeepsOutbox
PROPERTY EveryJobEnds
