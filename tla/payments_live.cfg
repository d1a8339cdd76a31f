CONSTANTS
  p1 = p1
  h1 = h1
  h2 = h2
  Payments = {p1}
  Handlers = {h1, h2}
  Amount = 2
  SettleAttempts = 3
  MaxCrashes = 0
  Refunds = "settled"
  Withdrawals = TRUE
  StageMoves = TRUE
  DayEnds = TRUE
SPECIFICATION FairSpec
INVARIANT TypeOK
INVARIANT SettlesOnce
INVARIANT EveryReceiptFiled
PROPERTY TakenIsFiled
