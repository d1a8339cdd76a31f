CONSTANTS
  p1 = p1
  p2 = p2
  h1 = h1
  h2 = h2
  Payments = {p1, p2}
  Handlers = {h1, h2}
  Amount = 2
  SettleAttempts = 3
  MaxCrashes = 1
  Refunds = "never"
  Withdrawals = TRUE
  StageMoves = FALSE
  DayEnds = FALSE
SPECIFICATION Spec
SYMMETRY Symmetry
INVARIANT ConfirmedOnce
INVARIANT RegistrationIsPaid
INVARIANT LedgerNotOverstated
PROPERTY KeepsPromise
