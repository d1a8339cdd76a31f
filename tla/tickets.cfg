CONSTANTS
  h1 = h1
  h2 = h2
  o1 = o1
  o2 = o2
  n1 = n1
  n2 = n2
  Orders = {o1, o2}
  Stalls = {o2}
  Names = {n1, n2}
  Holders <- MCHolders
  Capacity = 2
  StallCapacity = 1
  Handlers = {h1, h2}
  MaxCrashes = 1
SPECIFICATION Spec
CHECK_DEADLOCK FALSE
INVARIANT TypeOK
INVARIANT NeverOversold
INVARIANT NumbersNeverShared
INVARIANT RowsAgree
INVARIANT TakenIsSought
SYMMETRY HandlerSymmetry
CONSTRAINT OneTrouble
