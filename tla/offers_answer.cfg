CONSTANTS
  h1 = h1
  h2 = h2
  Letters = {1, 2}
  Handlers = {h1, h2}
  Calls = {"draft", "approve", "expire", "accept", "decline", "withdraw", "moveOn", "draftOn", "toDecision", "toOffer"}
  Alone = {"draft", "draftOn", "toOffer"}
  MaxCrashes = 1
SPECIFICATION Spec
SYMMETRY HandlerSymmetry
CHECK_DEADLOCK FALSE
INVARIANT TypeOK
INVARIANT AnsweredOnce
INVARIANT PaymentIsBilled
INVARIANT BilledWhileOwed
