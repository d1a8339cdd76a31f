CONSTANTS
  h1 = h1
  h2 = h2
  Letters = {1, 2}
  Handlers = {h1, h2}
  Calls = {"draft", "approve", "view", "expire", "accept", "decline", "extend", "toDecision", "moveOn", "draftOn", "leave"}
  Alone = {"draft", "draftOn", "moveOn", "accept", "decline", "leave"}
  MaxCrashes = 0
SPECIFICATION FairSpec
CHECK_DEADLOCK FALSE
INVARIANT SentWillLapse
PROPERTY SentEnds
