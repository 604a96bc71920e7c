CONSTANTS
  QueueMax = 1
  MaxUtterances = 2
  MaxUpdates = 1
  MaxRejects = 1
  MaxPartials = 2
SPECIFICATION Spec
INVARIANTS  HotwordsOfTheCut PartialsInOrder  FinalsBeforeTerminal
PROPERTIES SessionEndsOrJams
CHECK_DEADLOCK FALSE
