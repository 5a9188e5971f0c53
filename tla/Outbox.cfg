SPECIFICATION FairSpec
CONSTANTS
  p1 = p1
  p2 = p2
  Publishers <- TwoPublishers
  Events <- TwoEvents
  Poison <- SecondIsPoison
  Limit = 2
  MaxAttempts = 2
  MaxFaults = 1
INVARIANT TypeOK
INVARIANT NothingIsLost
PROPERTY EveryEventSettles
PROPERTY ImplementsRelay
