SPECIFICATION FairSpec
CONSTANTS
  c1 = c1  c2 = c2
  NoCall = NoCall
  Channels <- MCChannels
  Clients = {k1}
  Calls = {s1, s2}
  Groups <- MCGroups
  Froms = {0, 2}
  PageSize = 1  QueueMax = 3  MaxRows = 2
INVARIANTS TypeOK GetsTheLog
PROPERTIES SubscribeReturns
CHECK_DEADLOCK FALSE
