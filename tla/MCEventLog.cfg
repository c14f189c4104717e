SPECIFICATION FairSpec
CONSTANTS
  c1 = c1  c2 = c2  n1 = n1  n2 = n2
  NoName = NoName
  Channels <- MCChannels
  Names <- MCNames
  Payloads <- MCPayloads
  QueueCap = 3  BatchCap = 3
  MaxRequests = 4  MaxFaults = 1  MaxCrashes = 1
INVARIANTS TypeOK LogIsSound ReportsAreTrue
PROPERTIES ImplementsOrderedLog Answered
CHECK_DEADLOCK FALSE
