SPECIFICATION FairSpec
CONSTANTS
  Ids = {p1}
  Clients = {k1, k2}
  NoClient = NoClient
  MaxRequests = 2
INVARIANTS TypeOK PromptsAreSound
PROPERTIES ClaimsWork RequestReturns
CHECK_DEADLOCK FALSE
