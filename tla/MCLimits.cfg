SPECIFICATION FairSpec
CONSTANTS
  x = x  y = y  p1 = p1  p2 = p2
  Agents = {x, y}
  Providers = {p1, p2}
  Candidates <- MCCandidates
  First <- MCFirst
  Long = {x}
  Polled = {p2}
  Headers = {p1}
  Silent = {p2}
  MaxCalls = 3
  MaxTokens = 1
  MaxMoves = 1
  MaxResumes = 1
  MaxTime = 3
  MaxEvents = 3
INVARIANTS TypeOK SpendingBounded
PROPERTIES LimitsAreTrue ParkedResumes
CHECK_DEADLOCK FALSE
