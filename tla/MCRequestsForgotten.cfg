SPECIFICATION Spec
CONSTANTS
  a1 = a1
  a2 = a2
  User = user
  Agents <- MCAgents
  MaxRequests = 2
  MaxStops = 1
INVARIANT ForgottenStaysForgotten
CHECK_DEADLOCK FALSE
