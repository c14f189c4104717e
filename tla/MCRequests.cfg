SPECIFICATION Spec
CONSTANTS
  a1 = a1
  a2 = a2
  User = user
  Agents <- MCAgents
  MaxRequests = 2
  MaxStops = 2
SYMMETRY Symmetry
INVARIANTS TypeOK DebtsAreSound EveryDebtReminded
PROPERTY AnsweredOnce
CHECK_DEADLOCK FALSE
