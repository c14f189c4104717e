SPECIFICATION Spec
CONSTANTS
  main = main
  child = child
  j1 = j1
  Agents <- MCAgents
  Root = main
  Parent <- MCParent
  Jobs = {j1}
  MaxInputs = 2
  MaxFaults = 1
  MaxCrashes = 1
  MaxMoves = 1
CONSTRAINT Together
CHECK_DEADLOCK FALSE
INVARIANTS TypeOK TurnsOwnTheirCommands FactsAgree
PROPERTY JobIsTold
