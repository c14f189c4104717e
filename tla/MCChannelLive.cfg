SPECIFICATION FairSpec
CONSTANTS
  main = main
  child = child
  j1 = j1
  Agents <- MCAlone
  Root = main
  Parent <- MCNoParent
  Jobs = {j1}
  MaxInputs = 1
  MaxFaults = 0
  MaxCrashes = 1
  MaxMoves = 1
PROPERTIES WorkGoesOn
CHECK_DEADLOCK FALSE
