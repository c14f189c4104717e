SPECIFICATION FairTerminal
CONSTANTS
  Home = h
  Channels = {h, other}
  Prompts = {p}
  FirstLook = 1
  MaxWork = 1
  MaxDirs = 1
  MaxReturns = 0
INVARIANTS TerminalTypeOK NothingSkipped
PROPERTIES ViewSettles
CHECK_DEADLOCK FALSE
