SPECIFICATION FairSpec
CONSTANTS
  root = root  kid = kid  src = src  other = other
  f = f  k = k  g = g  u = u  key = key  cargo = cargo  site = site
  Agents = {root, kid}
  Root = root
  Handlers = {h1, h2}
  Targets = {f, k, g, u, key}
  Dirs = {src, other}
  Content <- MCContent
  GrantDir <- MCGrantDir
  Family <- MCFamily
  NoFamily = NoFamily
  Control = {k}
  Credentials = {key}
  HiddenDirs = {}
  Calls <- MCCalls
  Makes <- MCMakes
  ReadOnly = {}
  Configs <- MCConfigs
  FullSandbox = FALSE
  Home = src
  NoDir = NoDir
  MaxEvents = 2
INVARIANTS TypeOK CallsAreJudged
PROPERTIES OnlyPeopleWiden CallsEnd
CONSTRAINT InTurns
CHECK_DEADLOCK FALSE
