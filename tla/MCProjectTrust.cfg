SPECIFICATION MCSpec
CONSTANTS
  other = other  c1 = c1  c2 = c2  conf = conf  note = note
  Dirs = {src, other}
  Home = src
  Channels = {c1,c2}
  Workers = {w1, w2}
  Files = {conf, note}
  Notes = {note}
  Contents <- MCContents
  Broken <- MCBroken
  Edits <- MCEdits
  Ids = {t1, t2}
  None = None
  NoId = NoId
  There <- MCThere
  Saved <- MCSaved
  MaxChanges = 1
  MaxCommands = 2
INVARIANTS TypeOK TrustIsKept
PROPERTIES TrustActs
CONSTRAINT Small
CHECK_DEADLOCK FALSE
