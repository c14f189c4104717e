CONSTANTS
  Prompts = {a}
  Messages = {m}
  Nobody = Nobody
  MaxChats = 1
  MaxInputs = 1
  MaxFaults = 2
  Busy = 2
  QueueSize = 2
SPECIFICATION MCSpec
INVARIANTS BridgeTypeOK MirrorIsTrue CardsAreTrue
PROPERTIES DiscordSettles
