SPECIFICATION FairRestartSpec
CONSTANTS
  s1 = s1
  s2 = s2
  None = None
  Servers = {s1}
  Nodes = {n1, n2}
  NodeIDs = {i1, i2}
  Conns = {k1, k2}
  NumChunks = 1
  Messages = {}
  QueueLimit = 1
  Home <- AtS1
  RetryCounter = 0
  Events = {"crash", "kill"}
  MaxEvents = 1
  AdminRequests <- NoRequests
INVARIANTS RestartTypeOK SavedImageComplete OnlyAskedFor
PROPERTIES AllEnds
