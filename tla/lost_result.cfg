SPECIFICATION RegisteredSpec
CONSTANTS
  s1 = s1
  s2 = s2
  None = None
  Servers = {s1}
  Nodes = {n1}
  NodeIDs = {i1}
  Conns = {k1, k2}
  NumChunks = 1
  Messages = {}
  QueueLimit = 1
  Home <- AtS1
  RetryCounter = 1
  Events = {"lose"}
  MaxEvents = 1
  AdminRequests <- NoRequests
PROPERTIES JobEnds
