SPECIFICATION Spec
CONSTANTS
  s1 = s1
  s2 = s2
  None = None
  Servers = {s1}
  Nodes = {n1, n2}
  NodeIDs = {i1, i2}
  Conns = {k1, k2}
  NumChunks = 1
  Messages = {}
  QueueLimit = 1
  Home <- AtS1
  RetryCounter = 0
  Events = {"late", "lose", "refuse", "error", "admin"}
  MaxEvents = 2
  AdminRequests <- HomeRequests
SYMMETRY Symmetric
INVARIANTS TypeOK SavedImageComplete
PROPERTIES WriteOnce JobImplemented
