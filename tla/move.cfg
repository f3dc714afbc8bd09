SPECIFICATION Spec
CONSTANTS
  s1 = s1
  s2 = s2
  None = None
  Servers = {s1, s2}
  Nodes = {n1}
  NodeIDs = {i1}
  Conns = {k1, k2, k3}
  NumChunks = 1
  Messages = {m1}
  QueueLimit = 1
  Home <- AtS1
  RetryCounter = 0
  Events = {"crash", "late", "admin"}
  MaxEvents = 2
  AdminRequests <- OtherRequests
SYMMETRY Symmetric
INVARIANTS NoStrandedChunk NeverPoisoned
