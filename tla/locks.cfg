SPECIFICATION Spec
CONSTANTS
  None = None
  Servers = {s2}
  NodeIDs = {i1}
  NumChunks = 1
  Messages = {m1}
  QueueLimit = 1
  Peers = {p1, p2}
  Requests <- MixedRequests
  PoolSize = 2
  MaxHung = 1
INVARIANTS NoCircularWait StatisticsInOrder
PROPERTIES ServedUnlessBlocked
CHECK_DEADLOCK FALSE
