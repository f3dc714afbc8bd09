SPECIFICATION Spec
CONSTANTS
  None = None
  Servers = {s1}
  NodeIDs = {i1}
  NumChunks = 1
  MaxPosts = 5
  Messages <- Posts
  QueueLimit = 3
  Streams = {k1, k2, k3}
  MaxAbandoned = 2
SYMMETRY Symmetric
INVARIANTS MessagesInOrder NothingForgotten
