SPECIFICATION Spec
CONSTANTS
  None = None
  Servers = {s1}
  NodeIDs = {i1, i2}
  NumChunks = 1
  MaxPosts = 2
  Messages <- Posts
  QueueLimit = 1
  Streams = {k1, k2}
  MaxAbandoned = 1
SYMMETRY Symmetric
INVARIANTS TypeOK
PROPERTIES MailboxImplemented
