SPECIFICATION Spec
CONSTANTS
  None = None
  Failed = Failed
  Panicked = Panicked
  Server = server
  Peers = {p1, p2}
  Keys = {key1, key2}
  Requests <- SomeRequests
  NonceRange = 2
SYMMETRY Symmetric
INVARIANTS TypeOK AgreeingUnderstood OnlyWholeRequests
