SPECIFICATION Spec
CONSTANTS
  Nodes = {n1, n2}
  heartbeat = 1
  Second = 4
  Slack = 1
  Delay = 1
  MaxAge = 22
SYMMETRY Symmetric
INVARIANTS NoFalseTimeout DetectedInTime
