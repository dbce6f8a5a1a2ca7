SPECIFICATION Spec
CONSTANTS
  Intercepts = {i1, i2, i3}
  Conns = {c1, c2}
  NULL = NULL
  MaxConnections = 13
  MaxRequests = 2
  RequestQueueSize = 2
  Posts = {i1}
  Faults = {"connect_failed", "eos_idle", "eos_request", "eos_response", "error"}
  MaxId = 3
  MaxOut = 2
INVARIANTS
  IdleQuiet
  ResponseIntegrity
SYMMETRY Symmetry
CHECK_DEADLOCK FALSE
