SPECIFICATION Spec
CONSTANTS
  Intercepts = {i1}
  Conns = {c1}
  NULL = NULL
  MaxConnections = 10
  MaxRequests = 1
  RequestQueueSize = 1
  Posts = {}
  Faults = {"connect_failed"}
  MaxId = 3
  MaxOut = 0
INVARIANTS
  NoStranded
CHECK_DEADLOCK FALSE
