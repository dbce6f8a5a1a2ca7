SPECIFICATION Spec
CONSTANTS
  Intercepts = {i1, i2, i3}
  Conns = {c1}
  NULL = NULL
  MaxConnections = 10
  MaxRequests = 2
  RequestQueueSize = 2
  Posts = {i1}
  Faults = {"connect_failed", "eos_idle", "eos_response", "error", "abort", "stderr"}
  MaxId = 5
  MaxOut = 1
INVARIANTS
  NoCrash
  IdleUp
  AddedOnce
  RequestLimit
SYMMETRY Symmetry
CHECK_DEADLOCK FALSE
