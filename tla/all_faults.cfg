SPECIFICATION Spec
CONSTANTS
  Intercepts = {i1, i2, i3}
  Conns = {c1, c2}
  NULL = NULL
  MaxConnections = 13
  MaxRequests = 2
  RequestQueueSize = 1
  Posts = {i1}
  Faults = {"connect_failed", "eos_idle", "eos_request", "eos_response", "error", "abort"}
  MaxId = 4
  MaxOut = 0
INVARIANTS
  TypeOK
  PoolConsistent
  MapConsistent
  QueueConsistent
  IdleReset
  StatExact
  FailedLast
PROPERTY ImplementsService
SYMMETRY Symmetry
CHECK_DEADLOCK FALSE
