SPECIFICATION FairSpec
CONSTANTS
  Intercepts = {i1, i2, i3}
  Conns = {c1}
  NULL = NULL
  MaxConnections = 10
  MaxRequests = 2
  RequestQueueSize = 2
  Posts = {i1}
  Faults = {"eos_idle", "abort"}
  MaxId = 4
  MaxOut = 0
INVARIANTS
  NoStranded
PROPERTIES NoOvertaking AllAnswered ImplementsIdeal
CHECK_DEADLOCK FALSE
