SPECIFICATION FairSpec
CONSTANTS
  t1 = t1
  t2 = t2
  i1 = i1
  i2 = i2
  i3 = i3
  Threads = {t1, t2}
  Requests = {i1, i2, i3}
  c1 = c1
  c2 = c2
  c3 = c3
  Conns = {c1, c2, c3}
  NULL = NULL
  Home <- MCHome
  Keys <- MCKeys
  HostKeys <- MCHostKeys
  MaxConnections = 2
  PoolShare = 2
  QueueSize = 1
  Events = {"connect", "read", "failed", "eos", "abort", "recycle"}
  MaxSetFailures = 1
  MaxConnFailures = 1
INVARIANTS TypeOK EntryAlive Accounted HomePool TotalLimit
PROPERTY AllSettled
CHECK_DEADLOCK FALSE
