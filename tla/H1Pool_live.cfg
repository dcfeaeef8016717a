CONSTANTS
  Requests = {r1, r2, r3}
  Probes = {p1}
  Workers = {w1}
  TargetCount = 1
  MaxConnectionsPerOrigin = 2
  MaxConnectingPerOrigin = 1
  Tls = TRUE
  Timed = {}
  Cancellable = {}
  MayReset = FALSE
  MayEvict = FALSE
SPECIFICATION FairSpec
INVARIANTS
  CountersExact
  NoStrandedWaiter
PROPERTY EveryoneFinishes
CHECK_DEADLOCK FALSE
