CONSTANTS
  Requests = {r1, r2, r3}
  Probes = {p1}
  Workers = {w1}
  TargetCount = 1
  MaxConnectionsPerOrigin = 2
  MaxConnectingPerOrigin = 1
  Tls = TRUE
  Timed = {r1}
  Cancellable = {r1, p1}
  MayReset = TRUE
  MayEvict = TRUE
SPECIFICATION Spec
CHECK_DEADLOCK FALSE
SYMMETRY Symmetry
INVARIANTS
  TypeOK
  ConnectionAccounting
  ConnectionCap
  ReservationsBacked
  ConnectingNotOvercounted
