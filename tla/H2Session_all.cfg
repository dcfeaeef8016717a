CONSTANTS
  Requests = {r1, r2}
  Callbacks = {k1}
  MaxStreams = 2
  PeerDefault = 1
  PeerLimits = {0, 2}
  Timed = {r1}
  Cancellable = {r2}
  MayGoaway = TRUE
  MayFail = TRUE
  MayShutdown = TRUE
  MayReset = TRUE
  MaxGen = 4
SPECIFICATION FairSpec
INVARIANTS
  NoSlotLeak
  SessionThereWhenUsed
PROPERTIES
  AdmissionWithinLimit
  StopsForAReason
  EveryRequestEnds
CHECK_DEADLOCK FALSE
