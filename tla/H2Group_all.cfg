SPECIFICATION Spec
CONSTANTS
  k1 = k1
  k2 = k2
  Keys = {k1, k2}
  Requests = {r1, r2}
  Threads = {h1}
  MaxStreams = 1
  MaxGroups = 1
  Low = 1
  Mid = 2
  High = 3
  BusyLoad = 1
  CacheSize = 1
  Shapes <- MCShapes
  MaxCalls = 1
INVARIANTS
  GroupAccounting
  EvictedGroupsServeNobody
  ScaleDownHarmsNobody
PROPERTIES
  LimitExceededOnlyWhenBusy
  RequestsEnd
CHECK_DEADLOCK FALSE
