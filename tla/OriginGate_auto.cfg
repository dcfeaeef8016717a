CONSTANTS
  Requests = {r1, r2, r3, r4}
  Policies = {"Auto"}
  WaiterLimit = 2
  Overflow = "FallbackH1"
  RetryAtOnce = FALSE
  MaxGates = 1
  Gap = FALSE
  MayCancel = {}
  Again = FALSE
SPECIFICATION FairSpec
INVARIANTS
  OneDetector
PROPERTY EveryRequestAnswered
CHECK_DEADLOCK FALSE
