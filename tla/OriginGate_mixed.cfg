CONSTANTS
  Requests = {r1, r2, r3}
  Policies = {"Auto", "PreferH1", "PreferH2", "ForceH1", "ForceH2"}
  WaiterLimit = 1
  Overflow = "WaitForDetection"
  RetryAtOnce = TRUE
  MaxGates = 2
  Gap = FALSE
  MayCancel = {r1, r2, r3}
  Again = FALSE
SYMMETRY Symmetric
SPECIFICATION Spec
INVARIANTS
  WaitersAreOwedAWake
PROPERTIES
  NeverEvictedWhileDetecting
CHECK_DEADLOCK FALSE
