SPECIFICATION ShardSpec
CONSTANTS
  Guarded = {r1, r2, r3}
  Warmers = {w1}
  N = 3
  Wanted <- MCWanted
  Urgent = 2
  Quiet = 0
PROPERTIES
  WideningNeverNarrows
  LoadKeepsTheWindow
