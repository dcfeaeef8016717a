CONSTANTS
  Awaiters = {a1, a2, a3, a4}
  Callers = {k1, k2}
  SameExecutor = {a1, a2}
  MayCancel = {a1, a3}
SPECIFICATION FairTaskSpec
INVARIANT CompletionReachesEveryone
PROPERTY AwaitersComeBack
