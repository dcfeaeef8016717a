CONSTANTS
  N = 3
  Kinds = {"gather", "gather_outcomes", "gather_tasks", "gather_vector", "one_of", "race", "wait_for", "wait_all", "wait_first", "wait_exception", "as_completed"}
  OutsideCancel = TRUE
  MayCancelParent = TRUE
SPECIFICATION FairSpec
INVARIANTS
  WakeUpLostExactlyWhenSpent
  NobodyLeftBehind
  OutcomeIsRight
PROPERTY CombinatorEnds
