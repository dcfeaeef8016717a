CONSTANTS
  MaxTotal = 5
  MaxWindow = 3
  Kinds = {"gather_limited", "for_each_limited"}
  MayCancelParent = TRUE
SPECIFICATION FairSpec
INVARIANTS
  WindowIsKeptFull
PROPERTIES
  NothingStartsAfterTheEnd
  CallEnds
