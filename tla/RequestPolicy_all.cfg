SPECIFICATION Spec
CONSTANTS
  Calls = {c1, c2}
  Wishes <- MCWishes
  Urls <- MCUrls
  Bad = Bad
  None = None
  Lines <- MCLines
  MaxRedirects = 1
  MaxPerDomain = 1
  MaxDomains = 1
CHECK_DEADLOCK FALSE
INVARIANTS
  SendsAccounted
  JarWithinLimits
PROPERTIES
  CallsEnd
