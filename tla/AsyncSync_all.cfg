SPECIFICATION Spec
CONSTANTS
  Tasks = {t1, t2, t3, t4}
  MaxSizes = {0, 1, 2}
  MaxPermits = 1
  MaxOutside = 3
INVARIANTS
  SleepersAreCovered
  LockIsExclusive
PROPERTIES
  EventWaitersReturn
  ImplementsHandoff
