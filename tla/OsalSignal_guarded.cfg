SPECIFICATION OsalFairSpec
CONSTANTS
  w1 = w1
  s1 = s1
  s2 = s2
  Free = Free
  Waiter = {w1}
  Setter = {s1, s2}
  MaxSets = 3
  Guarded = TRUE
INVARIANTS
  NoSleeperOverlooked
PROPERTY SleepersAreReleased
CHECK_DEADLOCK FALSE
