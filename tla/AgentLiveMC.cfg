CONSTANTS
  d1 = d1
  d2 = d2
  c1 = c1
  s1 = s1
  Drives = {d1, d2}
  Cancellers = {c1}
  Steps = {s1}
  MaxDeliveries = 2
  MaxCrashes = 0
  MaxWork = 2
SPECIFICATION FairSpec
CHECK_DEADLOCK FALSE
PROPERTIES
  RunEnds
  ReadersReleased
