CONSTANTS
  d1 = d1
  c1 = c1
  s1 = s1
  Drives = {d1}
  Cancellers = {c1}
  Steps = {s1}
  MaxDeliveries = 2
  MaxCrashes = 1
  MaxWork = 4
SPECIFICATION Spec
CHECK_DEADLOCK FALSE
INVARIANT
  NoStepTwice
