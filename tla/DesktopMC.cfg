SPECIFICATION FairSpec
CONSTANTS
  Servers = {s1, s2, s3}
  MaxRestarts = 3
  None = None
INVARIANTS OneServer OneLateStart NoneLeftUntold
PROPERTIES SupervisionSettles TakenDown
