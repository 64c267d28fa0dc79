SPECIFICATION Spec
CONSTANTS
  Runs = {r1, r2}
  Callers = {c1, c2, c3}
  Statements = {s1, s2}
  MaxConcurrent = 2
  MaxStatements = 1
  MaxElapsed = 2
  Ceiling = 2
  Minimum = 1
  TotalMs = 2
  MaxRepairs = 1
  MaxArtifacts = 2
  Ttl = 2
  MaxClock = 2
  MaxBacks = 1
  MaxCalls = 3
SYMMETRY Symmetry
INVARIANTS  SlotsBalanced CeilingsHold TrailFirst GrantEndsInTime
PROPERTIES  EvictsOwnOldest
CHECK_DEADLOCK FALSE
