SPECIFICATION FairSpec
CONSTANTS
  Calls = {c1, c2}
  None = None
  Removals = {rm}
  Sweep = Sweep
  Slots = {"shared", "agent-read-only", "agent-operations"}
  Configs <- File
  Tunnelled = FALSE
  SingleWriter = TRUE
  MaxDrops = 0
INVARIANT Isolated
PROPERTY IdleEvicted
CHECK_DEADLOCK FALSE
