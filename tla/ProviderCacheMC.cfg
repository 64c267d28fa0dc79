SPECIFICATION Spec
CONSTANTS
  Calls = {c1, c2, c3}
  None = None
  Removals = {rm}
  Sweep = Sweep
  Slots = {"shared", "agent-read-only", "one-shot"}
  Configs <- Edited
  Tunnelled = TRUE
  SingleWriter = FALSE
  MaxDrops = 1
SYMMETRY Symmetry
CONSTRAINT TwoThenOne
INVARIANTS NoneForgotten TunnelKept
CHECK_DEADLOCK FALSE
