SPECIFICATION Spec
CONSTANTS
  Keys = {k1, k2, k3}
  MaxHits = 2
  Window = 2
  Capacity = 2
  MaxNow = 4
  MaxStamps = 4
SYMMETRY Symmetry
INVARIANTS WithinCap TwoWindowsAtMost
PROPERTIES ArrivalKept LeastWorkGoes KeysApart
CHECK_DEADLOCK FALSE
