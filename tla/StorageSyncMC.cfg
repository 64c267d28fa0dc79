SPECIFICATION FairSpec
CONSTANTS
  Cols = {a, b}
  None = None
  MaxEdits = 2
  MaxFlights = 2
  MaxMounts = 2
  MaxLosses = 1
INVARIANTS SyncTypeOK 
  
CHECK_DEADLOCK FALSE
