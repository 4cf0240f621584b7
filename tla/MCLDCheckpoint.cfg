CONSTANTS
  W = 2
  c1 = c1
  c2 = c2
  Cowns <- MCCowns
  Fair = TRUE
  None = None
  MaxLifo = 1
  MaxScans = 1

SPECIFICATION LDSpec

INVARIANT CheckpointDrained
