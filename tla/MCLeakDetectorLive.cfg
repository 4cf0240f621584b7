CONSTANTS
  W = 2
  MaxEnv = 2
SPECIFICATION Spec
PROPERTY
  ScanBarrierReached
