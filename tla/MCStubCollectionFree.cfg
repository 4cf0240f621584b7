CONSTANTS
  W = 2
  MaxEnv = 0
  c1 = c1
  c2 = c2
  Cowns <- MCCowns1
  HomeOf <- MCHomeOf1
  None = None
  MaxEpoch = 2
  DetectLeaks = FALSE
SPECIFICATION Spec
INVARIANTS
  FreeCownsCounted
