CONSTANTS
  W = 2
  c1 = c1
  c2 = c2
  Cowns <- MCCowns
  Fair = TRUE
  None = None
  MaxLifo = 2

SPECIFICATION Spec

INVARIANT TypeOK
INVARIANT CownPlacement
INVARIANT TokenConservation

PROPERTY Refinement
