CONSTANTS
  W = 3
  MaxEnv = 2
SPECIFICATION Spec
INVARIANTS
  TypeOK
  EpochAgreement

