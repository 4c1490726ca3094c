SPECIFICATION Spec
CONSTANTS
  ChallengeKeys = {k1, k2, k3, k4}
  QSEAL_STORE_CAP = 3
INVARIANTS
  TypeOK
  TwinsUntilFull
PROPERTIES
  ImplementsSingleUse
