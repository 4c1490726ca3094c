SPECIFICATION FairExpSpec
CONSTANTS
  ChallengeKeys = {k1, k2, k3}
  QSEAL_EXP_CAP = 2
  MaxTime = 3
INVARIANTS
  ExpTypeOK
  WindowedSingleUse
  RefusalHasCause
PROPERTIES
  ImplementsWindowedUse
  RoomReturns
