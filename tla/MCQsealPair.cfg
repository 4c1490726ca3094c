SPECIFICATION Spec
CONSTANTS
  appletA = appletA
  appletB = appletB
  Applets <- MCApplets
  Requests <- MCRequests
  Certified <- MCCertified
  AppletId <- MCAppletId
INVARIANTS
  PairBound
  OwnAssertionAccepted
