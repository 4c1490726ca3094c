SPECIFICATION Spec
CONSTANTS
  ChallengeKeys <- TransportKeys
  QSEAL_STORE_CAP = 2
  QSEAL_NUM_FRAGS = 3
  ZeroPayload = ZeroPayload
  Requests <- TransportRequests
  issuer_id = 101
  ak_id = 102
  Foreign <- MCForeign
  MaxClock = 2
  MaxAsked = 2
INVARIANTS
  AcceptedWasSigned
  EvidenceAdmitted
PROPERTIES
  ImplementsSingleUse
CHECK_DEADLOCK FALSE
