SPECIFICATION Spec
CONSTANTS
  ChallengeKeys <- SigningKeys
  QSEAL_STORE_CAP = 1
  QSEAL_NUM_FRAGS = 3
  ZeroPayload = ZeroPayload
  Requests <- EdgeRequests
  issuer_id = 101
  ak_id = 102
  Foreign <- Nothing
  MaxClock = 2
  MaxAsked = 2
INVARIANTS
  SignedMatchesRequest
  OneReadingExact
CHECK_DEADLOCK FALSE
