SPECIFICATION Spec
CONSTANTS
  Q = 769
  N = 8
  LOGN = 3
  ZETA = 136
  INVERSE_N = 673
  D = 7
  TwoGamma2 = 192
  CT_DIV_SHIFT = 18
  K = 3
  L = 2
  Eta = 2
  Gamma1 = 256
  TAU = 2
  Lambda = 5
  Omega = 6
  B32 = 2
  B64 = 4
  U16_MAX = 127
  NTT_BUF = 36
  BOUNDED_BUF = 4
  MaxSqueezes = 24
  Oid = "this"
  Shake <- MCShake
  ShakeByte <- MCShakeByte
  Seeds <- MCSeeds
  Pkcs8Documents <- MCPkcs8Documents
  ExpandedKeys <- MCExpandedKeys
  SignRequests <- MCSignRequests
  VerifyRequests <- MCVerifyRequests
  OtherKey <- MCOtherKey
  Alterations <- MCAlterations
INVARIANTS
  KeyRoutesAgree
  SamplersExact
  TransformExact
  RoundingExact
  AssertionsHold
  HintCanonical
  SignedVerifies
  
CHECK_DEADLOCK FALSE
