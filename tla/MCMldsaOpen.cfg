SPECIFICATION Spec
CONSTANTS
  Seeds = {s1, s2}
  Byte <- Bytes
  Zero <- b0
  Old <- b1
  L = 2
  NONCE = 2
  UINT8 = 2
  Signers = {p1, p2}
  Messages <- LongMessages
  Contexts <- ThreeContexts
  Rnd = {r1}
  Fates <- TwoFates
  MaxReleased = 2
INVARIANTS
  OpenExact
  VerifyExact
SYMMETRY Symmetric
CHECK_DEADLOCK FALSE
