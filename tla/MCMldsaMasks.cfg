SPECIFICATION FairSpec
CONSTANTS
  Seeds = {s1}
  Byte <- Bytes
  Zero <- b0
  Old <- b1
  L = 2
  NONCE = 8
  UINT8 = 2
  Signers = {p1, p2}
  Messages <- ShortMessages
  Contexts <- NoContext
  Rnd = {r1, r2}
  Fates <- TwoFates
  MaxReleased = 2
INVARIANTS
  NoMaskReuse
  RejectedStaySecret
  TwinsAgree
PROPERTIES
  SigningEnds
CHECK_DEADLOCK FALSE
