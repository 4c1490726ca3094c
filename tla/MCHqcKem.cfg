SPECIFICATION Spec
CONSTANTS
  m1 = m1
  m2 = m2
  Holders = {"h1", "h2"}
  Seeds = {1, 2}
  Messages <- MCMessages
  Salts = {1, 2}
  Undecryptable <- MCUndecryptable
  Diffs = {1, 255}
  MaxSent = 2
INVARIANTS
  Agreement
  Rejection
  OneSecretPerCiphertext
CHECK_DEADLOCK FALSE
