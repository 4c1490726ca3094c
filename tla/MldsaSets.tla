------------------------------ MODULE MldsaSets ------------------------------
(***************************************************************************)
(* The three parameter sets of ml-dsa-0.1.1 (lib.rs), and the sizes that    *)
(* its encodings have under each.                                           *)
(***************************************************************************)
EXTENDS Integers

QMinus1 == 8380416

MlDsa44 == INSTANCE MldsaParam WITH
  Q <- QMinus1 + 1, N <- 256, D <- 13, CT_DIV_SHIFT <- 48, B32 <- 32, B64 <- 64,
  K <- 4, L <- 4, Eta <- 2, Gamma1 <- 2^17, TwoGamma2 <- 2 * (QMinus1 \div 88),
  Lambda <- 32, Omega <- 80, TAU <- 39

MlDsa65 == INSTANCE MldsaParam WITH
  Q <- QMinus1 + 1, N <- 256, D <- 13, CT_DIV_SHIFT <- 48, B32 <- 32, B64 <- 64,
  K <- 6, L <- 5, Eta <- 4, Gamma1 <- 2^19, TwoGamma2 <- 2 * (QMinus1 \div 32),
  Lambda <- 48, Omega <- 55, TAU <- 49

MlDsa87 == INSTANCE MldsaParam WITH
  Q <- QMinus1 + 1, N <- 256, D <- 13, CT_DIV_SHIFT <- 48, B32 <- 32, B64 <- 64,
  K <- 8, L <- 7, Eta <- 2, Gamma1 <- 2^19, TwoGamma2 <- 2 * (QMinus1 \div 32),
  Lambda <- 64, Omega <- 75, TAU <- 60

(* The test output_sizes: private key, public key and signature. *)
ASSUME OutputSizes ==
  /\ << MlDsa44!SigningKeySize, MlDsa44!VerifyingKeySize, MlDsa44!SignatureSize >>
       = << 2560, 1312, 2420 >>
  /\ << MlDsa65!SigningKeySize, MlDsa65!VerifyingKeySize, MlDsa65!SignatureSize >>
       = << 4032, 1952, 3309 >>
  /\ << MlDsa87!SigningKeySize, MlDsa87!VerifyingKeySize, MlDsa87!SignatureSize >>
       = << 4896, 2592, 4627 >>

(* W1Bits is stated in the sets, not computed there. *)
ASSUME StatedW1Bits == << MlDsa44!W1Bits, MlDsa65!W1Bits, MlDsa87!W1Bits >> = << 6, 4, 4 >>
=============================================================================
