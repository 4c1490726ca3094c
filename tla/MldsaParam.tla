----------------------------- MODULE MldsaParam -----------------------------
(***************************************************************************)
(* param.rs of ml-dsa-0.1.1: a parameter set, and the encodings and sizes   *)
(* that follow from it.                                                     *)
(***************************************************************************)
EXTENDS MldsaRounding, LatticeEncoding, FiniteSets

CONSTANTS K, L,         \* rows and columns of the matrix
          Eta,          \* range of the secret vectors, 2 or 4
          Gamma1,       \* range of the mask
          TAU,          \* nonzero coefficients of the challenge
          Lambda,       \* bytes of c_tilde
          Omega,        \* most ones of a hint
          B32, B64      \* bytes of the short and the long seeds and hashes

ASSUME ParameterSet ==
  /\ {K, L, TAU, Lambda, Omega, B32, B64} \subseteq Nat \ {0}
  /\ Eta \in {2, 4} /\ \E e \in 1 .. 30 : Gamma1 = 2^e
  /\ TAU <= N /\ TAU <= 64 /\ 2 * Gamma1 < Q /\ 2 * Eta < Q
  /\ K + L <= 256

BETA == TAU * Eta
GAMMA1_MINUS_BETA == Gamma1 - BETA
GAMMA2_MINUS_BETA == Gamma2 - BETA

W1Bits == ilog2((Q - 1) \div TwoGamma2 - 1) + 1
BitlenQMinusD == ilog2(Q) + 1 - D
Pow2DMinus1 == 2^(D - 1)

Rows == 0 .. K - 1
Columns == 0 .. L - 1
-----------------------------------------------------------------------------
S1Size == L * EncodedPolynomialSize(RangeEncodingBits(Eta, Eta))
S2Size == K * EncodedPolynomialSize(RangeEncodingBits(Eta, Eta))
T0Size == K * EncodedPolynomialSize(D)
SigningKeySize == 2 * B32 + B64 + S1Size + S2Size + T0Size

encode_s1(s1) == pack_vec(L, Eta, Eta, s1)
decode_s1(enc) == unpack_vec(L, Eta, Eta, enc)
encode_s2(s2) == pack_vec(K, Eta, Eta, s2)
decode_s2(enc) == unpack_vec(K, Eta, Eta, enc)
encode_t0(t0) == pack_vec(K, Pow2DMinus1 - 1, Pow2DMinus1, t0)
decode_t0(enc) == unpack_vec(K, Pow2DMinus1 - 1, Pow2DMinus1, enc)

concat_sk(rho, key, tr, s1, s2, t0) == rho \o key \o tr \o s1 \o s2 \o t0

(* The len bytes of s after the first at. *)
Slice(s, at, len) == SubSeq(s, at + 1, at + len)

split_sk(enc) ==
  LET s1 == 2 * B32 + B64
  IN [rho |-> Slice(enc, 0, B32), K |-> Slice(enc, B32, B32),
      tr |-> Slice(enc, 2 * B32, B64), s1 |-> Slice(enc, s1, S1Size),
      s2 |-> Slice(enc, s1 + S1Size, S2Size),
      t0 |-> Slice(enc, s1 + S1Size + S2Size, T0Size)]
-----------------------------------------------------------------------------
encode_t1(t1) == encode_vec(K, BitlenQMinusD, t1)
decode_t1(enc) == decode_vec(K, BitlenQMinusD, enc)

VerifyingKeySize == B32 + K * EncodedPolynomialSize(BitlenQMinusD)
concat_vk(rho, t1) == rho \o t1
split_vk(enc) == << SubSeq(enc, 1, B32), SubSeq(enc, B32 + 1, VerifyingKeySize) >>
-----------------------------------------------------------------------------
ZSize == L * EncodedPolynomialSize(RangeEncodingBits(Gamma1 - 1, Gamma1))
HintSize == Omega + K
SignatureSize == Lambda + ZSize + HintSize

split_hint(y) == << SubSeq(y, 1, Omega), SubSeq(y, Omega + 1, HintSize) >>
encode_w1(w1) == encode_vec(K, W1Bits, w1)
encode_z(z) == pack_vec(L, Gamma1 - 1, Gamma1, z)
decode_z(enc) == unpack_vec(L, Gamma1 - 1, Gamma1, enc)

concat_sig(c_tilde, z, h) == c_tilde \o z \o h
split_sig(enc) == << Slice(enc, 0, Lambda), Slice(enc, Lambda, ZSize),
                     Slice(enc, Lambda + ZSize, HintSize) >>

(* MaskSamplingSize: the bytes of a mask polynomial, and the polynomial. *)
SampleSize == EncodedPolynomialSize(RangeEncodingBits(Gamma1 - 1, Gamma1))
unpack_mask(v) == unpack(Gamma1 - 1, Gamma1, v)
=============================================================================
