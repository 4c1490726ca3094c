------------------------------ MODULE MldsaKeys ------------------------------
(***************************************************************************)
(* The keys of ml-dsa-0.1.1 (signing.rs, verifying.rs, pkcs8.rs): how each  *)
(* is derived, encoded and read back.  A document is its decoded fields:    *)
(* the DER syntax around them belongs to the pkcs8 crate.                   *)
(***************************************************************************)
EXTENDS MldsaNtt, MldsaSampling

CONSTANT Oid \* the object identifier of the parameter set

Refused == [refused |-> TRUE]

Product(A_hat, v_hat) == ntt_inverse_vec(NttMatVec(A_hat, v_hat))
-----------------------------------------------------------------------------
encode_internal(rho, t1) == concat_vk(rho, encode_t1(t1))

(* PrecomputedValues::new: the scaled t1 and the hash that messages are bound *)
(* to, of the encoding given.                                                 *)
VerifyingKey(rho, t1, A_hat, enc) ==
  [rho |-> rho, t1 |-> t1, A_hat |-> A_hat,
   t1_2d_hat |-> ntt_vec(VecScale(2^D, t1)),
   tr |-> squeeze_new(absorb(H, enc), B64)]

vk_encode(vk) == encode_internal(vk.rho, vk.t1)

vk_decode(enc) ==
  LET rho == split_vk(enc)[1]
  IN VerifyingKey(rho, decode_t1(split_vk(enc)[2]), expand_a(rho), enc)
-----------------------------------------------------------------------------
ExpandedSigningKey(rho, key, tr, s1, s2, t0, A_hat) ==
  [rho |-> rho, K |-> key, tr |-> tr, s1 |-> s1, s2 |-> s2, t0 |-> t0,
   s1_hat |-> ntt_vec(s1), s2_hat |-> ntt_vec(s2), t0_hat |-> ntt_vec(t0),
   A_hat |-> A_hat]

public_key(esk, t1) ==
  VerifyingKey(esk.rho, t1, esk.A_hat, encode_internal(esk.rho, t1))

(* A broken derivation, which leaves the error vector out. *)
verifying_key_exact(esk) ==
  public_key(esk, VecPower2Round(Product(esk.A_hat, esk.s1_hat))[1])

verifying_key(esk) ==
  public_key(esk, VecPower2Round(VecAdd(Product(esk.A_hat, esk.s1_hat), esk.s2))[1])

signing_key(xi, esk) ==
  [expanded_key |-> esk, seed |-> xi, verifying_key |-> verifying_key(esk)]

with_t(xi, rho, key, A_hat, s1, s2, t) ==
  signing_key(xi, ExpandedSigningKey(rho, key,
    squeeze_new(absorb(H, encode_internal(rho, t[1])), B64), s1, s2, t[2], A_hat))

with_secrets(xi, rho, key, A_hat, s1, s2) ==
  with_t(xi, rho, key, A_hat, s1, s2,
         VecPower2Round(VecAdd(Product(A_hat, ntt_vec(s1)), s2)))

(* ML-DSA.KeyGen_internal.  The three seeds come from one stream. *)
from_seed(xi) ==
  LET h == squeeze(absorb(absorb(absorb(H, xi), << K >>), << L >>), B32)
      h1 == squeeze(h.ctx, B64)
  IN with_secrets(xi, h.bytes, squeeze_new(h1.ctx, B32), expand_a(h.bytes),
                  expand_s(L, h1.bytes, 0), expand_s(K, h1.bytes, L))

to_expanded(esk) ==
  concat_sk(esk.rho, esk.K, esk.tr, encode_s1(esk.s1), encode_s2(esk.s2), encode_t0(esk.t0))

(* The assertions that to_expanded and from_expanded meet. *)
ExpandedPackable(esk) ==
  /\ packable_vec(L, Eta, Eta, esk.s1) /\ packable_vec(K, Eta, Eta, esk.s2)
  /\ packable_vec(K, Pow2DMinus1 - 1, Pow2DMinus1, esk.t0)
ExpandedUnpackable(enc) ==
  /\ unpackable_vec(L, Eta, Eta, split_sk(enc).s1)
  /\ unpackable_vec(K, Eta, Eta, split_sk(enc).s2)
  /\ unpackable_vec(K, Pow2DMinus1 - 1, Pow2DMinus1, split_sk(enc).t0)

(* Nothing is checked against anything. *)
from_expanded(enc) ==
  LET p == split_sk(enc)
  IN ExpandedSigningKey(p.rho, p.K, p.tr, decode_s1(p.s1), decode_s2(p.s2),
                        decode_t0(p.t0), expand_a(p.rho))

(* Equality of expanded keys looks at what is not derived. *)
ct_eq(a, b) == /\ a.rho = b.rho /\ a.K = b.K /\ a.tr = b.tr
               /\ a.s1 = b.s1 /\ a.s2 = b.s2 /\ a.t0 = b.t0
-----------------------------------------------------------------------------
(* PKCS#8: the seed under an implicit context tag, and nothing after it. *)
SEED_TAG_NUMBER == 0

to_pkcs8_der(sk) == [oid |-> Oid, tag |-> SEED_TAG_NUMBER, value |-> sk.seed,
                     trailing |-> FALSE]

from_pkcs8(info) ==
  IF /\ info.oid = Oid
     /\ info.tag = SEED_TAG_NUMBER
     /\ Len(info.value) = B32
     /\ ~info.trailing
  THEN from_seed(info.value) ELSE Refused

to_public_key_der(vk) == [oid |-> Oid, unused_bits |-> 0, bytes |-> vk_encode(vk)]

(* A bit string of whole bytes, of the size of a key. *)
from_spki(spki) ==
  IF spki.oid = Oid /\ spki.unused_bits = 0 /\ Len(spki.bytes) = VerifyingKeySize
  THEN vk_decode(spki.bytes) ELSE Refused
=============================================================================
