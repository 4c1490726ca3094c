--------------------------- MODULE MldsaRounding ---------------------------
(***************************************************************************)
(* algebra.rs of ml-dsa-0.1.1: reduction and division by the moduli of the  *)
(* scheme without a divide instruction, the roundings built on them, and    *)
(* the norm.  Signed values are held modulo Q.                              *)
(***************************************************************************)
EXTENDS LatticeAlgebra

CONSTANTS D,           \* bits dropped from t, 13 in the code
          TwoGamma2,   \* low-order rounding range
          CT_DIV_SHIFT \* 48 in the code

ASSUME RoundingConstants ==
  /\ D \in 1 .. 29 /\ TwoGamma2 \in Nat \ {0} /\ CT_DIV_SHIFT \in Nat
  /\ (Q - 1) % 2^D = 0
  /\ (Q - 1) % TwoGamma2 = 0 /\ TwoGamma2 % 2 = 0

(* "All three of these are greater than sqrt(q)": a residue is below M^2.     *)
ASSUME BarrettModuli == \A M \in {Q, 2^D, TwoGamma2} : M * M > Q

(* "We need SHIFT > log2(Q) + log2(M)". *)
ASSUME DivisionShift == 2^CT_DIV_SHIFT > Q * TwoGamma2

Gamma2 == TwoGamma2 \div 2
-----------------------------------------------------------------------------
once_less(M, x) == IF x < M THEN x ELSE x - M

(* BarrettReduce::reduce for the modulus M. *)
reduce(M, x) ==
  LET unit == BarrettUnit(M)
  IN once_less(M, x - M * ((x * (unit \div M)) \div unit))

(* A broken multiplier, rounded down. *)
ct_div_floor(M, x) == (x * (2^CT_DIV_SHIFT \div M)) \div 2^CT_DIV_SHIFT

(* The multiplier is rounded up. *)
ct_div(M, x) == (x * ((2^CT_DIV_SHIFT + M - 1) \div M)) \div 2^CT_DIV_SHIFT

centered(M, raw_mod) == IF raw_mod > M \div 2 THEN ElemSub(raw_mod, M) ELSE raw_mod
mod_plus_minus(M, x) == centered(M, reduce(M, x))

(* A broken decomposition, without the case of the topmost residues. *)
pair_no_edge(diff, r0) == << ct_div(TwoGamma2, diff), r0 >>

(* The residues that would round up to Q - 1 round to 0 instead. *)
pair(diff, r0) ==
  IF diff = Q - 1 THEN << 0, ElemSub(r0, 1) >> ELSE << ct_div(TwoGamma2, diff), r0 >>

split_at(r, r0) == pair(ElemSub(r, r0), r0)
decompose(r) == split_at(r, mod_plus_minus(TwoGamma2, r))

high_bits(r) == decompose(r)[1]
low_bits(r) == decompose(r)[2]

infinity_norm(x) == IF x > Q \div 2 THEN Q - x ELSE x

rounded(r, r0) == << ElemSub(r, r0) \div 2^D, r0 >>
power2round(r) == rounded(r, mod_plus_minus(2^D, r))
-----------------------------------------------------------------------------
(* Polynomials and vectors, coefficient by coefficient. *)
VecMap(op(_), v) ==
  Array([r \in DOMAIN v |-> Array([i \in Coeff |-> op(v[r][i])])])

VecModPlusMinus(M, v) == VecMap(LAMBDA x : mod_plus_minus(M, x), v)
VecHighBits(v) == VecMap(high_bits, v)
VecLowBits(v) == VecMap(low_bits, v)
VecPower2Round(v) == << VecMap(LAMBDA x : power2round(x)[1], v),
                        VecMap(LAMBDA x : power2round(x)[2], v) >>

largest(S) == CHOOSE n \in S : \A m \in S : m <= n
VecNorm(v) == largest({infinity_norm(v[r][i]) : r \in DOMAIN v, i \in Coeff})
=============================================================================
