------------------------------ MODULE MldsaNtt ------------------------------
(***************************************************************************)
(* ntt.rs of ml-dsa-0.1.1: the number-theoretic transform, its inverse and  *)
(* the table of roots both read.  N is 2^LOGN, 2^8 in the code.             *)
(***************************************************************************)
EXTENDS LatticeAlgebra

CONSTANTS LOGN,
          ZETA,     \* a primitive 2N-th root of unity, 1753 in the code
          INVERSE_N \* INVERSE_256 of the code

(* The packing of coefficients takes them by eights. *)
ASSUME NttConstants ==
  /\ LOGN \in 3 .. 29 /\ N = 2^LOGN
  /\ ZETA \in Elem /\ INVERSE_N \in Elem
  /\ (INVERSE_N * N) % Q = 1

pow == LET p[i \in Coeff] == IF i = 0 THEN 1 ELSE (p[i - 1] * ZETA) % Q IN p

(* What makes ZETA one: its N-th power is -1. *)
ASSUME RootConstant == (pow[N - 1] * ZETA + 1) % Q = 0

bitrev(x) ==
  LET r[b \in 0 .. LOGN] ==
        IF b = 0 THEN 0 ELSE 2 * r[b - 1] + ((x \div 2^(b - 1)) % 2)
  IN r[LOGN]

(* Entry 0 is left as zero: no layer reads it. *)
ZETA_POW_BITREV == Array([i \in Coeff |-> IF i = 0 THEN 0 ELSE pow[bitrev(i)]])

(* A layer takes the coefficients w and the number m of roots consumed.  Its  *)
(* blocks are 2 len long, with one root each; within a block coefficient j    *)
(* meets coefficient j + len.                                                 *)
Low(j, len) == j % (2 * len) < len

(* A broken layer, which reads the roots from the one it was left at. *)
ntt_layer_early(len, s) ==
  LET z(j) == ZETA_POW_BITREV[s.m + j \div (2 * len)]
  IN [w |-> Array([j \in Coeff |-> IF Low(j, len)
                                   THEN ElemAdd(s.w[j], ElemMul(z(j), s.w[j + len]))
                                   ELSE ElemSub(s.w[j - len], ElemMul(z(j), s.w[j]))]),
      m |-> s.m + N \div (2 * len)]

ntt_layer(len, s) ==
  LET z(j) == ZETA_POW_BITREV[s.m + 1 + j \div (2 * len)]
  IN [w |-> Array([j \in Coeff |-> IF Low(j, len)
                                   THEN ElemAdd(s.w[j], ElemMul(z(j), s.w[j + len]))
                                   ELSE ElemSub(s.w[j - len], ElemMul(z(j), s.w[j]))]),
      m |-> s.m + N \div (2 * len)]

(* The roots are consumed downwards, negated. *)
ntt_inverse_layer(len, s) ==
  LET z(j) == ElemNeg(ZETA_POW_BITREV[s.m - 1 - j \div (2 * len)])
  IN [w |-> Array([j \in Coeff |-> IF Low(j, len)
                                   THEN ElemAdd(s.w[j], s.w[j + len])
                                   ELSE ElemMul(z(j), ElemSub(s.w[j - len], s.w[j]))]),
      m |-> s.m - N \div (2 * len)]

(* Layers of half the length each. *)
ntt(f) ==
  LET layers[n \in 0 .. LOGN] ==
        IF n = 0 THEN [w |-> f, m |-> 0] ELSE ntt_layer(2^(LOGN - n), layers[n - 1])
  IN layers[LOGN].w

ntt_inverse(f) ==
  LET layers[n \in 0 .. LOGN] ==
        IF n = 0 THEN [w |-> f, m |-> N] ELSE ntt_inverse_layer(2^(n - 1), layers[n - 1])
  IN PolyScale(INVERSE_N, layers[LOGN].w)

ntt_vec(v) == Array([r \in DOMAIN v |-> ntt(v[r])])
ntt_inverse_vec(v) == Array([r \in DOMAIN v |-> ntt_inverse(v[r])])
=============================================================================
