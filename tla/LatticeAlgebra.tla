--------------------------- MODULE LatticeAlgebra ---------------------------
(***************************************************************************)
(* The algebra of module-lattice-0.2.3: a prime field with Barrett          *)
(* reduction, polynomials and vectors over it, and the NTT-domain products  *)
(* ml-dsa builds on.  An Elem is its integer, an Array a function on its    *)
(* indices 0 .. n - 1.                                                      *)
(*                                                                          *)
(* In the code Q = 8380417 and N = 256.  No sum or product here leaves the  *)
(* integer types of the code, whose widths follow from Q, so none wraps.    *)
(***************************************************************************)
EXTENDS Integers

CONSTANTS Q,   \* the modulus
          N    \* coefficients of a polynomial

(* The code's integers are wider: here every ilog2 is below 30. *)
ASSUME FieldConstants == Q \in Nat /\ Q > 2 /\ Q < 2^30 /\ N \in Nat \ {0}

Coeff == 0 .. N - 1
Elem == 0 .. Q - 1
Polynomial == [Coeff -> Elem]

(* The array of f's values, which is f: to compare it with itself is what has *)
(* TLC evaluate each value once, and not at every use.                        *)
Array(f) == CHOOSE g \in {f} : g = f

(* The number of bits of x, less one. *)
ilog2(x) == CHOOSE k \in 0 .. 29 : 2^k <= x /\ x < 2^(k + 1)
-----------------------------------------------------------------------------
(* A one shifted by the code's SHIFT, which is twice the number of bits of M. *)
BarrettUnit(M) == 2^(ilog2(M) + 1) * 2^(ilog2(M) + 1)
BARRETT_UNIT == BarrettUnit(Q)
BARRETT_MULTIPLIER == BARRETT_UNIT \div Q

small_reduce(x) == IF x >= Q THEN x - Q ELSE x

(* The quotient is short by one at most. *)
barrett_reduce(x) ==
  small_reduce(x - Q * ((x * BARRETT_MULTIPLIER) \div BARRETT_UNIT))

ElemNeg(x) == small_reduce(Q - x)
ElemAdd(x, y) == small_reduce(x + y)
ElemSub(x, y) == small_reduce(x + Q - y)
ElemMul(x, y) == barrett_reduce(x * y)
-----------------------------------------------------------------------------
ZeroPoly == [i \in Coeff |-> 0]

PolyAdd(f, g) == Array([i \in Coeff |-> ElemAdd(f[i], g[i])])
PolySub(f, g) == Array([i \in Coeff |-> ElemSub(f[i], g[i])])
PolyScale(x, f) == Array([i \in Coeff |-> ElemMul(x, f[i])])
PolyNeg(f) == Array([i \in Coeff |-> ElemNeg(f[i])])

VecAdd(v, w) == Array([r \in DOMAIN v |-> PolyAdd(v[r], w[r])])
VecSub(v, w) == Array([r \in DOMAIN v |-> PolySub(v[r], w[r])])
VecScale(x, v) == Array([r \in DOMAIN v |-> PolyScale(x, v[r])])
VecNeg(v) == Array([r \in DOMAIN v |-> PolyNeg(v[r])])
-----------------------------------------------------------------------------
(* The NTT algebra: its elements are added and multiplied coefficient by      *)
(* coefficient.  multiply_ntt is ml-dsa's instance of the trait MultiplyNtt.  *)
NttAdd(f, g) == Array([i \in Coeff |-> ElemAdd(f[i], g[i])])
NttSub(f, g) == Array([i \in Coeff |-> ElemSub(f[i], g[i])])
multiply_ntt(f, g) == Array([i \in Coeff |-> ElemMul(f[i], g[i])])

NttVecSub(v, w) == Array([r \in DOMAIN v |-> NttSub(v[r], w[r])])
NttVecScale(f, v) == Array([r \in DOMAIN v |-> multiply_ntt(f, v[r])])

(* The fold of a dot product, from the first column on. *)
NttDot(v, w) ==
  LET columns == 1 + CHOOSE m \in DOMAIN v : \A i \in DOMAIN v : i <= m
      sum[n \in 0 .. columns] ==
        IF n = 0 THEN ZeroPoly
        ELSE NttAdd(sum[n - 1], multiply_ntt(v[n - 1], w[n - 1]))
  IN sum[columns]

NttMatVec(A, v) == Array([r \in DOMAIN A |-> NttDot(A[r], v)])
=============================================================================
