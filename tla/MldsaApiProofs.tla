--------------------------- MODULE MldsaApiProofs ---------------------------
(***************************************************************************)
(* What the operators of ml-dsa-0.1.1 compute, for any parameter set its    *)
(* assumptions allow: the field, the transforms, rounding and hints, the    *)
(* encodings, the samplers, the keys and one pass of the loop.              *)
(***************************************************************************)
EXTENDS MldsaApi, SequenceTheorems, FiniteSetTheorems, WellFoundedInduction, TLAPS

(* The least element of a set of naturals, for inductions.                    *)
LEMMA LeastElement ==
  ASSUME NEW T, T \subseteq Nat, T # {}
  PROVE  \E x \in T : \A y \in T : x <= y
<1> DEFINE R == OpToRel(<, Nat)
<1>1. \A p, q \in Nat : p < q => << p, q >> \in R
  BY DEF OpToRel
<1> HIDE DEF R
<1>2. PICK x \in T : \A y \in T : << y, x >> \notin R
  BY NatLessThanWellFounded, WFMin DEF R
<1>3. ASSUME NEW y \in T
      PROVE  x <= y
  <2>1. x \in Nat /\ y \in Nat /\ ~(y < x)
    BY <1>1, <1>2
  <2> QED
    BY <2>1
<1> QED
  BY <1>3

LEMMA ArrayIs ==
  ASSUME NEW f
  PROVE  Array(f) = f
BY DEF Array

LEMMA DivMod ==
  ASSUME NEW a \in Nat, NEW b \in Nat \ {0}
  PROVE  a = b * (a \div b) + (a % b) /\ a % b \in 0 .. b - 1 /\ a \div b \in Nat
OBVIOUS

LEMMA DivUnique ==
  ASSUME NEW q \in Nat, NEW b \in Nat \ {0}, NEW r \in 0 .. b - 1
  PROVE  (b * q + r) \div b = q /\ (b * q + r) % b = r
OBVIOUS

LEMMA SmallMod ==
  ASSUME NEW a \in Nat, NEW b \in Nat, a < b
  PROVE  a % b = a
OBVIOUS

LEMMA MulMono ==
  ASSUME NEW a \in Nat, NEW b \in Nat, NEW c \in Nat, a <= b
  PROVE  a * c <= b * c /\ c * a <= c * b
OBVIOUS

LEMMA MulMonoStrict ==
  ASSUME NEW a \in Nat, NEW b \in Nat, NEW c \in Nat \ {0}, a < b
  PROVE  a * c < b * c /\ c * a < c * b
OBVIOUS
-----------------------------------------------------------------------------
(* The powers of two of the exponents that ilog2 ranges over.                 *)
LEMMA PowerTable ==
  /\ 2^0 = 1 /\ 2^1 = 2 /\ 2^2 = 4 /\ 2^3 = 8
  /\ 2^4 = 16 /\ 2^5 = 32 /\ 2^6 = 64 /\ 2^7 = 128
  /\ 2^8 = 256 /\ 2^9 = 512 /\ 2^10 = 1024 /\ 2^11 = 2048
  /\ 2^12 = 4096 /\ 2^13 = 8192 /\ 2^14 = 16384 /\ 2^15 = 32768
  /\ 2^16 = 65536 /\ 2^17 = 131072 /\ 2^18 = 262144 /\ 2^19 = 524288
  /\ 2^20 = 1048576 /\ 2^21 = 2097152 /\ 2^22 = 4194304 /\ 2^23 = 8388608
  /\ 2^24 = 16777216 /\ 2^25 = 33554432 /\ 2^26 = 67108864 /\ 2^27 = 134217728
  /\ 2^28 = 268435456 /\ 2^29 = 536870912 /\ 2^30 = 1073741824
BY SMT

LEMMA Powers ==
  ASSUME NEW k \in 0 .. 29
  PROVE  2^k \in Nat \ {0} /\ 2^(k + 1) \in Nat /\ 2^(k + 1) = 2 * 2^k
<1>1. CASE k = 0 /\ k + 1 = 1
  BY <1>1, PowerTable, SMT
<1>2. CASE k = 1 /\ k + 1 = 2
  BY <1>2, PowerTable, SMT
<1>3. CASE k = 2 /\ k + 1 = 3
  BY <1>3, PowerTable, SMT
<1>4. CASE k = 3 /\ k + 1 = 4
  BY <1>4, PowerTable, SMT
<1>5. CASE k = 4 /\ k + 1 = 5
  BY <1>5, PowerTable, SMT
<1>6. CASE k = 5 /\ k + 1 = 6
  BY <1>6, PowerTable, SMT
<1>7. CASE k = 6 /\ k + 1 = 7
  BY <1>7, PowerTable, SMT
<1>8. CASE k = 7 /\ k + 1 = 8
  BY <1>8, PowerTable, SMT
<1>9. CASE k = 8 /\ k + 1 = 9
  BY <1>9, PowerTable, SMT
<1>10. CASE k = 9 /\ k + 1 = 10
  BY <1>10, PowerTable, SMT
<1>11. CASE k = 10 /\ k + 1 = 11
  BY <1>11, PowerTable, SMT
<1>12. CASE k = 11 /\ k + 1 = 12
  BY <1>12, PowerTable, SMT
<1>13. CASE k = 12 /\ k + 1 = 13
  BY <1>13, PowerTable, SMT
<1>14. CASE k = 13 /\ k + 1 = 14
  BY <1>14, PowerTable, SMT
<1>15. CASE k = 14 /\ k + 1 = 15
  BY <1>15, PowerTable, SMT
<1>16. CASE k = 15 /\ k + 1 = 16
  BY <1>16, PowerTable, SMT
<1>17. CASE k = 16 /\ k + 1 = 17
  BY <1>17, PowerTable, SMT
<1>18. CASE k = 17 /\ k + 1 = 18
  BY <1>18, PowerTable, SMT
<1>19. CASE k = 18 /\ k + 1 = 19
  BY <1>19, PowerTable, SMT
<1>20. CASE k = 19 /\ k + 1 = 20
  BY <1>20, PowerTable, SMT
<1>21. CASE k = 20 /\ k + 1 = 21
  BY <1>21, PowerTable, SMT
<1>22. CASE k = 21 /\ k + 1 = 22
  BY <1>22, PowerTable, SMT
<1>23. CASE k = 22 /\ k + 1 = 23
  BY <1>23, PowerTable, SMT
<1>24. CASE k = 23 /\ k + 1 = 24
  BY <1>24, PowerTable, SMT
<1>25. CASE k = 24 /\ k + 1 = 25
  BY <1>25, PowerTable, SMT
<1>26. CASE k = 25 /\ k + 1 = 26
  BY <1>26, PowerTable, SMT
<1>27. CASE k = 26 /\ k + 1 = 27
  BY <1>27, PowerTable, SMT
<1>28. CASE k = 27 /\ k + 1 = 28
  BY <1>28, PowerTable, SMT
<1>29. CASE k = 28 /\ k + 1 = 29
  BY <1>29, PowerTable, SMT
<1>30. CASE k = 29 /\ k + 1 = 30
  BY <1>30, PowerTable, SMT
<1> QED
  BY <1>1, <1>2, <1>3, <1>4, <1>5, <1>6, <1>7, <1>8, <1>9, <1>10, <1>11, <1>12, <1>13, <1>14, <1>15, <1>16, <1>17, <1>18, <1>19, <1>20, <1>21, <1>22, <1>23, <1>24, <1>25, <1>26, <1>27, <1>28, <1>29, <1>30, SMT
-----------------------------------------------------------------------------
LEMMA Log2 ==
  ASSUME NEW x \in Nat \ {0}, x < 2^30
  PROVE  ilog2(x) \in 0 .. 29 /\ 2^ilog2(x) <= x /\ x < 2^(ilog2(x) + 1)
<1> DEFINE T == {k \in 0 .. 29 : x < 2^(k + 1)}
<1>1. 29 \in T
  BY SMT
<1>2. PICK k \in T : \A j \in T : k <= j
  <2>1. T \subseteq Nat
    OBVIOUS
  <2> HIDE DEF T
  <2> QED
    BY <1>1, <2>1, LeastElement
<1>3. k \in 0 .. 29 /\ x < 2^(k + 1)
  OBVIOUS
<1>4. 2^k <= x
  <2>1. CASE k = 0
    BY <2>1, PowerTable, SMT
  <2>2. CASE k # 0
    <3>1. k - 1 \in 0 .. 29 /\ (k - 1) + 1 = k /\ ~(k <= k - 1)
      BY <2>2, <1>3
    <3>2. ~(x < 2^((k - 1) + 1))
      BY <3>1, <1>2
    <3>3. 2^k \in Nat
      BY <1>3, Powers
    <3> QED
      BY <3>1, <3>2, <3>3
  <2> QED
    BY <2>1, <2>2
<1>5. \E n \in 0 .. 29 : 2^n <= x /\ x < 2^(n + 1)
  BY <1>3, <1>4
<1> QED
  BY <1>5, Zenon DEF ilog2

LEMMA BarrettUnitAbove ==
  ASSUME NEW M \in Nat \ {0}, M < 2^30
  PROVE  BarrettUnit(M) \in Nat /\ BarrettUnit(M) > M * M
<1> DEFINE w == 2^(ilog2(M) + 1)
<1>1. w \in Nat /\ M < w
  BY Log2, Powers
<1>2. BarrettUnit(M) = w * w
  BY DEF BarrettUnit
<1> HIDE DEF w
<1>3. M * M < w * M /\ w * M <= w * w
  BY <1>1, MulMono, MulMonoStrict
<1>4. w * w \in Nat /\ w * M \in Nat /\ M * M \in Nat
  BY <1>1
<1> QED
  BY <1>2, <1>3, <1>4

(* The quotient by the rounded reciprocal is short by one at most: what is    *)
(* left of a number below M^2 is below 2 M.                                   *)
LEMMA BarrettQuotient ==
  ASSUME NEW M \in Nat \ {0}, NEW U \in Nat, U > M * M,
         NEW x \in Nat, x < M * M
  PROVE  /\ (x * (U \div M)) \div U \in Nat
         /\ x - M * ((x * (U \div M)) \div U) \in 0 .. 2 * M - 1
<1> DEFINE m == U \div M
           e == U % M
           h == (x * m) \div U
           f == (x * m) % U
           y == x - M * h
<1>1. M * M \in Nat /\ U \in Nat \ {0}
  OBVIOUS
<1>2. m \in Nat /\ e \in 0 .. M - 1 /\ U = M * m + e
  BY <1>1, DivMod
<1>3. x * m \in Nat
  BY <1>2
<1>4. h \in Nat /\ f \in 0 .. U - 1 /\ x * m = U * h + f
  BY <1>1, <1>3, DivMod
<1> HIDE DEF m, e, h, f
<1>5. y \in Int
  BY <1>4
<1>6. U * y = M * f + x * e
  <2>1. U * y = U * x - U * (M * h)
    BY <1>4
  <2>2. U * x = M * (x * m) + x * e
    BY <1>2
  <2>3. M * (x * m) = U * (M * h) + M * f
    BY <1>4
  <2> QED
    BY <2>1, <2>2, <2>3, <1>4, <1>2
<1>7. M * f \in Nat /\ M * f < M * U
  BY <1>1, <1>4, MulMonoStrict
<1>8. x * e \in Nat /\ x * e < M * U
  <2>1. x * e <= x * M
    BY <1>2, MulMono
  <2>2. x * M < U * M
    BY <1>1, MulMonoStrict
  <2>3. x * e \in Nat /\ x * M \in Nat /\ U * M = M * U
    BY <1>1, <1>2
  <2> QED
    BY <2>1, <2>2, <2>3
<1> HIDE DEF y
<1>9. U * y >= 0 /\ U * y < U * (2 * M)
  BY <1>1, <1>6, <1>7, <1>8
<1>10. y >= 0
  <2>1. CASE y < 0
    <3>1. -y \in Nat \ {0}
      BY <1>5, <2>1
    <3>2. U * (-y) > 0
      BY <3>1, <1>1
    <3>3. U * (-y) = -(U * y)
      BY <1>1, <1>5
    <3> QED
      BY <3>2, <3>3, <1>9, <1>1, <1>5
  <2> QED
    BY <2>1, <1>5
<1>11. y < 2 * M
  <2>1. CASE 2 * M <= y
    <3>1. U * (2 * M) <= U * y
      BY <1>1, <1>5, <1>10, <2>1, MulMono
    <3> QED
      BY <3>1, <1>1, <1>5, <1>9
  <2> QED
    BY <2>1, <1>5
<1>12. y \in 0 .. 2 * M - 1
  BY <1>5, <1>10, <1>11
<1> QED
  BY <1>4, <1>12 DEF y, h, m

(* BarrettReduce::reduce is the remainder, of any number below M^2.           *)
LEMMA ReduceExact ==
  ASSUME NEW M \in Nat \ {0}, M < 2^30, NEW x \in Nat, x < M * M
  PROVE  reduce(M, x) = x % M
<1> DEFINE U == BarrettUnit(M)
           h == (x * (U \div M)) \div U
           y == x - M * h
<1>1. U \in Nat /\ U > M * M
  BY BarrettUnitAbove
<1>2. h \in Nat /\ y \in 0 .. 2 * M - 1
  <2> HIDE DEF U
  <2> QED
    BY <1>1, BarrettQuotient
<1>3. reduce(M, x) = once_less(M, y)
  BY DEF reduce
<1> HIDE DEF h, U
<1>4. CASE y < M
  <2>1. y \in 0 .. M - 1 /\ x = M * h + y
    BY <1>2, <1>4
  <2>2. x % M = y
    <3> HIDE DEF y
    <3> QED
      BY <1>2, <2>1, DivUnique
  <2> QED
    BY <1>3, <1>4, <2>2 DEF once_less
<1>5. CASE ~(y < M)
  <2> DEFINE z == y - M
  <2>1. z \in 0 .. M - 1 /\ x = M * (h + 1) + z /\ h + 1 \in Nat
    BY <1>2, <1>5
  <2>2. x % M = z
    <3> HIDE DEF z, y
    <3> QED
      BY <2>1, DivUnique
  <2> QED
    BY <1>3, <1>5, <2>2 DEF once_less
<1> QED
  BY <1>4, <1>5
-----------------------------------------------------------------------------
(* The roundings.  Both moduli divide Q - 1.                                  *)
RoundingModulus(M) ==
  /\ M \in Nat \ {0} /\ M < Q /\ M < 2^30 /\ Q < M * M
  /\ M % 2 = 0 /\ (Q - 1) % M = 0

LEMMA Field ==
  Q \in Nat /\ Q > 2 /\ Q < 2^30 /\ N \in Nat \ {0}
BY FieldConstants

LEMMA Moduli ==
  RoundingModulus(TwoGamma2) /\ RoundingModulus(2^D)
<1>1. /\ D \in 1 .. 29 /\ TwoGamma2 \in Nat \ {0} /\ CT_DIV_SHIFT \in Nat
      /\ (Q - 1) % 2^D = 0
      /\ (Q - 1) % TwoGamma2 = 0 /\ TwoGamma2 % 2 = 0
  BY RoundingConstants
<1>2. Q < TwoGamma2 * TwoGamma2 /\ Q < 2^D * 2^D
  <2>1. TwoGamma2 * TwoGamma2 > Q /\ 2^D * 2^D > Q
    BY BarrettModuli, Zenon
  <2>2. 2^D \in Nat
    <3>1. D \in 0 .. 29
      BY <1>1
    <3> QED
      BY <3>1, Powers
  <2>3. TwoGamma2 * TwoGamma2 \in Nat /\ 2^D * 2^D \in Nat /\ Q \in Nat
    BY <1>1, <2>2, Field
  <2> QED
    BY <2>1, <2>3
<1>3. 2^D \in Nat \ {0} /\ 2^D % 2 = 0
  <2>1. D - 1 \in 0 .. 29 /\ (D - 1) + 1 = D /\ D \in 0 .. 29
    BY <1>1
  <2>2. 2^D = 2 * 2^(D - 1) /\ 2^(D - 1) \in Nat /\ 2^D \in Nat \ {0}
    BY <2>1, Powers
  <2> QED
    BY <2>2
<1>4. ASSUME NEW M \in Nat \ {0}, (Q - 1) % M = 0
      PROVE  M < Q /\ M < 2^30
  <2>1. CASE Q - 1 < M
    <3>1. Q - 1 \in Nat /\ Q - 1 # 0
      BY Field
    <3>2. (Q - 1) % M = Q - 1
      BY <2>1, <3>1, SmallMod
    <3> QED
      BY <1>4, <3>1, <3>2
  <2>2. CASE M <= Q - 1
    <3>1. M < Q
      BY <2>2, Field
    <3>2. 2^30 = 1073741824
      BY PowerTable
    <3> QED
      BY <3>1, <3>2, Field
  <2> QED
    BY <2>1, <2>2, Field
<1> QED
  BY <1>1, <1>2, <1>3, <1>4 DEF RoundingModulus

LEMMA ModPlusMinus ==
  ASSUME NEW M, RoundingModulus(M), NEW x \in Elem
  PROVE  mod_plus_minus(M, x) = IF x % M > M \div 2 THEN Q + (x % M) - M ELSE x % M
<1>1. M \in Nat \ {0} /\ M < Q /\ M < 2^30 /\ Q < M * M
  BY DEF RoundingModulus
<1>2. x \in Nat /\ x < M * M /\ Q \in Nat
  <2>1. x \in Nat /\ x < Q /\ Q \in Nat /\ M * M \in Nat
    BY <1>1, Field DEF Elem
  <2> QED
    BY <1>1, <2>1
<1>3. reduce(M, x) = x % M
  BY <1>1, <1>2, ReduceExact
<1>4. x % M \in 0 .. M - 1
  BY <1>1, <1>2, DivMod
<1> QED
  BY <1>1, <1>2, <1>3, <1>4 DEF mod_plus_minus, centered, ElemSub, small_reduce

(* Division by the reciprocal rounded up is exact on every residue.           *)
LEMMA CtDivExact ==
  ASSUME NEW x \in Elem
  PROVE  ct_div(TwoGamma2, x) = x \div TwoGamma2
<1> DEFINE M == TwoGamma2
           E == 2^CT_DIV_SHIFT
           c == (E + M - 1) \div M
           e == M * c - E
           q == x \div M
           r == x % M
<1>1. M \in Nat \ {0} /\ E \in Nat /\ E > Q * M
  <2>1. M \in Nat \ {0} /\ E \in Int
    BY RoundingConstants, SMT
  <2>2. E > Q * M
    BY DivisionShift
  <2>3. Q * M \in Nat
    BY <2>1, Field
  <2> QED
    BY <2>1, <2>2, <2>3
<1>2. x \in Nat /\ x < Q /\ Q \in Nat
  BY Field DEF Elem
<1>3. q \in Nat /\ r \in 0 .. M - 1 /\ x = M * q + r
  BY <1>1, <1>2, DivMod
<1> HIDE DEF M, E, q, r
<1>4. c \in Nat /\ e \in 0 .. M - 1
  <2>1. E + M - 1 \in Nat
    BY <1>1
  <2>2. c \in Nat /\ E + M - 1 = M * c + ((E + M - 1) % M) /\ (E + M - 1) % M \in 0 .. M - 1
    BY <1>1, <2>1, DivMod
  <2>3. M * c \in Nat
    BY <1>1, <2>2
  <2> QED
    BY <1>1, <2>2, <2>3
<1>5. E + e = M * c
  <2>1. M * c \in Int
    BY <1>1, <1>4
  <2> QED
    BY <1>1, <2>1
<1> HIDE DEF c, e
<1> DEFINE g == x * c - E * q
<1>6. g \in Int
  BY <1>1, <1>2, <1>3, <1>4
<1>7. M * g = r * E + x * e
  <2>1. M * g = x * (M * c) - E * (M * q)
    BY <1>1, <1>2, <1>3, <1>4
  <2>2. x * (M * c) = x * E + x * e
    BY <1>5, <1>1, <1>2, <1>4
  <2>3. x * E = E * (M * q) + r * E
    BY <1>1, <1>3
  <2> QED
    BY <2>1, <2>2, <2>3, <1>1, <1>2, <1>3, <1>4
<1>8. r * E + x * e \in Nat /\ r * E + x * e < M * E
  <2>1. r * E <= (M - 1) * E
    BY <1>1, <1>3, MulMono
  <2>2. x * e <= Q * M
    <3>1. x * e <= x * M
      BY <1>1, <1>2, <1>4, MulMono
    <3>2. x * M <= Q * M
      BY <1>1, <1>2, MulMono
    <3>3. x * e \in Nat /\ x * M \in Nat /\ Q * M \in Nat
      BY <1>1, <1>2, <1>4
    <3> QED
      BY <3>1, <3>2, <3>3
  <2>3. (M - 1) * E = M * E - E
    BY <1>1
  <2>4. r * E \in Nat /\ x * e \in Nat /\ M * E \in Nat /\ Q * M \in Nat
    BY <1>1, <1>2, <1>3, <1>4
  <2> QED
    BY <1>1, <2>1, <2>2, <2>3, <2>4
<1> HIDE DEF g
<1>9. g \in 0 .. E - 1
  <2>1. g >= 0
    <3>1. CASE g < 0
      <4>1. -g \in Nat \ {0}
        BY <1>6, <3>1
      <4>2. M * (-g) > 0
        BY <4>1, <1>1
      <4>3. M * (-g) = -(M * g)
        BY <1>1, <1>6
      <4> QED
        BY <4>2, <4>3, <1>7, <1>8, <1>1, <1>6
    <3> QED
      BY <3>1, <1>6
  <2>2. g < E
    <3>1. CASE E <= g
      <4>1. M * E <= M * g
        BY <1>1, <1>6, <2>1, <3>1, MulMono
      <4> QED
        BY <4>1, <1>1, <1>6, <1>7, <1>8
    <3> QED
      BY <3>1, <1>1, <1>6
  <2> QED
    BY <1>1, <1>6, <2>1, <2>2
<1>10. x * c = E * q + g
  <2>1. x * c \in Int /\ E * q \in Int
    BY <1>1, <1>2, <1>3, <1>4
  <2> QED
    BY <2>1 DEF g
<1>11. E \in Nat \ {0}
  <2>1. Q * M \in Nat
    BY <1>1, <1>2
  <2> QED
    BY <2>1, <1>1
<1>12. (x * c) \div E = q
  BY <1>3, <1>9, <1>10, <1>11, DivUnique
<1> QED
  BY <1>12 DEF ct_div, M, E, c, q
-----------------------------------------------------------------------------
Buckets == (Q - 1) \div TwoGamma2

LEMMA Gammas ==
  /\ Gamma2 \in Nat \ {0} /\ TwoGamma2 = 2 * Gamma2 /\ TwoGamma2 \in Nat \ {0}
  /\ Buckets \in Nat \ {0} /\ Q = TwoGamma2 * Buckets + 1
  /\ Q \in Nat /\ TwoGamma2 < Q
<1> DEFINE M == TwoGamma2
<1>1. M \in Nat \ {0} /\ M < Q /\ M % 2 = 0 /\ (Q - 1) % M = 0
  BY Moduli DEF RoundingModulus
<1>2. Q \in Nat /\ Q - 1 \in Nat
  BY Field
<1>3. Gamma2 \in Nat \ {0} /\ M = 2 * Gamma2
  BY <1>1 DEF Gamma2
<1>4. Buckets \in Nat /\ Q - 1 = M * Buckets + ((Q - 1) % M)
  BY <1>1, <1>2, DivMod DEF Buckets
<1>5. M * Buckets \in Nat
  BY <1>1, <1>4
<1>6. Q = M * Buckets + 1
  BY <1>1, <1>2, <1>4, <1>5
<1>7. Buckets # 0
  <2>1. CASE Buckets = 0
    <3>1. M * 0 = 0
      BY <1>1
    <3> QED
      BY <1>1, <1>2, <1>6, <2>1, <3>1
  <2> QED
    BY <2>1
<1> QED
  BY <1>1, <1>2, <1>3, <1>4, <1>6, <1>7

(* A residue in its bucket: t counts half-open intervals of length 2 gamma2   *)
(* around the multiples of 2 gamma2, from the one of 0 to the one of Q - 1.   *)
InBucket(x, t, u) ==
  /\ t \in 0 .. Buckets /\ u \in 1 - Gamma2 .. Gamma2
  /\ x = TwoGamma2 * t + u

LEMMA BucketOf ==
  ASSUME NEW x \in Elem
  PROVE  \E t, u : InBucket(x, t, u)
<1> DEFINE M == TwoGamma2
           q == x \div M
           r == x % M
<1>1. x \in Nat /\ x <= M * Buckets
  <2>1. x \in Nat /\ x <= Q - 1
    BY Gammas DEF Elem
  <2>2. M * Buckets \in Nat
    BY Gammas
  <2> QED
    BY <2>1, <2>2, Gammas
<1>2. q \in Nat /\ r \in 0 .. M - 1 /\ x = M * q + r
  BY <1>1, Gammas, DivMod
<1> HIDE DEF q, r
<1>3. q <= Buckets
  <2>1. CASE Buckets + 1 <= q
    <3>1. M * (Buckets + 1) <= M * q
      BY <2>1, <1>2, Gammas, MulMono
    <3>2. M * (Buckets + 1) = M * Buckets + M
      BY Gammas
    <3>3. M * q \in Nat /\ M * Buckets \in Nat
      BY <1>2, Gammas
    <3> QED
      BY <3>1, <3>2, <3>3, <1>1, <1>2, Gammas
  <2> QED
    BY <2>1, <1>2, Gammas
<1>4. CASE r <= Gamma2
  <2>1. InBucket(x, q, r)
    BY <1>2, <1>3, <1>4, Gammas DEF InBucket
  <2> QED
    BY <2>1
<1>5. CASE ~(r <= Gamma2)
  <2>1. q # Buckets
    <3>1. M * q \in Nat
      BY <1>2, Gammas
    <3> QED
      BY <1>1, <1>2, <1>5, <3>1, Gammas
  <2>2. q + 1 \in 0 .. Buckets /\ r - M \in 1 - Gamma2 .. Gamma2
    BY <1>2, <1>3, <1>5, <2>1, Gammas
  <2>3. x = M * (q + 1) + (r - M)
    <3>1. M * (q + 1) = M * q + M /\ M * q \in Nat
      BY <1>2, Gammas
    <3> QED
      BY <3>1, <1>2, Gammas
  <2>4. InBucket(x, q + 1, r - M)
    BY <2>2, <2>3 DEF InBucket
  <2> QED
    BY <2>4
<1> QED
  BY <1>4, <1>5

(* decompose finds the bucket; the topmost half bucket goes with the first.   *)
LEMMA DecomposeIs ==
  ASSUME NEW x \in Elem, NEW t, NEW u, InBucket(x, t, u)
  PROVE  decompose(x) = IF t = Buckets THEN << 0, Q + u - 1 >>
                        ELSE << t, IF u < 0 THEN Q + u ELSE u >>
<1> DEFINE M == TwoGamma2
           y == M * t
<1>1. /\ t \in 0 .. Buckets /\ u \in 1 - Gamma2 .. Gamma2 /\ x = y + u
      /\ y \in Nat /\ x \in Nat /\ x <= Q - 1
  BY Gammas DEF InBucket, Elem
<1>2. y <= Q - 1 /\ (y = Q - 1 <=> t = Buckets)
  <2>1. y <= M * Buckets
    BY <1>1, Gammas, MulMono
  <2>2. t < Buckets => y < M * Buckets
    BY <1>1, Gammas, MulMonoStrict
  <2>3. M * Buckets \in Nat /\ M * Buckets = Q - 1
    BY Gammas
  <2>4. t = Buckets => y = M * Buckets
    OBVIOUS
  <2>5. Q \in Nat /\ Buckets \in Nat
    BY Gammas
  <2> HIDE DEF y, M
  <2> QED
    BY <1>1, <2>1, <2>2, <2>3, <2>4, <2>5
<1>3. mod_plus_minus(M, x) = IF u < 0 THEN Q + u ELSE u
  <2>1. mod_plus_minus(M, x) = IF x % M > M \div 2 THEN Q + (x % M) - M ELSE x % M
    BY Moduli, ModPlusMinus
  <2>2. M \div 2 = Gamma2
    BY DEF Gamma2
  <2>3. CASE u >= 0
    <3>1. u \in 0 .. M - 1
      BY <1>1, <2>3, Gammas
    <3>2. x = M * t + u /\ t \in Nat /\ M \in Nat \ {0}
      BY <1>1, Gammas
    <3>3. x % M = u
      <4> HIDE DEF M, y
      <4> QED
        BY <3>1, <3>2, DivUnique
    <3> QED
      BY <1>1, <2>1, <2>2, <2>3, <3>3, Gammas
  <2>4. CASE u < 0
    <3>1. t # 0
      <4>1. M * 0 = 0
        BY Gammas
      <4> QED
        BY <1>1, <2>4, <4>1
    <3>2. M + u \in 0 .. M - 1 /\ t - 1 \in Nat /\ M + u > Gamma2
      BY <1>1, <2>4, <3>1, Gammas
    <3>3. x = M * (t - 1) + (M + u)
      BY <1>1, Gammas
    <3>4. x % M = M + u
      BY <3>2, <3>3, Gammas, DivUnique
    <3> QED
      BY <1>1, <2>1, <2>2, <2>4, <3>2, <3>4, Gammas
  <2> QED
    BY <1>1, <2>3, <2>4
<1> DEFINE r0 == IF u < 0 THEN Q + u ELSE u
<1>4. decompose(x) = pair(ElemSub(x, r0), r0)
  BY <1>3 DEF decompose, split_at
<1> HIDE DEF y
<1>5. ElemSub(x, r0) = y
  BY <1>1, <1>2, Gammas DEF ElemSub, small_reduce
<1>6. CASE t = Buckets
  <2>1. y = Q - 1 /\ u <= 0
    BY <1>1, <1>2, <1>6, Gammas
  <2>2. ElemSub(r0, 1) = Q + u - 1
    BY <1>1, <2>1, Gammas DEF ElemSub, small_reduce
  <2>3. pair(y, r0) = << 0, ElemSub(r0, 1) >>
    BY <2>1 DEF pair
  <2> QED
    BY <1>4, <1>5, <1>6, <2>2, <2>3
<1>7. CASE t # Buckets
  <2>1. ct_div(M, y) = t
    <3>1. y \in Elem
      BY <1>1, <1>2, Gammas DEF Elem
    <3>2. ct_div(M, y) = y \div M
      BY <3>1, CtDivExact
    <3>3. y = M * t + 0 /\ 0 \in 0 .. M - 1 /\ t \in Nat
      BY <1>1, Gammas DEF y
    <3>4. y \div M = t
      BY <3>3, Gammas, DivUnique
    <3> QED
      BY <3>2, <3>4
  <2>2. pair(y, r0) = << ct_div(M, y), r0 >>
    BY <1>2, <1>7 DEF pair
  <2> QED
    BY <1>4, <1>5, <1>7, <2>1, <2>2
<1> QED
  BY <1>6, <1>7

LEMMA HighLow ==
  ASSUME NEW x \in Elem, NEW t, NEW u, InBucket(x, t, u)
  PROVE  /\ high_bits(x) = IF t = Buckets THEN 0 ELSE t
         /\ low_bits(x) = IF t = Buckets THEN Q + u - 1 ELSE IF u < 0 THEN Q + u ELSE u
BY DecomposeIs DEF high_bits, low_bits

-----------------------------------------------------------------------------
(* Hints.  In its upper half a bucket's neighbour is the next one, in its     *)
(* lower half the one before.                                                 *)
LEMMA UseHintIs ==
  ASSUME NEW r \in Elem, NEW t, NEW u, InBucket(r, t, u)
  PROVE  /\ use_hint(FALSE, r) = high_bits(r)
         /\ t # Buckets /\ u > 0 => use_hint(TRUE, r) = (t + 1) % Buckets
         /\ t # Buckets /\ u <= 0 => use_hint(TRUE, r) = (t + Buckets - 1) % Buckets
         /\ t = Buckets => use_hint(TRUE, r) = Buckets - 1
<1>1. t \in 0 .. Buckets /\ u \in 1 - Gamma2 .. Gamma2
  BY DEF InBucket
<1>2. use_hint(FALSE, r) = high_bits(r)
  BY DEF use_hint, with_hint, high_bits
<1>3. use_hint(TRUE, r) = adjust(decompose(r)[1], decompose(r)[2], Buckets) % Buckets
  BY DEF use_hint, with_hint, Buckets
<1>4. CASE t # Buckets
  <2>1. /\ decompose(r)[1] = t
        /\ decompose(r)[2] = IF u < 0 THEN Q + u ELSE u
    BY <1>4, DecomposeIs
  <2>2. CASE u > 0
    <3>1. adjust(t, u, Buckets) = t + 1
      BY <1>1, <2>2, Gammas DEF adjust
    <3>2. decompose(r)[2] = u /\ ~(u <= 0)
      BY <1>1, <2>1, <2>2
    <3>3. use_hint(TRUE, r) = (t + 1) % Buckets
      BY <1>3, <2>1, <3>1, <3>2, Zenon
    <3> QED
      BY <1>2, <1>4, <3>2, <3>3, Zenon
  <2>3. CASE u <= 0
    <3>1. adjust(t, IF u < 0 THEN Q + u ELSE u, Buckets) = t + Buckets - 1
      BY <1>1, <2>3, Gammas DEF adjust
    <3>2. ~(u > 0)
      BY <1>1, <2>3
    <3>3. use_hint(TRUE, r) = (t + Buckets - 1) % Buckets
      BY <1>3, <2>1, <3>1, Zenon
    <3> QED
      BY <1>2, <1>4, <3>2, <3>3, Zenon
  <2>4. u > 0 \/ u <= 0
    BY <1>1, Gammas
  <2> QED
    BY <2>2, <2>3, <2>4, Zenon
<1>5. CASE t = Buckets
  <2>1. decompose(r)[1] = 0 /\ decompose(r)[2] = Q + u - 1
    BY <1>5, DecomposeIs
  <2>2. adjust(0, Q + u - 1, Buckets) = 0 + Buckets - 1
    BY <1>1, Gammas DEF adjust
  <2>3. (0 + Buckets - 1) % Buckets = Buckets - 1
    <3>1. Buckets - 1 \in Nat /\ Buckets - 1 < Buckets /\ Buckets \in Nat
      BY Gammas
    <3>2. (Buckets - 1) % Buckets = Buckets - 1
      BY <3>1, SmallMod
    <3> QED
      BY <3>1, <3>2
  <2> QED
    BY <1>2, <1>3, <1>5, <2>1, <2>2, <2>3
<1> QED
  BY <1>4, <1>5

(* Residues closer than gamma2, around the ring, have the same high bits or   *)
(* those that the hint gives.                                                 *)
LEMMA Neighbours ==
  ASSUME NEW x \in Elem, NEW r \in Elem, NEW s \in 1 - Gamma2 .. Gamma2 - 1,
         x \in {r + s, r + s + Q, r + s - Q}
  PROVE  high_bits(x) = high_bits(r) \/ high_bits(x) = use_hint(TRUE, r)
<1> DEFINE M == TwoGamma2
<1>1. PICK t, u : InBucket(r, t, u)
  BY BucketOf
<1>2. t \in 0 .. Buckets /\ u \in 1 - Gamma2 .. Gamma2 /\ r = M * t + u
  BY <1>1 DEF InBucket
<1>3. /\ x \in Nat /\ x <= Q - 1 /\ r \in Nat /\ r <= Q - 1
      /\ M * t \in Nat /\ M * Buckets \in Nat /\ Q = M * Buckets + 1
  BY <1>2, Gammas DEF Elem
<1>4. M * (t + 1) = M * t + M /\ M * (t - 1) = M * t - M
  BY <1>2, Gammas
<1>5. M * 0 = 0 /\ M * (Buckets - 1) = M * Buckets - M
  BY Gammas
<1>6. t # Buckets => t + 1 <= Buckets /\ M * (t + 1) <= M * Buckets
  <2>1. CASE t # Buckets
    <3>1. t + 1 <= Buckets /\ t + 1 \in Nat
      BY <1>2, <2>1, Gammas
    <3> QED
      BY <3>1, Gammas, MulMono
  <2> QED
    BY <2>1
<1>7. t # 0 => t - 1 \in 0 .. Buckets /\ t - 1 # Buckets /\ M <= M * t
  <2>1. CASE t # 0
    <3>1. 1 <= t /\ t \in Nat /\ 1 \in Nat
      BY <1>2, <2>1
    <3>2. M * 1 <= M * t
      BY <3>1, Gammas, MulMono
    <3> QED
      BY <1>2, <3>1, <3>2, Gammas
  <2> QED
    BY <2>1
<1>8. /\ t # Buckets /\ u > 0 => use_hint(TRUE, r) = (t + 1) % Buckets
      /\ t # Buckets /\ u <= 0 => use_hint(TRUE, r) = (t + Buckets - 1) % Buckets
      /\ t = Buckets => use_hint(TRUE, r) = Buckets - 1
      /\ high_bits(r) = IF t = Buckets THEN 0 ELSE t
  BY <1>1, UseHintIs, HighLow
<1> DEFINE At(k, v) == k \in 0 .. Buckets /\ v \in 1 - Gamma2 .. Gamma2 /\ x = M * k + v
<1>9. ASSUME NEW k, NEW v, At(k, v)
      PROVE  high_bits(x) = IF k = Buckets THEN 0 ELSE k
  BY <1>9, HighLow DEF InBucket
<1> HIDE DEF M, At
<1>10. CASE t # Buckets /\ x = r + s
  <2>1. CASE u + s \in 1 - Gamma2 .. Gamma2
    <3>1. At(t, u + s)
      BY <1>2, <1>3, <1>10, <2>1 DEF At
    <3> QED
      BY <1>8, <1>9, <1>10, <3>1
  <2>2. CASE u + s > Gamma2
    <3>1. At(t + 1, u + s - M)
      BY <1>2, <1>3, <1>4, <1>6, <1>10, <2>2, Gammas DEF At, M
    <3>2. high_bits(x) = IF t + 1 = Buckets THEN 0 ELSE t + 1
      BY <1>9, <3>1
    <3>3. u > 0
      BY <1>2, <2>2, Gammas
    <3>4. (t + 1) % Buckets = IF t + 1 = Buckets THEN 0 ELSE t + 1
      BY <1>2, <1>6, <1>10, Gammas
    <3> QED
      BY <1>8, <1>10, <3>2, <3>3, <3>4
  <2>3. CASE u + s < 1 - Gamma2
    <3>1. t # 0 /\ u <= 0
      BY <1>2, <1>3, <1>5, <1>10, <2>3, Gammas
    <3>2. At(t - 1, u + s + M)
      BY <1>2, <1>3, <1>4, <1>7, <1>10, <2>3, <3>1, Gammas DEF At, M
    <3>3. high_bits(x) = t - 1
      BY <1>7, <1>9, <3>1, <3>2
    <3>4. (t + Buckets - 1) % Buckets = t - 1
      <4>1. t - 1 \in 0 .. Buckets - 1 /\ 1 \in Nat /\ t + Buckets - 1 = Buckets * 1 + (t - 1)
        BY <1>2, <1>7, <1>10, <3>1, Gammas
      <4> QED
        BY <4>1, Gammas, DivUnique
    <3> QED
      BY <1>8, <1>10, <3>1, <3>3, <3>4
  <2>4. \/ u + s \in 1 - Gamma2 .. Gamma2 \/ u + s > Gamma2
        \/ u + s < 1 - Gamma2
    BY <1>2, Gammas
  <2> QED
    BY <2>1, <2>2, <2>3, <2>4, Zenon
<1>11. CASE t # Buckets /\ x = r + s + Q
  <2>1. t = 0 /\ u + s + 1 \in 1 - Gamma2 .. 0
    BY <1>2, <1>3, <1>5, <1>7, <1>11, Gammas DEF M
  <2>2. At(Buckets, u + s + 1)
    BY <1>2, <1>3, <1>5, <1>11, <2>1, Gammas DEF At
  <2>3. high_bits(x) = 0
    BY <1>9, <2>2
  <2> QED
    BY <1>8, <1>11, <2>1, <2>3
<1>12. ~(t # Buckets /\ x = r + s - Q)
  BY <1>2, <1>3, <1>4, <1>6, Gammas DEF M
<1>13. CASE t = Buckets /\ x = r + s
  <2>1. CASE u + s >= 1 - Gamma2
    <3>1. At(t, u + s)
      BY <1>2, <1>3, <1>13, <2>1, Gammas DEF At
    <3> QED
      BY <1>8, <1>9, <1>13, <3>1
  <2>2. CASE u + s < 1 - Gamma2
    <3>1. At(t - 1, u + s + M)
      BY <1>2, <1>3, <1>4, <1>7, <1>13, <2>2, Gammas DEF At, M
    <3>2. high_bits(x) = t - 1
      BY <1>7, <1>9, <1>13, <3>1, Gammas
    <3> QED
      BY <1>8, <1>13, <3>2
  <2>3. u + s >= 1 - Gamma2 \/ u + s < 1 - Gamma2
    BY <1>2, Gammas
  <2> QED
    BY <2>1, <2>2, <2>3, Zenon
<1>14. CASE t = Buckets /\ x = r + s - Q
  <2>1. u + s - 1 \in 1 - Gamma2 .. Gamma2
    BY <1>2, <1>3, <1>14, Gammas
  <2>2. At(0, u + s - 1)
    BY <1>2, <1>3, <1>5, <1>14, <2>1, Gammas DEF At
  <2>3. high_bits(x) = 0
    BY <1>9, <2>2, Gammas
  <2> QED
    BY <1>8, <1>14, <2>3
<1>15. ~(t = Buckets /\ x = r + s + Q)
  BY <1>2, <1>3, <1>7, Gammas DEF M
<1> QED
  BY <1>10, <1>11, <1>12, <1>13, <1>14, <1>15

(* The hint that a signer makes, for a coefficient x of w - c s2 and one c of *)
(* c t0, used by a verifier who has only their sum.                           *)
LEMMA HintMakesUp ==
  ASSUME NEW x \in Elem, NEW c \in Elem, infinity_norm(c) < Gamma2
  PROVE  use_hint(make_hint(ElemNeg(c), ElemAdd(x, c)), ElemAdd(x, c)) = high_bits(x)
<1> DEFINE r == ElemAdd(x, c)
           d == IF c > Q \div 2 THEN c - Q ELSE c
<1>1. x \in 0 .. Q - 1 /\ c \in 0 .. Q - 1 /\ Q \div 2 \in Nat
  BY Gammas DEF Elem
<1>2. d \in 1 - Gamma2 .. Gamma2 - 1 /\ (c = d \/ c = Q + d)
  BY <1>1, Gammas DEF infinity_norm
<1>3. r \in Elem /\ (r = x + c \/ r = x + c - Q)
  BY <1>1, Gammas DEF ElemAdd, small_reduce, Elem
<1>4. ElemAdd(r, ElemNeg(c)) = x
  BY <1>1, <1>3, Gammas DEF ElemAdd, ElemNeg, small_reduce, Elem
<1> DEFINE s == -d
<1>5. s \in 1 - Gamma2 .. Gamma2 - 1 /\ x \in {r + s, r + s + Q, r + s - Q}
  BY <1>1, <1>2, <1>3, Gammas
<1> HIDE DEF r, s
<1>6. high_bits(x) = high_bits(r) \/ high_bits(x) = use_hint(TRUE, r)
  BY <1>3, <1>5, Neighbours
<1>7. use_hint(FALSE, r) = high_bits(r)
  BY DEF use_hint, with_hint, high_bits
<1>8. make_hint(ElemNeg(c), r) = (high_bits(r) # high_bits(x))
  BY <1>4 DEF make_hint
<1>9. use_hint(make_hint(ElemNeg(c), r), r) = high_bits(x)
  <2>1. CASE high_bits(r) = high_bits(x)
    <3>1. make_hint(ElemNeg(c), r) = FALSE
      BY <1>8, <2>1, Zenon
    <3> QED
      BY <1>7, <2>1, <3>1, Zenon
  <2>2. CASE high_bits(r) # high_bits(x)
    <3>1. make_hint(ElemNeg(c), r) = TRUE
      BY <1>8, <2>2, Zenon
    <3> QED
      BY <1>6, <2>2, <3>1, Zenon
  <2> QED
    BY <2>1, <2>2
<1> QED
  BY <1>9 DEF r
-----------------------------------------------------------------------------
IsArray(n, f) == f = [i \in 1 .. n |-> f[i]]

LEMMA VectorCell ==
  ASSUME NEW v \in [Rows -> Polynomial], NEW r \in Rows, NEW i \in Coeff
  PROVE  v[r][i] \in Elem /\ DOMAIN v = Rows
BY DEF Polynomial

(* The cells of the hint that a pass makes.                                   *)
LEMMA HintCell ==
  ASSUME NEW x \in [Rows -> Polynomial], NEW c \in [Rows -> Polynomial],
         NEW r \in Rows, NEW i \in Coeff
  PROVE  HintNew(VecNeg(c), VecAdd(x, c))[r][i]
           = make_hint(ElemNeg(c[r][i]), ElemAdd(x[r][i], c[r][i]))
<1>1. DOMAIN x = Rows /\ DOMAIN c = Rows
  OBVIOUS
<1>2. VecNeg(c)[r][i] = ElemNeg(c[r][i])
  <2>1. VecNeg(c) = [n \in Rows |-> PolyNeg(c[n])]
    BY <1>1, ArrayIs, Zenon DEF VecNeg
  <2>2. PolyNeg(c[r]) = [j \in Coeff |-> ElemNeg(c[r][j])]
    BY ArrayIs, Zenon DEF PolyNeg
  <2> QED
    BY <2>1, <2>2, Zenon
<1>3. VecAdd(x, c)[r][i] = ElemAdd(x[r][i], c[r][i])
  <2>1. VecAdd(x, c) = [n \in Rows |-> PolyAdd(x[n], c[n])]
    BY <1>1, ArrayIs, Zenon DEF VecAdd
  <2>2. PolyAdd(x[r], c[r]) = [j \in Coeff |-> ElemAdd(x[r][j], c[r][j])]
    BY ArrayIs, Zenon DEF PolyAdd
  <2> QED
    BY <2>1, <2>2, Zenon
<1> DEFINE z == VecNeg(c)
           v == VecAdd(x, c)
<1>4. HintNew(z, v)[r][i] = make_hint(z[r][i], v[r][i])
  <2> HIDE DEF z, v
  <2> DEFINE row(k) == [j \in Coeff |-> make_hint(z[k][j], v[k][j])]
  <2>1. \A k : Array(row(k)) = row(k)
    BY ArrayIs, Zenon
  <2>2. HintNew(z, v) = [k \in Rows |-> Array(row(k))]
    BY ArrayIs, Zenon DEF HintNew
  <2>3. HintNew(z, v)[r] = row(r)
    BY <2>1, <2>2, Zenon
  <2> QED
    BY <2>3, Zenon
<1> QED
  BY <1>2, <1>3, <1>4, Zenon

-----------------------------------------------------------------------------
(* Induction up to n.                                                         *)
LEMMA UpTo ==
  ASSUME NEW n \in Nat, NEW T, 0 \in T, \A j \in 1 .. n : j - 1 \in T => j \in T
  PROVE  \A j \in 0 .. n : j \in T
<1> DEFINE Out == {j \in 0 .. n : j \notin T}
<1> SUFFICES ASSUME Out # {} PROVE FALSE
  OBVIOUS
<1>1. Out \subseteq Nat
  OBVIOUS
<1>2. PICK j \in Out : \A i \in Out : j <= i
  BY <1>1, LeastElement
<1>3. j \in 1 .. n /\ j \notin T
  OBVIOUS
<1>4. j - 1 \in 0 .. n /\ ~(j <= j - 1)
  BY <1>3
<1>5. j - 1 \in T
  BY <1>2, <1>4
<1> QED
  BY <1>3, <1>5

LEMMA AsSequence ==
  ASSUME NEW n \in Nat, NEW f, IsArray(n, f)
  PROVE  f \in Seq({f[i] : i \in 1 .. n}) /\ Len(f) = n
<1> DEFINE S == {f[i] : i \in 1 .. n}
<1>1. f \in [1 .. n -> S]
  BY DEF IsArray
<1> QED
  BY <1>1

(* Strictly ascending neighbours ascend throughout.                           *)
LEMMA Ascending ==
  ASSUME NEW s \in Seq(Nat), ascending(s), NEW n \in 1 .. Len(s), NEW m \in 1 .. Len(s), n < m
  PROVE  s[n] < s[m]
<1> DEFINE T == {j \in Nat : j \in n + 1 .. Len(s) => s[n] < s[j]}
<1>1. Len(s) \in Nat /\ \A i \in 1 .. Len(s) : s[i] \in Nat
  BY LenProperties, ElementOfSeq
<1>2. 0 \in T
  OBVIOUS
<1>3. ASSUME NEW j \in 1 .. Len(s), j - 1 \in T
      PROVE  j \in T
  <2> SUFFICES ASSUME j \in n + 1 .. Len(s) PROVE s[n] < s[j]
    OBVIOUS
  <2>1. j - 1 \in 1 .. Len(s) - 1 /\ (j - 1) + 1 = j
    BY <1>1
  <2>2. s[j - 1] < s[j]
    BY <2>1 DEF ascending
  <2>3. j - 1 = n \/ s[n] < s[j - 1]
    BY <1>1, <1>3, <2>1
  <2>4. s[n] \in Nat /\ s[j - 1] \in Nat /\ s[j] \in Nat
    BY <1>1, <2>1
  <2> QED
    BY <2>2, <2>3, <2>4
<1> HIDE DEF T
<1>4. \A j \in 0 .. Len(s) : j \in T
  BY <1>1, <1>2, <1>3, UpTo
<1> QED
  BY <1>1, <1>4 DEF T
-----------------------------------------------------------------------------
(* A recurrence over 0 .. n has a solution.                                   *)
Iterates(n, init, step, g) ==
  g = [j \in 0 .. n |-> IF j = 0 THEN init ELSE step[j][g[j - 1]]]

LEMMA IteratesExist ==
  ASSUME NEW n \in Nat, NEW V, NEW init \in V, NEW step \in [1 .. n -> [V -> V]]
  PROVE  \E g \in [0 .. n -> V] : Iterates(n, init, step, g)
<1> DEFINE Solves(g, m) ==
             /\ g \in [0 .. m -> V] /\ g[0] = init
             /\ \A j \in 1 .. m : g[j] = step[j][g[j - 1]]
           T == {m \in 0 .. n : \E g : Solves(g, m)}
<1>1. 0 \in T
  <2>1. Solves([j \in 0 .. 0 |-> init], 0)
    OBVIOUS
  <2> HIDE DEF Solves
  <2>2. \E g : Solves(g, 0)
    BY <2>1, Zenon
  <2> QED
    BY <2>2
<1>2. ASSUME NEW m \in 1 .. n, m - 1 \in T
      PROVE  m \in T
  <2>1. PICK g : Solves(g, m - 1)
    BY <1>2
  <2> DEFINE h == [j \in 0 .. m |-> IF j = m THEN step[m][g[m - 1]] ELSE g[j]]
  <2>2. g[m - 1] \in V
    BY <2>1
  <2>3. step[m][g[m - 1]] \in V
    BY <2>2
  <2>4. h \in [0 .. m -> V] /\ h[0] = init
    BY <2>1, <2>3
  <2>5. ASSUME NEW j \in 1 .. m
        PROVE  h[j] = step[j][h[j - 1]]
    <3>1. h[j - 1] = g[j - 1]
      OBVIOUS
    <3>2. CASE j = m
      BY <3>1, <3>2
    <3>3. CASE j # m
      <4>1. j \in 1 .. m - 1
        BY <3>3
      <4>2. g[j] = step[j][g[j - 1]]
        BY <2>1, <4>1
      <4> QED
        BY <3>1, <3>3, <4>2
    <3> QED
      BY <3>2, <3>3
  <2> HIDE DEF h
  <2>6. Solves(h, m)
    BY <2>4, <2>5
  <2> HIDE DEF Solves
  <2>7. \E f : Solves(f, m)
    BY <2>6, Zenon
  <2> QED
    BY <2>7
<1>3. n \in T
  <2> HIDE DEF T
  <2>1. \A j \in 0 .. n : j \in T
    BY <1>1, <1>2, UpTo
  <2> QED
    BY <2>1
<1>4. PICK g : Solves(g, n)
  BY <1>3
<1>5. g = [j \in 0 .. n |-> IF j = 0 THEN init ELSE step[j][g[j - 1]]]
  BY <1>4
<1> QED
  BY <1>4, <1>5 DEF Iterates
-----------------------------------------------------------------------------
(* The indices of the ones of a row, from the first coefficient on.           *)
OnesRun(row, f) ==
  f = [j \in 0 .. N |->
         IF j = 0 THEN << >>
         ELSE IF row[j - 1] THEN Append(f[j - 1], j - 1) ELSE f[j - 1]]

LEMMA OnesIs ==
  ASSUME NEW row
  PROVE  \E f \in [0 .. N -> Seq(Coeff)] : OnesRun(row, f) /\ ones(row) = f[N]
<1> DEFINE V == Seq(Coeff)
           step == [j \in 1 .. N |-> [v \in V |-> IF row[j - 1] THEN Append(v, j - 1) ELSE v]]
           before[j \in 0 .. N] ==
             IF j = 0 THEN << >>
             ELSE IF row[j - 1] THEN Append(before[j - 1], j - 1) ELSE before[j - 1]
<1>1. N \in Nat
  BY FieldConstants
<1>2. << >> \in V
  OBVIOUS
<1>3. ASSUME NEW j \in 1 .. N, NEW v \in V
      PROVE  (IF row[j - 1] THEN Append(v, j - 1) ELSE v) \in V
  <2>1. j - 1 \in Coeff
    BY <1>1 DEF Coeff
  <2>2. Append(v, j - 1) \in V
    BY <2>1
  <2> HIDE DEF V
  <2> QED
    BY <2>2
<1> HIDE DEF V
<1>4. step \in [1 .. N -> [V -> V]]
  BY <1>3
<1>5. \A j \in 1 .. N, v \in V :
        step[j][v] = IF row[j - 1] THEN Append(v, j - 1) ELSE v
  OBVIOUS
<1> HIDE DEF step
<1>6. PICK g \in [0 .. N -> V] : Iterates(N, << >>, step, g)
  BY <1>1, <1>2, <1>4, IteratesExist, Zenon
<1>7. ASSUME NEW f \in [0 .. N -> V],
             Iterates(N, << >>, step, f)
      PROVE  OnesRun(row, f)
  <2>1. ASSUME NEW j \in 0 .. N, j # 0
        PROVE  f[j] = IF row[j - 1] THEN Append(f[j - 1], j - 1) ELSE f[j - 1]
    <3>1. j \in 1 .. N /\ j - 1 \in 0 .. N
      BY <2>1, <1>1
    <3>2. f[j - 1] \in V /\ f[j] = step[j][f[j - 1]]
      BY <1>7, <2>1, <3>1 DEF Iterates
    <3> QED
      BY <1>5, <3>1, <3>2
  <2>2. f[0] = << >>
    BY <1>1, <1>7 DEF Iterates
  <2>3. f = [j \in 0 .. N |-> f[j]]
    BY <1>7
  <2> QED
    BY <2>1, <2>2, <2>3 DEF OnesRun
<1>8. before = CHOOSE f : OnesRun(row, f)
  BY DEF OnesRun
<1>9. OnesRun(row, before)
  <2> HIDE DEF before
  <2> QED
    BY <1>6, <1>7, <1>8
<1>10. ones(row) = before[N]
  BY DEF ones
<1> HIDE DEF before
<1>11. before = [j \in 0 .. N |-> before[j]]
  BY <1>9 DEF OnesRun
<1>12. ASSUME NEW j \in 1 .. N, before[j - 1] \in V
       PROVE  before[j] \in V
  <2>1. before[j] = IF row[j - 1] THEN Append(before[j - 1], j - 1) ELSE before[j - 1]
    <3>1. j \in 0 .. N /\ j # 0
      OBVIOUS
    <3> QED
      BY <1>9, <3>1, Zenon DEF OnesRun
  <2> QED
    BY <1>3, <1>12, <2>1
<1> DEFINE T == {j \in 0 .. N : before[j] \in V}
<1>13. 0 \in T
  BY <1>1, <1>2, <1>9 DEF OnesRun
<1>14. \A j \in 1 .. N : j - 1 \in T => j \in T
  BY <1>12
<1>15. \A j \in 0 .. N : j \in T
  <2> HIDE DEF T
  <2> QED
    BY <1>1, <1>13, <1>14, UpTo
<1> QED
  BY <1>9, <1>10, <1>11, <1>15 DEF V

(* The indices of the ones of the first rows.                                 *)
RowsRun(h, f) ==
  f = [k \in 0 .. K |-> IF k = 0 THEN << >> ELSE f[k - 1] \o ones(h[k - 1])]

packed(f) ==
  SubSeq(f[K] \o [n \in 1 .. Omega |-> 0], 1, Omega) \o [k \in 1 .. K |-> Len(f[k])]

LEMMA Concatenated ==
  ASSUME NEW V, NEW v \in Seq(V), NEW w \in Seq(V)
  PROVE  v \o w \in Seq(V)
BY ConcatProperties, Zenon

LEMMA BitPackIs ==
  ASSUME NEW h
  PROVE  \E f \in [0 .. K -> Seq(Coeff)] : RowsRun(h, f) /\ bit_pack(h) = packed(f)
<1> DEFINE V == Seq(Coeff)
           step == [k \in 1 .. K |-> [v \in V |-> v \o ones(h[k - 1])]]
           upto[k \in 0 .. K] == IF k = 0 THEN << >> ELSE upto[k - 1] \o ones(h[k - 1])
<1>1. K \in Nat
  BY ParameterSet
<1>2. << >> \in V
  OBVIOUS
<1>3. ASSUME NEW k \in 1 .. K, NEW v \in V
      PROVE  v \o ones(h[k - 1]) \in V
  <2>1. ones(h[k - 1]) \in V
    <3>1. N \in 0 .. N
      BY FieldConstants
    <3> QED
      BY <3>1, OnesIs
  <2> QED
    BY <2>1, Concatenated
<1> HIDE DEF V
<1>4. step \in [1 .. K -> [V -> V]]
  BY <1>3
<1>5. \A k \in 1 .. K, v \in V : step[k][v] = v \o ones(h[k - 1])
  OBVIOUS
<1> HIDE DEF step
<1>6. PICK g \in [0 .. K -> V] : Iterates(K, << >>, step, g)
  BY <1>1, <1>2, <1>4, IteratesExist, Zenon
<1>7. ASSUME NEW f \in [0 .. K -> V], Iterates(K, << >>, step, f)
      PROVE  RowsRun(h, f)
  <2>1. ASSUME NEW k \in 0 .. K, k # 0
        PROVE  f[k] = f[k - 1] \o ones(h[k - 1])
    <3>1. k \in 1 .. K /\ k - 1 \in 0 .. K
      BY <2>1, <1>1
    <3>2. f[k - 1] \in V /\ f[k] = step[k][f[k - 1]]
      BY <1>7, <2>1, <3>1 DEF Iterates
    <3> QED
      BY <1>5, <3>1, <3>2
  <2>2. f[0] = << >>
    BY <1>1, <1>7 DEF Iterates
  <2>3. f = [k \in 0 .. K |-> f[k]]
    BY <1>7
  <2> QED
    BY <2>1, <2>2, <2>3 DEF RowsRun
<1>8. upto = CHOOSE f : RowsRun(h, f)
  BY DEF RowsRun
<1>9. RowsRun(h, upto)
  <2> HIDE DEF upto
  <2> QED
    BY <1>6, <1>7, <1>8
<1>10. bit_pack(h) = packed(upto)
  BY DEF bit_pack, packed
<1> HIDE DEF upto
<1>11. upto = [k \in 0 .. K |-> upto[k]]
  BY <1>9 DEF RowsRun
<1>12. ASSUME NEW k \in 1 .. K, upto[k - 1] \in V
       PROVE  upto[k] \in V
  <2>1. upto[k] = upto[k - 1] \o ones(h[k - 1])
    <3>1. k \in 0 .. K /\ k # 0
      OBVIOUS
    <3> QED
      BY <1>9, <3>1, Zenon DEF RowsRun
  <2> QED
    BY <1>3, <1>12, <2>1
<1> DEFINE T == {k \in 0 .. K : upto[k] \in V}
<1>13. 0 \in T
  BY <1>1, <1>2, <1>9 DEF RowsRun
<1>14. \A k \in 1 .. K : k - 1 \in T => k \in T
  BY <1>12
<1>15. \A k \in 0 .. K : k \in T
  <2> HIDE DEF T
  <2> QED
    BY <1>1, <1>13, <1>14, UpTo
<1> QED
  BY <1>9, <1>10, <1>11, <1>15 DEF V

(* Bytes that could be a hint's: indices of coefficients, and counts.         *)
HintBytes(x) ==
  /\ x = [n \in 1 .. HintSize |-> x[n]]
  /\ \A n \in 1 .. HintSize : x[n] \in Nat
  /\ \A n \in 1 .. Omega : x[n] \in Coeff

LEMMA PackedBytes ==
  ASSUME NEW f \in [0 .. K -> Seq(Coeff)]
  PROVE  HintBytes(packed(f)) /\ packed(f) \in Seq(Nat) /\ Len(packed(f)) = HintSize
<1> DEFINE zeros == [n \in 1 .. Omega |-> 0]
           cuts == [k \in 1 .. K |-> Len(f[k])]
           ind == SubSeq(f[K] \o zeros, 1, Omega)
<1>1. K \in Nat /\ Omega \in Nat /\ 0 \in Coeff /\ Coeff \subseteq Nat /\ HintSize = Omega + K
  BY ParameterSet, FieldConstants DEF Coeff, HintSize
<1>2. f[K] \in Seq(Coeff) /\ zeros \in Seq(Coeff) /\ Len(zeros) = Omega
  BY <1>1
<1>3. cuts \in Seq(Nat) /\ Len(cuts) = K
  <2>1. \A k \in 1 .. K : Len(f[k]) \in Nat
    <3>1. ASSUME NEW k \in 1 .. K PROVE f[k] \in Seq(Coeff)
      BY <1>1
    <3> QED
      BY <3>1, LenProperties
  <2> QED
    BY <1>1, <2>1
<1> HIDE DEF zeros, cuts
<1>4. f[K] \o zeros \in Seq(Coeff) /\ Len(f[K] \o zeros) = Len(f[K]) + Omega
      /\ Len(f[K]) \in Nat
  BY <1>2, ConcatProperties, LenProperties
<1> DEFINE all == f[K] \o zeros
<1>5. ind = [n \in 1 .. Omega |-> all[n]] /\ \A n \in 1 .. Omega : all[n] \in Coeff
  <2>1. all \in Seq(Coeff) /\ Len(all) \in Nat /\ Omega <= Len(all)
    BY <1>1, <1>4
  <2> HIDE DEF all
  <2>2. \A n \in 1 .. Omega : all[n] \in Coeff
    BY <1>1, <2>1, ElementOfSeq
  <2>3. ind = [n \in 1 .. Omega |-> all[n]]
    BY <1>1, <2>1 DEF all
  <2> QED
    BY <2>2, <2>3
<1> HIDE DEF all, ind
<1>6. ind \in Seq(Nat) /\ Len(ind) = Omega /\ \A n \in 1 .. Omega : ind[n] \in Coeff
  <2>1. \A n \in 1 .. Omega : ind[n] \in Coeff
    BY <1>5
  <2>2. ind \in [1 .. Omega -> Nat]
    BY <1>1, <1>5
  <2>3. ind \in Seq(Nat) /\ Len(ind) = Omega
    BY <1>1, <2>2
  <2> QED
    BY <2>1, <2>3
<1>7. packed(f) = ind \o cuts
  BY DEF packed, ind, cuts, zeros
<1>8. /\ ind \o cuts \in Seq(Nat) /\ Len(ind \o cuts) = HintSize
      /\ \A n \in 1 .. Omega : (ind \o cuts)[n] = ind[n]
  <2>1. /\ ind \o cuts \in Seq(Nat) /\ Len(ind \o cuts) = Len(ind) + Len(cuts)
        /\ \A n \in 1 .. Len(ind) + Len(cuts) :
             (ind \o cuts)[n] = IF n <= Len(ind) THEN ind[n] ELSE cuts[n - Len(ind)]
    BY <1>3, <1>6, ConcatProperties, Zenon
  <2> QED
    BY <1>1, <1>3, <1>6, <2>1
<1> DEFINE x == ind \o cuts
<1>9. x \in Seq(Nat) /\ Len(x) = HintSize /\ \A n \in 1 .. Omega : x[n] \in Coeff
  BY <1>6, <1>8
<1> HIDE DEF x
<1>10. HintBytes(x)
  <2>1. \A n \in 1 .. HintSize : x[n] \in Nat
    BY <1>9, ElementOfSeq
  <2>2. x = [n \in 1 .. HintSize |-> x[n]]
    BY <1>9
  <2> QED
    BY <1>9, <2>1, <2>2 DEF HintBytes
<1> QED
  BY <1>7, <1>9, <1>10 DEF x
-----------------------------------------------------------------------------
LEMMA Longer ==
  ASSUME NEW V, NEW s \in Seq(V), NEW c \in Nat, c < Len(s)
  PROVE  Append(SubSeq(s, 1, c), s[c + 1]) = SubSeq(s, 1, c + 1)
<1>1. Len(s) \in Nat /\ c + 1 \in 1 .. Len(s)
  OBVIOUS
<1>2. SubSeq(s, 1, c) = [n \in 1 .. c |-> s[n]]
  BY <1>1
<1>3. SubSeq(s, 1, c + 1) = [n \in 1 .. c + 1 |-> s[n]]
  BY <1>1
<1>4. \A n \in 1 .. Len(s) : s[n] \in V
  BY ElementOfSeq
<1> DEFINE a == [n \in 1 .. c |-> s[n]]
<1>5. a \in Seq(V) /\ Len(a) = c
  BY <1>1, <1>4
<1>6. Append(a, s[c + 1]) = [n \in 1 .. c + 1 |-> s[n]]
  <2>1. \A n \in 1 .. c : a[n] = s[n]
    OBVIOUS
  <2> HIDE DEF a
  <2>2. s[c + 1] \in V
    BY <1>1, <1>4
  <2>3. /\ Len(Append(a, s[c + 1])) = c + 1
        /\ Append(a, s[c + 1]) \in Seq(V)
        /\ Append(a, s[c + 1])[c + 1] = s[c + 1]
        /\ \A n \in 1 .. c : Append(a, s[c + 1])[n] = a[n]
    BY <1>5, <2>2
  <2> DEFINE b == Append(a, s[c + 1])
  <2>4. b = [n \in 1 .. c + 1 |-> b[n]]
    BY <2>3
  <2>5. \A n \in 1 .. c + 1 : b[n] = s[n]
    BY <2>1, <2>3
  <2> HIDE DEF b
  <2>6. b = [n \in 1 .. c + 1 |-> s[n]]
    BY <2>4, <2>5
  <2> QED
    BY <2>6 DEF b
<1> QED
  BY <1>2, <1>3, <1>6

(* A row of ones at ascending indices has those indices.                      *)
LEMMA OnesBack ==
  ASSUME NEW s \in Seq(Coeff), ascending(s)
  PROVE  ones([j \in Coeff |-> \E n \in DOMAIN s : s[n] = j]) = s
<1> DEFINE row == [j \in Coeff |-> \E n \in DOMAIN s : s[n] = j]
           len == Len(s)
<1>1. len \in Nat /\ \A n \in 1 .. len : s[n] \in Coeff
  BY LenProperties, ElementOfSeq
<1>2. \A n, m \in 1 .. len : n < m => s[n] < s[m]
  <2>1. s \in Seq(Nat)
    BY <1>1 DEF Coeff
  <2> QED
    BY <2>1, Ascending
<1>3. \A j \in Coeff : row[j] <=> \E n \in 1 .. len : s[n] = j
  OBVIOUS
<1>4. N \in Nat
  BY FieldConstants
<1> HIDE DEF row
<1>5. PICK f \in [0 .. N -> Seq(Coeff)] : OnesRun(row, f) /\ ones(row) = f[N]
  BY OnesIs
<1> DEFINE Upto(j, c) ==
             /\ c \in 0 .. len
             /\ f[j] = SubSeq(s, 1, c)
             /\ \A n \in 1 .. c : s[n] < j
             /\ \A n \in c + 1 .. len : j <= s[n]
           T == {j \in 0 .. N : \E c \in 0 .. len : Upto(j, c)}
<1>6. 0 \in T
  <2>1. f[0] = << >>
    BY <1>4, <1>5 DEF OnesRun
  <2>2. SubSeq(s, 1, 0) = << >>
    OBVIOUS
  <2>3. Upto(0, 0)
    BY <1>1, <2>1, <2>2 DEF Coeff
  <2> HIDE DEF Upto
  <2> QED
    BY <1>1, <1>4, <2>3
<1>7. ASSUME NEW j \in 1 .. N, j - 1 \in T
      PROVE  j \in T
  <2>1. PICK c \in 0 .. len : Upto(j - 1, c)
    BY <1>7
  <2>2. j \in 0 .. N /\ j # 0 /\ j - 1 \in Coeff /\ j - 1 \in Nat
    BY <1>4 DEF Coeff
  <2>3. f[j] = IF row[j - 1] THEN Append(f[j - 1], j - 1) ELSE f[j - 1]
    BY <1>5, <2>2, Zenon DEF OnesRun
  <2>4. \A n \in 1 .. len : s[n] \in Nat
    BY <1>1 DEF Coeff
  <2>5. CASE row[j - 1]
    <3>1. PICK n \in 1 .. len : s[n] = j - 1
      BY <1>3, <2>2, <2>5
    <3>2. c < n
      BY <1>1, <2>1, <2>2, <3>1
    <3>3. c + 1 \in 1 .. len
      BY <1>1, <3>2
    <3>4. n = c + 1
      <4>1. j - 1 <= s[c + 1]
        BY <1>1, <2>1, <3>3
      <4>2. ~(s[c + 1] < s[n])
        BY <2>2, <2>4, <3>1, <3>3, <4>1
      <4>3. ~(c + 1 < n)
        BY <1>2, <3>3, <4>2
      <4> QED
        BY <1>1, <3>2, <4>3
    <3>5. f[j] = SubSeq(s, 1, c + 1)
      BY <1>1, <2>1, <2>3, <2>5, <3>1, <3>2, <3>4, Longer
    <3>6. ASSUME NEW m \in 1 .. c + 1 PROVE s[m] < j
      <4>1. m \in 1 .. c \/ m = n
        BY <3>4
      <4>2. m \in 1 .. len
        BY <1>1, <3>3
      <4> QED
        BY <2>1, <2>2, <2>4, <3>1, <4>1, <4>2
    <3>7. ASSUME NEW m \in c + 2 .. len PROVE j <= s[m]
      <4>1. m \in 1 .. len /\ n < m
        BY <1>1, <3>4
      <4> QED
        BY <1>2, <2>2, <2>4, <3>1, <4>1
    <3>8. Upto(j, c + 1)
      BY <1>1, <3>3, <3>5, <3>6, <3>7
    <3> HIDE DEF Upto
    <3> QED
      BY <2>2, <3>3, <3>8
  <2>6. CASE ~row[j - 1]
    <3>1. \A n \in 1 .. len : s[n] # j - 1
      BY <1>3, <2>2, <2>6
    <3>2. \A m \in 1 .. c : s[m] < j
      BY <1>1, <2>1, <2>2, <2>4
    <3>3. \A m \in c + 1 .. len : j <= s[m]
      BY <1>1, <2>1, <2>2, <2>4, <3>1
    <3>4. Upto(j, c)
      BY <2>1, <2>3, <2>6, <3>2, <3>3
    <3> HIDE DEF Upto
    <3> QED
      BY <2>2, <3>4
  <2> QED
    BY <2>5, <2>6
<1>8. N \in T
  <2> HIDE DEF T
  <2>1. \A j \in 0 .. N : j \in T
    BY <1>4, <1>6, <1>7, UpTo
  <2> QED
    BY <1>4, <2>1
<1>9. PICK c \in 0 .. len : Upto(N, c)
  BY <1>8
<1>10. c = len
  <2>1. CASE c < len
    <3>1. c + 1 \in 1 .. len
      BY <1>1, <2>1
    <3>2. N <= s[c + 1] /\ s[c + 1] \in Coeff
      BY <1>1, <1>9, <3>1
    <3> QED
      BY <1>4, <3>2 DEF Coeff
  <2> QED
    BY <1>1, <2>1
<1>11. SubSeq(s, 1, len) = s
  <2>1. SubSeq(s, 1, len) = [n \in 1 .. len |-> s[n]]
    BY <1>1
  <2>2. s = [n \in 1 .. len |-> s[n]]
    BY <1>1
  <2> QED
    BY <2>1, <2>2
<1> QED
  BY <1>5, <1>9, <1>10, <1>11 DEF row
-----------------------------------------------------------------------------
(* The last of ascending cuts is the largest.                                 *)
LEMMA CutsAscend ==
  ASSUME NEW k \in Nat, NEW c, \A i \in 1 .. k : c[i] \in Nat,
         \A i \in 1 .. k - 1 : c[i] <= c[i + 1],
         NEW i \in 1 .. k, NEW j \in 1 .. k, i <= j
  PROVE  c[i] <= c[j]
<1> DEFINE T == {m \in Nat : m \in i .. k => c[i] <= c[m]}
<1>1. 0 \in T
  OBVIOUS
<1>2. ASSUME NEW m \in 1 .. k, m - 1 \in T
      PROVE  m \in T
  <2> SUFFICES ASSUME m \in i .. k PROVE c[i] <= c[m]
    OBVIOUS
  <2>1. CASE m = i
    BY <2>1
  <2>2. CASE m # i
    <3>1. m - 1 \in 1 .. k - 1 /\ m - 1 \in i .. k /\ (m - 1) + 1 = m
      BY <2>2
    <3>2. c[i] <= c[m - 1] /\ c[m - 1] <= c[m]
      BY <1>2, <3>1
    <3>3. c[i] \in Nat /\ c[m - 1] \in Nat /\ c[m] \in Nat
      BY <3>1
    <3> QED
      BY <3>2, <3>3
  <2> QED
    BY <2>1, <2>2
<1> HIDE DEF T
<1>3. \A m \in 0 .. k : m \in T
  BY <1>1, <1>2, UpTo
<1> QED
  BY <1>3 DEF T

(* A nonempty row of naturals has a largest.                                  *)
LEMMA LargestIs ==
  ASSUME NEW k \in Nat \ {0}, NEW c, \A i \in 1 .. k : c[i] \in Nat
  PROVE  LET S == {c[i] : i \in 1 .. k}
         IN largest(S) \in S /\ \A m \in S : m <= largest(S)
<1> DEFINE Top(n, m) == m \in 1 .. k /\ \A i \in 1 .. n : c[i] <= c[m]
           T == {n \in 0 .. k : \E m \in 1 .. k : Top(n, m)}
           S == {c[i] : i \in 1 .. k}
<1>1. 0 \in T
  <2>1. 1 \in 1 .. k /\ Top(0, 1)
    OBVIOUS
  <2> HIDE DEF Top
  <2> QED
    BY <2>1
<1>2. ASSUME NEW n \in 1 .. k, n - 1 \in T
      PROVE  n \in T
  <2>1. PICK m \in 1 .. k : Top(n - 1, m)
    BY <1>2
  <2>2. CASE c[n] <= c[m]
    <3>1. Top(n, m)
      BY <2>1, <2>2
    <3> HIDE DEF Top
    <3> QED
      BY <3>1
  <2>3. CASE ~(c[n] <= c[m])
    <3>1. Top(n, n)
      BY <2>1, <2>3
    <3> HIDE DEF Top
    <3> QED
      BY <3>1
  <2> QED
    BY <2>2, <2>3
<1>3. k \in T
  <2> HIDE DEF T
  <2>1. \A n \in 0 .. k : n \in T
    BY <1>1, <1>2, UpTo
  <2> QED
    BY <2>1
<1>4. \E n \in S : \A m \in S : m <= n
  BY <1>3
<1> HIDE DEF S
<1>5. largest(S) \in S /\ \A m \in S : m <= largest(S)
  BY <1>4, Zenon DEF largest
<1> QED
  BY <1>5 DEF S

(* The index area and the cuts of a hint's bytes.                             *)
indices(x) == [n \in 1 .. Omega |-> x[n]]
cuts(x) == [k \in 1 .. K |-> x[Omega + k]]
Start(x, k) == IF k = 0 THEN 0 ELSE x[Omega + k]

LEMMA Sizes ==
  /\ K \in Nat \ {0} /\ Omega \in Nat \ {0} /\ HintSize = Omega + K
  /\ N \in Nat \ {0} /\ Coeff \subseteq Nat /\ 0 \in Coeff
BY ParameterSet, FieldConstants DEF HintSize, Coeff

LEMMA SplitHint ==
  ASSUME NEW x, HintBytes(x)
  PROVE  /\ split_hint(x)[1] = indices(x) /\ split_hint(x)[2] = cuts(x)
         /\ indices(x) \in Seq(Coeff) /\ Len(indices(x)) = Omega
         /\ cuts(x) \in Seq(Nat) /\ Len(cuts(x)) = K
         /\ indices(x) \o cuts(x) = x
<1>1. /\ x = [n \in 1 .. HintSize |-> x[n]]
      /\ \A n \in 1 .. HintSize : x[n] \in Nat
      /\ \A n \in 1 .. Omega : x[n] \in Coeff
  BY DEF HintBytes
<1>2. x \in [1 .. HintSize -> Nat]
  BY <1>1
<1>3. x \in Seq(Nat) /\ Len(x) = HintSize
  BY <1>2, Sizes
<1>4. SubSeq(x, 1, Omega) = indices(x)
  BY <1>3, Sizes DEF indices
<1>5. SubSeq(x, Omega + 1, HintSize) = cuts(x)
  <2>1. SubSeq(x, Omega + 1, HintSize)
          = [k \in 1 .. HintSize - (Omega + 1) + 1 |-> x[k + (Omega + 1) - 1]]
    BY <1>3, Sizes
  <2>2. HintSize - (Omega + 1) + 1 = K
    BY Sizes
  <2>3. \A k \in 1 .. K : x[k + (Omega + 1) - 1] = x[Omega + k]
    <3>1. \A k \in 1 .. K : k + (Omega + 1) - 1 = Omega + k
      BY Sizes
    <3> QED
      BY <3>1
  <2> QED
    BY <2>1, <2>2, <2>3 DEF cuts
<1>6. indices(x) \in Seq(Coeff) /\ Len(indices(x)) = Omega
  <2>1. indices(x) \in [1 .. Omega -> Coeff]
    BY <1>1 DEF indices
  <2> QED
    BY <2>1, Sizes
<1>7. cuts(x) \in Seq(Nat) /\ Len(cuts(x)) = K
  <2>1. cuts(x) \in [1 .. K -> Nat]
    BY <1>1, Sizes DEF cuts
  <2> QED
    BY <2>1, Sizes
<1>8. indices(x) \o cuts(x) = x
  <2> DEFINE s == indices(x) \o cuts(x)
  <2>1. indices(x) \in Seq(Nat)
    <3>1. indices(x) \in [1 .. Omega -> Nat]
      BY <1>1, Sizes DEF indices
    <3> QED
      BY <3>1, Sizes
  <2>2. /\ s \in Seq(Nat) /\ Len(s) = Omega + K
        /\ \A n \in 1 .. Omega + K :
             s[n] = IF n <= Omega THEN indices(x)[n] ELSE cuts(x)[n - Omega]
    BY <1>6, <1>7, <2>1, ConcatProperties
  <2> HIDE DEF s
  <2>3. ASSUME NEW n \in 1 .. HintSize PROVE s[n] = x[n]
    <3>1. CASE n <= Omega
      <4>1. n \in 1 .. Omega
        BY <3>1, Sizes
      <4> QED
        BY <2>2, <3>1, <4>1, Sizes DEF indices
    <3>2. CASE ~(n <= Omega)
      <4>1. n - Omega \in 1 .. K /\ Omega + (n - Omega) = n
        BY <3>2, Sizes
      <4>2. cuts(x)[n - Omega] = x[n]
        BY <4>1 DEF cuts
      <4> QED
        BY <2>2, <3>2, <4>2, Sizes
    <3> QED
      BY <3>1, <3>2
  <2>4. s = x
    BY <1>3, <2>2, <2>3, Sizes, SeqEqual
  <2> QED
    BY <2>4 DEF s
<1>9. split_hint(x) = << SubSeq(x, 1, Omega), SubSeq(x, Omega + 1, HintSize) >>
  BY DEF split_hint
<1> QED
  BY <1>4, <1>5, <1>6, <1>7, <1>8, <1>9
-----------------------------------------------------------------------------
(* The cuts of x ascend and leave zeros behind the last.                      *)
WellCut(x) ==
  /\ \A k \in 1 .. K - 1 : x[Omega + k] <= x[Omega + (k + 1)]
  /\ x[Omega + K] <= Omega
  /\ \A n \in x[Omega + K] + 1 .. Omega : x[n] = 0

LEMMA LastCut ==
  ASSUME NEW x, HintBytes(x), \A k \in 1 .. K - 1 : cuts(x)[k] <= cuts(x)[k + 1]
  PROVE  MaxCut(cuts(x)) = x[Omega + K]
<1> DEFINE c == cuts(x)
           S == {c[k] : k \in 1 .. K}
<1>1. \A k \in 1 .. K : c[k] \in Nat
  BY SplitHint, Sizes, ElementOfSeq
<1>2. c[K] = x[Omega + K] /\ K \in 1 .. K
  BY Sizes DEF cuts
<1>3. \A k \in 1 .. K - 1 : c[k] <= c[k + 1]
  OBVIOUS
<1> HIDE DEF c
<1>4. ASSUME NEW k \in 1 .. K PROVE c[k] <= c[K]
  BY <1>1, <1>2, <1>3, Sizes, CutsAscend
<1>5. largest(S) \in S /\ \A m \in S : m <= largest(S)
  BY <1>1, Sizes, LargestIs
<1>6. c[K] \in S /\ \A m \in S : m <= c[K]
  BY <1>2, <1>4
<1>7. \A m \in S : m \in Nat
  BY <1>1
<1> HIDE DEF S
<1>8. largest(S) = c[K]
  <2>1. largest(S) <= c[K] /\ c[K] <= largest(S) /\ largest(S) \in Nat /\ c[K] \in Nat
    BY <1>5, <1>6, <1>7
  <2> QED
    BY <2>1
<1> QED
  BY <1>2, <1>8 DEF MaxCut, S, c

(* The decoder's check of the cuts, and the first scans of the reference.     *)
LEMMA WellCutIs ==
  ASSUME NEW x, HintBytes(x)
  PROVE  well_cut(indices(x), cuts(x), MaxCut(cuts(x))) <=> WellCut(x)
<1>1. \A k \in 1 .. K : cuts(x)[k] = x[Omega + k]
  BY DEF cuts
<1>2. \A n \in 1 .. Omega : indices(x)[n] = x[n]
  BY DEF indices
<1>3. (\A k \in 1 .. K - 1 : cuts(x)[k] <= cuts(x)[k + 1])
        <=> (\A k \in 1 .. K - 1 : x[Omega + k] <= x[Omega + (k + 1)])
  <2>1. \A k \in 1 .. K - 1 : k \in 1 .. K /\ k + 1 \in 1 .. K
    BY Sizes
  <2> QED
    BY <1>1, <2>1
<1>4. CASE \A k \in 1 .. K - 1 : cuts(x)[k] <= cuts(x)[k + 1]
  <2>1. MaxCut(cuts(x)) = x[Omega + K]
    BY <1>4, LastCut
  <2>2. Omega + K \in 1 .. HintSize
    BY Sizes
  <2>3. x[Omega + K] \in Nat
    BY <2>2 DEF HintBytes
  <2>4. \A n \in x[Omega + K] + 1 .. Omega : n \in 1 .. Omega
    BY <2>3, Sizes
  <2>5. (\A n \in x[Omega + K] + 1 .. Omega : indices(x)[n] = 0)
          <=> (\A n \in x[Omega + K] + 1 .. Omega : x[n] = 0)
    BY <1>2, <2>4
  <2> QED
    BY <1>3, <1>4, <2>1, <2>5, Zenon DEF well_cut, WellCut
<1>5. CASE ~ \A k \in 1 .. K - 1 : cuts(x)[k] <= cuts(x)[k + 1]
  BY <1>3, <1>5, Zenon DEF well_cut, WellCut
<1> QED
  BY <1>4, <1>5

RowsAscend(x) ==
  \A k \in Rows : \A n \in Start(x, k) + 1 .. Start(x, k + 1) - 1 : x[n] < x[n + 1]

(* The starts of the rows within ascending cuts.                              *)
LEMMA Starts ==
  ASSUME NEW x, HintBytes(x), WellCut(x)
  PROVE  /\ \A k \in 0 .. K : Start(x, k) \in 0 .. Omega
         /\ \A i, j \in 0 .. K : i <= j => Start(x, i) <= Start(x, j)
         /\ Start(x, 0) = 0 /\ Start(x, K) = x[Omega + K]
<1> DEFINE c == cuts(x)
<1>1. \A k \in 1 .. K : c[k] = x[Omega + k] /\ Start(x, k) = c[k]
  BY DEF cuts, Start
<1>2. \A k \in 1 .. K : c[k] \in Nat
  BY SplitHint, Sizes, ElementOfSeq
<1>3. \A k \in 1 .. K - 1 : c[k] <= c[k + 1]
  <2>1. \A k \in 1 .. K - 1 : k \in 1 .. K /\ k + 1 \in 1 .. K
    BY Sizes
  <2> QED
    BY <1>1, <2>1 DEF WellCut
<1> HIDE DEF c
<1>4. \A i, j \in 1 .. K : i <= j => c[i] <= c[j]
  BY <1>2, <1>3, Sizes, CutsAscend
<1>5. Start(x, 0) = 0 /\ Start(x, K) = x[Omega + K]
  BY Sizes DEF Start
<1>6. \A k \in 1 .. K : Start(x, k) \in 0 .. Omega
  <2>1. K \in 1 .. K /\ c[K] <= Omega
    BY <1>1, Sizes DEF WellCut
  <2> QED
    BY <1>1, <1>2, <1>4, <2>1, Sizes
<1>7. \A k \in 0 .. K : Start(x, k) \in 0 .. Omega
  BY <1>5, <1>6, Sizes
<1>8. ASSUME NEW i \in 0 .. K, NEW j \in 0 .. K, i <= j
      PROVE  Start(x, i) <= Start(x, j)
  <2>1. CASE i = 0
    BY <1>5, <1>7, <1>8, <2>1
  <2>2. CASE i # 0
    <3>1. i \in 1 .. K /\ j \in 1 .. K
      BY <1>8, <2>2
    <3> QED
      BY <1>1, <1>4, <1>8, <3>1
  <2> QED
    BY <2>1, <2>2
<1> QED
  BY <1>5, <1>7, <1>8

(* The last scan of the reference, which skips where a row starts.            *)
Scanned(x) ==
  \A ix \in 1 .. Omega - 1 :
    ix < x[Omega + K] /\ ~(\E k \in 0 .. K - 2 : ix = x[Omega + 1 + k]) => x[ix] < x[ix + 1]

LEMMA ScannedRows ==
  ASSUME NEW x, HintBytes(x), WellCut(x)
  PROVE  Scanned(x) <=> RowsAscend(x)
<1>1. /\ \A k \in 0 .. K : Start(x, k) \in 0 .. Omega
      /\ \A i, j \in 0 .. K : i <= j => Start(x, i) <= Start(x, j)
      /\ Start(x, 0) = 0 /\ Start(x, K) = x[Omega + K]
  BY Starts
<1>2. ASSUME NEW ix \in Nat
      PROVE  (\E k \in 0 .. K - 2 : ix = x[Omega + 1 + k])
               <=> (\E k \in 1 .. K - 1 : ix = Start(x, k))
  <2>1. ASSUME NEW k \in 0 .. K - 2
        PROVE  k + 1 \in 1 .. K - 1 /\ x[Omega + 1 + k] = Start(x, k + 1)
    <3>1. k + 1 # 0 /\ Omega + 1 + k = Omega + (k + 1) /\ k + 1 \in 1 .. K - 1
      BY Sizes
    <3> QED
      BY <3>1 DEF Start
  <2>2. ASSUME NEW k \in 1 .. K - 1
        PROVE  k - 1 \in 0 .. K - 2 /\ Start(x, k) = x[Omega + 1 + (k - 1)]
    <3>1. k # 0 /\ Omega + 1 + (k - 1) = Omega + k /\ k - 1 \in 0 .. K - 2
      BY Sizes
    <3> QED
      BY <3>1 DEF Start
  <2> QED
    BY <2>1, <2>2
<1>3. ASSUME Scanned(x), NEW k \in Rows, NEW n \in Start(x, k) + 1 .. Start(x, k + 1) - 1
      PROVE  x[n] < x[n + 1]
  <2>1. k \in 0 .. K - 1 /\ k \in 0 .. K /\ k + 1 \in 0 .. K
    BY Sizes DEF Rows
  <2>2. Start(x, k) \in 0 .. Omega /\ Start(x, k + 1) \in 0 .. Omega
        /\ Start(x, k + 1) <= Start(x, K) /\ Start(x, K) \in 0 .. Omega
    <3>1. K \in 0 .. K /\ k + 1 <= K
      BY <2>1, Sizes
    <3> QED
      BY <1>1, <2>1, <3>1
  <2>3. n \in 1 .. Omega - 1 /\ n < Start(x, K) /\ Start(x, k) < n /\ n < Start(x, k + 1)
    BY <2>2, Sizes
  <2>4. ASSUME NEW i \in 1 .. K - 1, n = Start(x, i)
        PROVE  FALSE
    <3>1. i \in 0 .. K /\ (i <= k \/ k + 1 <= i)
      BY <2>1, Sizes
    <3>2. Start(x, i) <= Start(x, k) \/ Start(x, k + 1) <= Start(x, i)
      BY <1>1, <2>1, <3>1
    <3> QED
      BY <2>2, <2>3, <2>4, <3>2
  <2>5. ~(\E i \in 0 .. K - 2 : n = x[Omega + 1 + i])
    BY <1>2, <2>3, <2>4
  <2>6. n < x[Omega + K]
    BY <1>1, <2>3
  <2> QED
    BY <1>3, <2>3, <2>5, <2>6, Zenon DEF Scanned
<1>4. ASSUME RowsAscend(x), NEW ix \in 1 .. Omega - 1, ix < x[Omega + K],
             ~(\E k \in 0 .. K - 2 : ix = x[Omega + 1 + k])
      PROVE  x[ix] < x[ix + 1]
  <2> DEFINE T == {k \in 0 .. K : ix < Start(x, k)}
  <2>1. ix \in Nat
    BY Sizes
  <2>2. K \in T /\ T \subseteq Nat
    BY <1>1, <1>4, Sizes
  <2>3. PICK k \in T : \A j \in T : k <= j
    <3> HIDE DEF T
    <3> QED
      BY <2>2, LeastElement
  <2>4. k \in 0 .. K /\ ix < Start(x, k)
    OBVIOUS
  <2>5. k # 0
    BY <1>1, <2>4
  <2>6. k - 1 \in 0 .. K /\ k - 1 \in Rows /\ (k - 1) + 1 = k /\ ~(k <= k - 1)
    BY <2>4, <2>5, Sizes DEF Rows
  <2>7. ~(ix < Start(x, k - 1))
    BY <2>3, <2>6
  <2>8. ix # Start(x, k - 1)
    <3>1. CASE k - 1 = 0
      BY <1>1, <3>1
    <3>2. CASE k - 1 # 0
      <4>1. k - 1 \in 1 .. K - 1
        BY <2>4, <2>5, <3>2, Sizes
      <4> QED
        BY <1>2, <1>4, <2>1, <4>1
    <3> QED
      BY <3>1, <3>2
  <2>9. Start(x, k - 1) \in 0 .. Omega /\ Start(x, k) \in 0 .. Omega
    BY <1>1, <2>4, <2>6
  <2>10. ix \in Start(x, k - 1) + 1 .. Start(x, (k - 1) + 1) - 1
    BY <2>1, <2>4, <2>6, <2>7, <2>8, <2>9
  <2> QED
    BY <1>4, <2>6, <2>10, Zenon DEF RowsAscend
<1>5. Scanned(x) => RowsAscend(x)
  BY <1>3, Zenon DEF RowsAscend
<1>6. RowsAscend(x) => Scanned(x)
  BY <1>4, Zenon DEF Scanned
<1> QED
  BY <1>5, <1>6

(* What the C reference accepts.                                              *)
LEMMA ReferenceAccepts ==
  ASSUME NEW x, HintBytes(x)
  PROVE  qseal_hint_canonical(x) <=> WellCut(x) /\ RowsAscend(x)
<1> DEFINE mc == MaxCut(cuts(x))
           A1 == \A k \in 0 .. K - 2 : x[Omega + 1 + k] <= x[Omega + 1 + (k + 1)]
           A3 == \A ix \in 0 .. Omega - 1 : ix >= mc => x[ix + 1] = 0
           A4 == \A ix \in 1 .. Omega - 1 :
                   ix < mc /\ ~(\E k \in 0 .. K - 2 : ix = x[Omega + 1 + k]) => x[ix] < x[ix + 1]
<1>1. qseal_hint_canonical(x) <=> A1 /\ mc <= Omega /\ A3 /\ A4
  BY SplitHint, Zenon DEF qseal_hint_canonical, hint_accepts
<1>2. A1 <=> \A k \in 1 .. K - 1 : cuts(x)[k] <= cuts(x)[k + 1]
  <2>1. ASSUME NEW k \in 0 .. K - 2
        PROVE  /\ k + 1 \in 1 .. K - 1
               /\ cuts(x)[k + 1] = x[Omega + 1 + k] /\ cuts(x)[(k + 1) + 1] = x[Omega + 1 + (k + 1)]
    <3>1. /\ k + 1 \in 1 .. K - 1 /\ k + 1 \in 1 .. K /\ (k + 1) + 1 \in 1 .. K
          /\ Omega + (k + 1) = Omega + 1 + k /\ Omega + ((k + 1) + 1) = Omega + 1 + (k + 1)
      BY Sizes
    <3> QED
      BY <3>1 DEF cuts
  <2>2. \A k \in 1 .. K - 1 : k - 1 \in 0 .. K - 2 /\ (k - 1) + 1 = k
    BY Sizes
  <2> QED
    BY <2>1, <2>2
<1>3. CASE A1
  <2>1. mc = x[Omega + K] /\ mc \in Nat
    <3>1. mc = x[Omega + K]
      BY <1>2, <1>3, LastCut
    <3>2. Omega + K \in 1 .. HintSize
      BY Sizes
    <3> QED
      BY <3>1, <3>2 DEF HintBytes
  <2>2. A4 <=> Scanned(x)
    BY <2>1 DEF Scanned
  <2> HIDE DEF mc
  <2>3. A3 <=> \A n \in mc + 1 .. Omega : x[n] = 0
    <3>1. ASSUME A3, NEW n \in mc + 1 .. Omega PROVE x[n] = 0
      <4>1. n - 1 \in 0 .. Omega - 1 /\ n - 1 >= mc /\ (n - 1) + 1 = n
        BY <2>1, Sizes
      <4> QED
        BY <3>1, <4>1
    <3>2. ASSUME \A n \in mc + 1 .. Omega : x[n] = 0, NEW ix \in 0 .. Omega - 1, ix >= mc
          PROVE  x[ix + 1] = 0
      <4>1. ix + 1 \in mc + 1 .. Omega
        BY <2>1, <3>2, Sizes
      <4> QED
        BY <3>2, <4>1
    <3> QED
      BY <3>1, <3>2
  <2>4. (\A k \in 1 .. K - 1 : cuts(x)[k] <= cuts(x)[k + 1])
          => \A k \in 1 .. K - 1 : x[Omega + k] <= x[Omega + (k + 1)]
    <3>1. \A k \in 1 .. K - 1 : k \in 1 .. K /\ k + 1 \in 1 .. K
      BY Sizes
    <3> QED
      BY <3>1 DEF cuts
  <2>5. WellCut(x) <=> mc <= Omega /\ A3
    BY <1>2, <1>3, <2>1, <2>3, <2>4 DEF WellCut
  <2> HIDE DEF A1, A3, A4
  <2> QED
    BY <1>1, <1>3, <2>2, <2>5, ScannedRows
<1>4. CASE ~A1
  <2>1. ~WellCut(x)
    <3>1. ASSUME \A k \in 1 .. K - 1 : x[Omega + k] <= x[Omega + (k + 1)]
          PROVE  \A k \in 1 .. K - 1 : cuts(x)[k] <= cuts(x)[k + 1]
      <4>1. \A k \in 1 .. K - 1 : k \in 1 .. K /\ k + 1 \in 1 .. K
        BY Sizes
      <4> QED
        BY <3>1, <4>1 DEF cuts
    <3> HIDE DEF A1
    <3> QED
      BY <1>2, <1>4, <3>1, Zenon DEF WellCut
  <2> HIDE DEF A1, A3, A4
  <2> QED
    BY <1>1, <1>4, <2>1
<1> QED
  BY <1>3, <1>4
-----------------------------------------------------------------------------
(* The k-th row of indices of x.                                              *)
RowOf(x, k) == SubSeq(indices(x), 1 + Start(x, k), Start(x, k + 1))

LEMMA RowIs ==
  ASSUME NEW x, HintBytes(x), WellCut(x), NEW k \in Rows
  PROVE  /\ RowOf(x, k) \in Seq(Coeff)
         /\ Len(RowOf(x, k)) = Start(x, k + 1) - Start(x, k)
         /\ \A n \in 1 .. Start(x, k + 1) - Start(x, k) : RowOf(x, k)[n] = x[Start(x, k) + n]
         /\ ascending(RowOf(x, k))
              <=> \A n \in Start(x, k) + 1 .. Start(x, k + 1) - 1 : x[n] < x[n + 1]
<1> DEFINE a == Start(x, k)
           b == Start(x, k + 1)
           s == RowOf(x, k)
           t == indices(x)
<1>1. a \in 0 .. Omega /\ b \in 0 .. Omega /\ a <= b
  <2>1. k \in 0 .. K /\ k + 1 \in 0 .. K /\ k <= k + 1
    BY Sizes DEF Rows
  <2> QED
    BY <2>1, Starts
<1>2. t \in Seq(Coeff) /\ Len(t) = Omega
  BY SplitHint
<1>3. \A n \in 1 .. Omega : t[n] = x[n] /\ t[n] \in Coeff
  BY DEF indices, HintBytes
<1>4. s = SubSeq(t, 1 + a, b)
  BY DEF RowOf
<1> HIDE DEF a, b, s, t
<1>5. s = [n \in 1 .. b - (1 + a) + 1 |-> t[n + (1 + a) - 1]]
  BY <1>1, <1>2, <1>4, Sizes
<1>6. b - (1 + a) + 1 = b - a /\ b - a \in Nat
  BY <1>1, Sizes
<1>7. ASSUME NEW n \in 1 .. b - a
      PROVE  n + (1 + a) - 1 = a + n /\ a + n \in 1 .. Omega
  BY <1>1, Sizes
<1>8. \A n \in 1 .. b - a : s[n] = x[a + n] /\ s[n] \in Coeff
  BY <1>3, <1>5, <1>6, <1>7
<1>9. s \in [1 .. b - a -> Coeff]
  BY <1>5, <1>6, <1>8
<1>10. s \in Seq(Coeff) /\ Len(s) = b - a
  BY <1>6, <1>9
<1>11. ascending(s) <=> \A n \in a + 1 .. b - 1 : x[n] < x[n + 1]
  <2>1. ASSUME ascending(s), NEW n \in a + 1 .. b - 1
        PROVE  x[n] < x[n + 1]
    <3>1. n - a \in 1 .. b - a - 1 /\ n - a \in 1 .. b - a /\ (n - a) + 1 \in 1 .. b - a
          /\ a + (n - a) = n /\ a + ((n - a) + 1) = n + 1
      BY <1>1, Sizes
    <3>2. s[n - a] < s[(n - a) + 1]
      BY <1>10, <2>1, <3>1 DEF ascending
    <3> QED
      BY <1>8, <3>1, <3>2
  <2>2. ASSUME \A n \in a + 1 .. b - 1 : x[n] < x[n + 1], NEW n \in 1 .. Len(s) - 1
        PROVE  s[n] < s[n + 1]
    <3>1. n \in 1 .. b - a /\ n + 1 \in 1 .. b - a /\ a + n \in a + 1 .. b - 1
          /\ (a + n) + 1 = a + (n + 1)
      BY <1>1, <1>10, Sizes
    <3>2. x[a + n] < x[(a + n) + 1]
      BY <2>2, <3>1
    <3> QED
      BY <1>8, <3>1, <3>2
  <2> QED
    BY <2>1, <2>2 DEF ascending
<1> QED
  BY <1>8, <1>10, <1>11 DEF s, a, b

(* What the decoder makes of well cut bytes.                                  *)
LEMMA UnpackIs ==
  ASSUME NEW x, HintBytes(x)
  PROVE  /\ ~(WellCut(x) /\ RowsAscend(x)) => bit_unpack(x) = NoHint
         /\ WellCut(x) /\ RowsAscend(x) =>
              /\ bit_unpack(x) # NoHint
              /\ \A k \in Rows : ones(bit_unpack(x)[k]) = RowOf(x, k)
<1> DEFINE row == [k \in Rows |->
                     SubSeq(indices(x), 1 + (IF k = 0 THEN 0 ELSE cuts(x)[k]), cuts(x)[k + 1])]
<1>1. bit_unpack(x) = IF WellCut(x) THEN hint_of_rows(row) ELSE NoHint
  BY SplitHint, WellCutIs, Zenon DEF bit_unpack, unpack_hint
<1>2. ASSUME NEW k \in Rows
      PROVE  row[k] = RowOf(x, k)
  <2>1. k + 1 \in 1 .. K /\ k + 1 # 0 /\ (k # 0 => k \in 1 .. K)
    BY Sizes DEF Rows
  <2>2. cuts(x)[k + 1] = Start(x, k + 1) /\ (k # 0 => cuts(x)[k] = Start(x, k))
    BY <2>1 DEF cuts, Start
  <2>3. (IF k = 0 THEN 0 ELSE cuts(x)[k]) = Start(x, k)
    BY <2>2 DEF Start
  <2>4. row[k] = SubSeq(indices(x), 1 + (IF k = 0 THEN 0 ELSE cuts(x)[k]), cuts(x)[k + 1])
    OBVIOUS
  <2> HIDE DEF row
  <2> QED
    BY <2>2, <2>3, <2>4, Zenon DEF RowOf
<1> HIDE DEF row
<1>3. CASE ~WellCut(x)
  BY <1>1, <1>3
<1>4. CASE WellCut(x)
  <2>1. (\A k \in Rows : ascending(row[k])) <=> RowsAscend(x)
    BY <1>2, <1>4, RowIs, Zenon DEF RowsAscend
  <2> DEFINE bits(k) == [j \in Coeff |-> \E n \in DOMAIN row[k] : row[k][n] = j]
  <2>2. hint_of_rows(row) = IF RowsAscend(x) THEN [k \in Rows |-> bits(k)] ELSE NoHint
    <3>1. \A k \in Rows : Array(bits(k)) = bits(k)
      BY ArrayIs, Zenon
    <3>2. [k \in Rows |-> Array(bits(k))] = [k \in Rows |-> bits(k)]
      BY <3>1, Zenon
    <3>3. hint_of_rows(row) =
            IF \A k \in Rows : ascending(row[k]) THEN [k \in Rows |-> Array(bits(k))] ELSE NoHint
      BY ArrayIs, Zenon DEF hint_of_rows
    <3> QED
      BY <2>1, <3>2, <3>3, Zenon
  <2>3. CASE ~RowsAscend(x)
    BY <1>1, <1>4, <2>2, <2>3, Zenon
  <2>4. CASE RowsAscend(x)
    <3>1. bit_unpack(x) = [k \in Rows |-> bits(k)]
      BY <1>1, <1>4, <2>2, <2>4, Zenon
    <3>2. [k \in Rows |-> bits(k)] # NoHint
      <4>1. 0 \in Rows
        BY Sizes DEF Rows
      <4>2. DOMAIN [k \in Rows |-> bits(k)] = Rows /\ DOMAIN NoHint = {}
        BY DEF NoHint
      <4> QED
        BY <4>1, <4>2, Zenon
    <3>3. ASSUME NEW k \in Rows
          PROVE  ones(bits(k)) = RowOf(x, k)
      <4>1. row[k] \in Seq(Coeff) /\ ascending(row[k])
        BY <1>2, <1>4, <2>1, <2>4, RowIs
      <4>2. ones(bits(k)) = row[k]
        BY <4>1, OnesBack, Zenon
      <4> QED
        BY <1>2, <4>2, Zenon
    <3>4. \A k \in Rows : bit_unpack(x)[k] = bits(k)
      BY <3>1, Zenon
    <3> QED
      BY <2>4, <1>4, <3>1, <3>2, <3>3, <3>4, Zenon
  <2> QED
    BY <2>3, <2>4
<1> QED
  BY <1>3, <1>4

(* Rows one after another are the indices up to the last cut.                 *)
LEMMA RowsJoin ==
  ASSUME NEW t \in Seq(Coeff), NEW a \in Nat, NEW b \in Nat, a <= b, b <= Len(t)
  PROVE  SubSeq(t, 1, a) \o SubSeq(t, 1 + a, b) = SubSeq(t, 1, b)
<1> DEFINE u == SubSeq(t, 1, a)
           v == SubSeq(t, 1 + a, b)
           w == SubSeq(t, 1, b)
<1>1. Len(t) \in Nat /\ \A n \in 1 .. Len(t) : t[n] \in Coeff
  BY LenProperties, ElementOfSeq
<1>2. u = [n \in 1 .. a |-> t[n]]
  BY <1>1
<1>3. w = [n \in 1 .. b |-> t[n]]
  BY <1>1
<1>4. v = [n \in 1 .. b - (1 + a) + 1 |-> t[n + (1 + a) - 1]]
  BY <1>1
<1>5. b - (1 + a) + 1 = b - a /\ b - a \in Nat
  OBVIOUS
<1> HIDE DEF u, v, w
<1>6. u \in [1 .. a -> Coeff] /\ w \in [1 .. b -> Coeff]
  BY <1>1, <1>2, <1>3
<1>7. \A n \in 1 .. b - a : v[n] = t[a + n] /\ t[a + n] \in Coeff
  <2>1. ASSUME NEW n \in 1 .. b - a
        PROVE  n + (1 + a) - 1 = a + n /\ a + n \in 1 .. Len(t)
    BY <1>1
  <2> QED
    BY <1>1, <1>4, <1>5, <2>1
<1>8. v \in [1 .. b - a -> Coeff]
  BY <1>4, <1>5, <1>7
<1>9. u \in Seq(Coeff) /\ Len(u) = a /\ v \in Seq(Coeff) /\ Len(v) = b - a
      /\ w \in Seq(Coeff) /\ Len(w) = b
  BY <1>5, <1>6, <1>8
<1>10. /\ u \o v \in Seq(Coeff) /\ Len(u \o v) = Len(u) + Len(v)
       /\ \A n \in 1 .. Len(u) + Len(v) :
            (u \o v)[n] = IF n <= Len(u) THEN u[n] ELSE v[n - Len(u)]
  BY <1>9, ConcatProperties, Zenon
<1>11. Len(u) + Len(v) = b
  BY <1>9
<1> DEFINE s == u \o v
<1>12. ASSUME NEW n \in 1 .. b PROVE s[n] = w[n]
  <2>1. s[n] = IF n <= a THEN u[n] ELSE v[n - a]
    BY <1>9, <1>10, <1>11
  <2> HIDE DEF s
  <2>2. CASE n <= a
    BY <1>2, <1>3, <2>1, <2>2
  <2>3. CASE ~(n <= a)
    <3>1. n - a \in 1 .. b - a /\ a + (n - a) = n
      BY <2>3
    <3> QED
      BY <1>3, <1>7, <2>1, <2>3, <3>1
  <2> QED
    BY <2>2, <2>3
<1>13. s \in Seq(Coeff) /\ Len(s) = b
  BY <1>10, <1>11
<1> HIDE DEF s
<1>14. s = w
  BY <1>9, <1>12, <1>13, SeqEqual
<1> QED
  BY <1>14 DEF s, u, v, w

(* A hint of x's rows packs to x.                                             *)
LEMMA PacksBack ==
  ASSUME NEW x, HintBytes(x), WellCut(x), NEW h, \A k \in Rows : ones(h[k]) = RowOf(x, k)
  PROVE  bit_pack(h) = x
<1> DEFINE t == indices(x)
           c(k) == Start(x, k)
<1>1. /\ \A k \in 0 .. K : c(k) \in 0 .. Omega
      /\ \A i, j \in 0 .. K : i <= j => c(i) <= c(j)
      /\ c(0) = 0 /\ c(K) = x[Omega + K]
  BY Starts
<1>2. t \in Seq(Coeff) /\ Len(t) = Omega /\ cuts(x) \in Seq(Nat) /\ t \o cuts(x) = x
  BY SplitHint
<1>3. t = [n \in 1 .. Omega |-> t[n]] /\ \A n \in 1 .. Omega : t[n] = x[n]
  BY DEF indices
<1>4. PICK f \in [0 .. K -> Seq(Coeff)] : RowsRun(h, f) /\ bit_pack(h) = packed(f)
  BY BitPackIs
<1>5. \A k \in Rows : RowOf(x, k) = SubSeq(t, 1 + c(k), c(k + 1))
  BY DEF RowOf
<1> HIDE DEF t, c
<1> DEFINE T == {k \in 0 .. K : f[k] = SubSeq(t, 1, c(k))}
<1>6. 0 \in T
  <2>1. f[0] = << >>
    BY <1>4, Sizes DEF RowsRun
  <2>2. SubSeq(t, 1, 0) = << >>
    OBVIOUS
  <2> QED
    BY <1>1, <2>1, <2>2, Sizes
<1>7. ASSUME NEW k \in 1 .. K, k - 1 \in T
      PROVE  k \in T
  <2>1. k \in 0 .. K /\ k # 0 /\ k - 1 \in 0 .. K /\ k - 1 \in Rows /\ (k - 1) + 1 = k /\ k - 1 <= k
    BY Sizes DEF Rows
  <2>2. f[k] = f[k - 1] \o ones(h[k - 1])
    BY <1>4, <2>1, Zenon DEF RowsRun
  <2>3. f[k] = SubSeq(t, 1, c(k - 1)) \o SubSeq(t, 1 + c(k - 1), c(k))
    BY <1>5, <1>7, <2>1, <2>2
  <2>4. c(k - 1) \in Nat /\ c(k) \in Nat /\ c(k - 1) <= c(k) /\ c(k) <= Len(t)
    BY <1>1, <1>2, <2>1, Sizes
  <2>5. f[k] = SubSeq(t, 1, c(k))
    BY <1>2, <2>3, <2>4, RowsJoin
  <2> QED
    BY <2>1, <2>5
<1>8. \A k \in 0 .. K : k \in T
  <2> HIDE DEF T
  <2> QED
    BY <1>6, <1>7, Sizes, UpTo
<1>9. ASSUME NEW k \in 0 .. K
      PROVE  f[k] = SubSeq(t, 1, c(k)) /\ Len(f[k]) = c(k)
  <2>1. f[k] = SubSeq(t, 1, c(k))
    BY <1>8
  <2>2. c(k) \in Nat /\ c(k) <= Len(t) /\ Len(t) \in Nat
    BY <1>1, <1>2, Sizes
  <2> QED
    BY <1>2, <2>1, <2>2
<1>10. [k \in 1 .. K |-> Len(f[k])] = cuts(x)
  <2>1. ASSUME NEW k \in 1 .. K PROVE Len(f[k]) = x[Omega + k]
    <3>1. k \in 0 .. K /\ k # 0
      BY Sizes
    <3>2. c(k) = x[Omega + k]
      BY <3>1 DEF c, Start
    <3> QED
      BY <1>9, <3>1, <3>2
  <2> QED
    BY <2>1 DEF cuts
<1> DEFINE zeros == [n \in 1 .. Omega |-> 0]
           g == f[K]
           m == c(K)
<1>11. g \in Seq(Coeff) /\ Len(g) = m /\ m \in 0 .. Omega /\ \A n \in 1 .. m : g[n] = t[n]
  <2>1. K \in 0 .. K
    BY Sizes
  <2>2. g = SubSeq(t, 1, m) /\ Len(g) = m /\ m \in 0 .. Omega /\ g \in Seq(Coeff)
    BY <1>1, <1>4, <1>9, <2>1
  <2> HIDE DEF g, m
  <2>3. SubSeq(t, 1, m) = [n \in 1 .. m |-> t[n]]
    BY <1>2, <2>2, Sizes
  <2> QED
    BY <2>2, <2>3
<1>12. \A n \in m + 1 .. Omega : t[n] = 0
  <2>1. \A n \in m + 1 .. Omega : n \in 1 .. Omega /\ x[n] = 0
    BY <1>1, <1>11, Sizes DEF WellCut
  <2> QED
    BY <1>3, <2>1
<1>13. zeros \in Seq(Coeff) /\ Len(zeros) = Omega /\ \A n \in 1 .. Omega : zeros[n] = 0
  BY Sizes
<1> HIDE DEF g, m, zeros
<1>14. SubSeq(g \o zeros, 1, Omega) = t
  <2> DEFINE all == g \o zeros
  <2>1. /\ all \in Seq(Coeff) /\ Len(all) = Len(g) + Len(zeros)
        /\ \A n \in 1 .. Len(g) + Len(zeros) :
             all[n] = IF n <= Len(g) THEN g[n] ELSE zeros[n - Len(g)]
    BY <1>11, <1>13, ConcatProperties, Zenon
  <2> HIDE DEF all
  <2>2. ASSUME NEW n \in 1 .. Omega PROVE all[n] = t[n]
    <3>1. n \in 1 .. m + Omega /\ Len(g) + Len(zeros) = m + Omega
      BY <1>11, <1>13, Sizes
    <3>2. all[n] = IF n <= m THEN g[n] ELSE zeros[n - m]
      BY <1>11, <2>1, <3>1
    <3>3. CASE n <= m
      BY <1>11, <3>2, <3>3
    <3>4. CASE ~(n <= m)
      <4>1. n \in m + 1 .. Omega /\ n - m \in 1 .. Omega
        BY <1>11, <3>4, Sizes
      <4> QED
        BY <1>12, <1>13, <3>2, <3>4, <4>1
    <3> QED
      BY <3>3, <3>4
  <2>3. Omega <= Len(all) /\ Len(all) \in Nat
    BY <1>11, <1>13, <2>1, Sizes
  <2>4. SubSeq(all, 1, Omega) = [n \in 1 .. Omega |-> all[n]]
    BY <2>1, <2>3, Sizes
  <2>5. SubSeq(all, 1, Omega) = t
    BY <1>3, <2>2, <2>4
  <2> QED
    BY <2>5 DEF all
<1>15. packed(f) = SubSeq(g \o zeros, 1, Omega) \o [k \in 1 .. K |-> Len(f[k])]
  BY DEF packed, g, zeros
<1> QED
  BY <1>2, <1>4, <1>10, <1>14, <1>15

-----------------------------------------------------------------------------
(* The hint's bytes of an encoded signature are those bit_pack made.          *)
LEMMA MaskBits ==
  RangeEncodingBits(Gamma1 - 1, Gamma1) \in 1 .. 30
<1>1. PICK e \in 1 .. 30 : Gamma1 = 2^e
  BY ParameterSet
<1>2. 2 * Gamma1 < Q /\ Q < 2^30 /\ Q \in Nat
  BY ParameterSet, FieldConstants
<1>3. Gamma1 \in Nat \ {0}
  <2>1. CASE e = 30
    BY <1>1, <2>1, PowerTable
  <2>2. CASE e # 30
    <3>1. e \in 0 .. 29
      BY <2>2
    <3> QED
      BY <1>1, <3>1, Powers
  <2> QED
    BY <2>1, <2>2
<1> DEFINE x == (Gamma1 - 1) + Gamma1
<1>4. x \in Nat \ {0} /\ x < Q
  BY <1>2, <1>3
<1>5. x < 2^30
  <2> HIDE DEF x
  <2>1. 2^30 \in Nat
    BY SMT
  <2> QED
    BY <1>2, <1>4, <2>1
<1> HIDE DEF x
<1>6. ilog2(x) \in 0 .. 29
  BY <1>4, <1>5, Log2
<1>7. RangeEncodingBits(Gamma1 - 1, Gamma1) = ilog2(x) + 1
  BY DEF RangeEncodingBits, x
<1> QED
  BY <1>6, <1>7

LEMMA EncodedSize ==
  EncodedPolynomialSize(RangeEncodingBits(Gamma1 - 1, Gamma1)) \in Nat
<1> DEFINE d == RangeEncodingBits(Gamma1 - 1, Gamma1)
<1>1. d \in Nat /\ N \in Nat
  BY MaskBits, FieldConstants
<1> HIDE DEF d
<1>2. N * d \in Nat
  BY <1>1
<1>3. (N * d) \div 8 \in Nat
  BY <1>2, DivMod
<1> QED
  BY <1>3 DEF EncodedPolynomialSize, d

LEMMA PackedPolynomial ==
  ASSUME NEW a, NEW b, NEW f
  PROVE  IsArray(EncodedPolynomialSize(RangeEncodingBits(a, b)), pack(a, b, f))
<1>1. ASSUME NEW d, NEW v
      PROVE  IsArray(EncodedPolynomialSize(d), byte_encode(d, v))
  BY ArrayIs, Zenon DEF byte_encode, IsArray
<1> QED
  BY <1>1, Zenon DEF pack

LEMMA MaskBytes ==
  ASSUME NEW z
  PROVE  IsArray(ZSize, encode_z(z))
<1> DEFINE e(r) == pack(Gamma1 - 1, Gamma1, z[r])
           arrays == [r \in 0 .. L - 1 |-> e(r)]
           size == EncodedPolynomialSize(RangeEncodingBits(Gamma1 - 1, Gamma1))
<1>1. 0 \in 0 .. L - 1
  BY ParameterSet
<1>2. arrays[0] = e(0)
  BY <1>1
<1>3. IsArray(size, e(0))
  BY PackedPolynomial, Zenon
<1>4. size \in Nat
  BY EncodedSize
<1> HIDE DEF size, e
<1>5. Len(e(0)) = size
  BY <1>3, <1>4, AsSequence
<1>6. Len(arrays[0]) = size
  BY <1>2, <1>5
<1>7. encode_z(z) = flatten(L, arrays)
  BY ArrayIs, Zenon DEF encode_z, pack_vec, e
<1> HIDE DEF arrays
<1>8. IsArray(L * Len(arrays[0]), flatten(L, arrays))
  BY ArrayIs, Zenon DEF flatten, IsArray
<1>9. ZSize = L * size
  BY DEF ZSize, size
<1> QED
  BY <1>6, <1>7, <1>8, <1>9

LEMMA HintOfSent ==
  ASSUME NEW c, NEW z, NEW y, IsArray(Lambda, c), IsArray(ZSize, z), ZSize \in Nat,
         y \in Seq(Nat), Len(y) = HintSize
  PROVE  split_sig(concat_sig(c, z, y))[3] = y
<1> DEFINE A == {c[i] : i \in 1 .. Lambda} \cup {z[i] : i \in 1 .. ZSize} \cup Nat
<1>1. Lambda \in Nat /\ HintSize \in Nat
  BY ParameterSet, Sizes
<1>2. c \in Seq(A) /\ Len(c) = Lambda
  <2>1. c \in [1 .. Lambda -> A]
    BY DEF IsArray
  <2> HIDE DEF A
  <2> QED
    BY <1>1, <2>1
<1>3. z \in Seq(A) /\ Len(z) = ZSize
  <2>1. z \in [1 .. ZSize -> A]
    BY DEF IsArray
  <2> HIDE DEF A
  <2> QED
    BY <2>1
<1>4. y \in Seq(A)
  <2>1. y \in [1 .. HintSize -> Nat]
    OBVIOUS
  <2>2. y \in [1 .. HintSize -> A]
    BY <2>1
  <2> HIDE DEF A
  <2> QED
    BY <1>1, <2>2
<1> HIDE DEF A
<1> DEFINE u == c \o z
           s == u \o y
<1>5. u \in Seq(A) /\ Len(u) = Lambda + ZSize
  BY <1>2, <1>3, ConcatProperties
<1> HIDE DEF u
<1>6. /\ s \in Seq(A) /\ Len(s) = Len(u) + Len(y)
      /\ \A n \in 1 .. Len(u) + Len(y) : s[n] = IF n <= Len(u) THEN u[n] ELSE y[n - Len(u)]
  BY <1>4, <1>5, ConcatProperties, Zenon
<1> DEFINE m == Lambda + ZSize
<1>7. m \in Nat /\ Len(u) = m /\ Len(s) = m + HintSize
  BY <1>1, <1>5, <1>6
<1>8. split_sig(concat_sig(c, z, y))[3] = SubSeq(s, m + 1, m + HintSize)
  BY DEF split_sig, concat_sig, Slice, s, u
<1> HIDE DEF s, m
<1>9. SubSeq(s, m + 1, m + HintSize)
        = [n \in 1 .. (m + HintSize) - (m + 1) + 1 |-> s[n + (m + 1) - 1]]
  BY <1>1, <1>6, <1>7
<1>10. (m + HintSize) - (m + 1) + 1 = HintSize
  BY <1>1, <1>7
<1>11. ASSUME NEW n \in 1 .. HintSize
       PROVE  s[n + (m + 1) - 1] = y[n]
  <2>1. /\ n + (m + 1) - 1 = m + n /\ m + n \in 1 .. m + HintSize
        /\ ~(m + n <= m) /\ (m + n) - m = n
    BY <1>1, <1>7
  <2> QED
    BY <1>6, <1>7, <2>1
<1>12. y = [n \in 1 .. HintSize |-> y[n]]
  BY <1>1
<1> QED
  BY <1>8, <1>9, <1>10, <1>11, <1>12

-----------------------------------------------------------------------------
LEMMA QNonzero ==
  Q \in Nat \ {0}
BY Field

(* The field's operations are those of the integers modulo Q.                 *)
LEMMA SmallReduce ==
  ASSUME NEW x \in 0 .. 2 * Q - 1
  PROVE  small_reduce(x) = x % Q /\ small_reduce(x) \in Elem
<1>1. Q \in Nat /\ Q > 2
  BY Field
<1>2. CASE x < Q
  BY <1>1, <1>2 DEF small_reduce, Elem
<1>3. CASE x >= Q
  <2>1. x - Q \in 0 .. Q - 1 /\ x = Q * 1 + (x - Q)
    BY <1>1, <1>3
  <2>2. x % Q = x - Q
    BY <1>1, <2>1, DivUnique
  <2> QED
    BY <1>1, <1>3, <2>1, <2>2 DEF small_reduce, Elem
<1> QED
  BY <1>1, <1>2, <1>3

LEMMA Products ==
  ASSUME NEW x \in Elem, NEW y \in Elem
  PROVE  x * y \in 0 .. Q * Q - 1
<1>1. Q \in Nat /\ Q > 2 /\ x \in Nat /\ y \in Nat /\ x <= Q - 1 /\ y <= Q - 1 /\ Q - 1 \in Nat
  BY Field DEF Elem
<1>2. x * y <= (Q - 1) * y
  BY <1>1, MulMono
<1>3. (Q - 1) * y <= (Q - 1) * (Q - 1)
  BY <1>1, MulMono
<1>4. (Q - 1) * (Q - 1) < Q * Q
  BY <1>1
<1>5. x * y \in Nat /\ (Q - 1) * y \in Nat /\ (Q - 1) * (Q - 1) \in Nat /\ Q * Q \in Nat
  BY <1>1
<1> QED
  BY <1>2, <1>3, <1>4, <1>5

LEMMA BarrettExact ==
  ASSUME NEW x \in 0 .. Q * Q - 1
  PROVE  barrett_reduce(x) = x % Q
<1> DEFINE q == (x * BARRETT_MULTIPLIER) \div BARRETT_UNIT
           y == x - Q * q
<1>1. Q \in Nat \ {0} /\ Q < 2^30 /\ Q * Q \in Nat
  BY Field
<1>2. BARRETT_UNIT \in Nat /\ BARRETT_UNIT > Q * Q
  BY <1>1, BarrettUnitAbove DEF BARRETT_UNIT
<1>3. x \in Nat /\ x < Q * Q
  BY <1>1
<1>4. q \in Nat /\ y \in 0 .. 2 * Q - 1
  BY <1>1, <1>2, <1>3, BarrettQuotient DEF BARRETT_MULTIPLIER
<1>5. barrett_reduce(x) = small_reduce(y)
  BY DEF barrett_reduce
<1>6. Q * q \in Int /\ x = Q * q + y
  BY <1>1, <1>3, <1>4
<1> HIDE DEF q, y
<1>7. y % Q = x % Q
  <2>0. y \in Nat
    BY <1>1, <1>4
  <2>1. y = Q * (y \div Q) + (y % Q) /\ y % Q \in 0 .. Q - 1 /\ y \div Q \in Nat
    BY <2>0, QNonzero, DivMod
  <2>2. x = Q * (q + (y \div Q)) + (y % Q)
    BY <1>1, <1>4, <1>6, <2>1
  <2>3. q + (y \div Q) \in Nat
    BY <1>4, <2>1
  <2> QED
    BY <1>1, <2>1, <2>2, <2>3, DivUnique
<1> QED
  BY <1>4, <1>5, <1>7, SmallReduce

LEMMA FieldOps ==
  ASSUME NEW x \in Elem, NEW y \in Elem
  PROVE  /\ ElemAdd(x, y) = (x + y) % Q /\ ElemAdd(x, y) \in Elem
         /\ ElemSub(x, y) = (x - y) % Q /\ ElemSub(x, y) \in Elem
         /\ ElemNeg(x) = (-x) % Q /\ ElemNeg(x) \in Elem
         /\ ElemMul(x, y) = (x * y) % Q /\ ElemMul(x, y) \in Elem
<1>1. Q \in Nat /\ Q > 2
  BY Field
<1>2. x + y \in 0 .. 2 * Q - 1 /\ x + Q - y \in 0 .. 2 * Q - 1 /\ Q - x \in 0 .. 2 * Q - 1
  BY <1>1 DEF Elem
<1>3. (x + Q - y) % Q = (x - y) % Q /\ (Q - x) % Q = (-x) % Q
  BY <1>1 DEF Elem
<1>4. ElemMul(x, y) = (x * y) % Q /\ (x * y) % Q \in Elem
  <2>1. x * y \in 0 .. Q * Q - 1
    BY Products
  <2>2. x * y \in Nat
    BY <1>1 DEF Elem
  <2>3. (x * y) % Q \in 0 .. Q - 1
    BY <2>2, QNonzero, DivMod
  <2> QED
    BY <2>1, <2>3, BarrettExact DEF ElemMul, Elem
<1> QED
  BY <1>2, <1>3, <1>4, SmallReduce DEF ElemAdd, ElemSub, ElemNeg
-----------------------------------------------------------------------------
(* A recurrence whose n-th value is of the n-th kind.                         *)
LEMMA Levels ==
  ASSUME NEW n \in Nat, NEW V, NEW init \in V[0], NEW step,
         \A j \in 1 .. n : \A v \in V[j - 1] : step[j][v] \in V[j]
  PROVE  \E g : Iterates(n, init, step, g) /\ \A j \in 0 .. n : g[j] \in V[j]
<1> DEFINE U == UNION {V[j] : j \in 0 .. n}
           total == [j \in 1 .. n |-> [v \in U |-> IF v \in V[j - 1] THEN step[j][v] ELSE init]]
<1>1. init \in U
  <2>1. 0 \in 0 .. n
    OBVIOUS
  <2> QED
    BY <2>1, Zenon
<1>2. total \in [1 .. n -> [U -> U]]
  <2>1. \A j \in 1 .. n : j \in 0 .. n /\ j - 1 \in 0 .. n
    OBVIOUS
  <2>2. ASSUME NEW j \in 1 .. n, NEW v \in U
        PROVE  (IF v \in V[j - 1] THEN step[j][v] ELSE init) \in U
    <3>1. CASE v \in V[j - 1]
      <4>1. step[j][v] \in V[j]
        BY <3>1
      <4> QED
        BY <2>1, <3>1, <4>1, Zenon
    <3>2. CASE v \notin V[j - 1]
      BY <1>1, <3>2, Zenon
    <3> QED
      BY <3>1, <3>2, Zenon
  <2> HIDE DEF U
  <2> QED
    BY <2>2
<1>3. \A j \in 1 .. n : \A v \in V[j - 1] : total[j][v] = step[j][v]
  <2>1. \A j \in 1 .. n : j - 1 \in 0 .. n
    OBVIOUS
  <2>2. \A j \in 1 .. n : \A v \in V[j - 1] : v \in U
    BY <2>1, Zenon
  <2> HIDE DEF U
  <2> QED
    BY <2>2
<1> HIDE DEF U, total
<1>4. PICK g \in [0 .. n -> U] : Iterates(n, init, total, g)
  BY <1>1, <1>2, IteratesExist, Zenon
<1> DEFINE T == {j \in 0 .. n : g[j] \in V[j]}
<1>5. g[0] = init /\ \A j \in 1 .. n : g[j] = total[j][g[j - 1]]
  <2>1. \A j \in 0 .. n : g[j] = IF j = 0 THEN init ELSE total[j][g[j - 1]]
    BY <1>4, Zenon DEF Iterates
  <2>2. 0 \in 0 .. n /\ \A j \in 1 .. n : j \in 0 .. n /\ j # 0
    OBVIOUS
  <2> QED
    BY <2>1, <2>2, Zenon
<1>6. \A j \in 0 .. n : j \in T
  <2>1. 0 \in T
    BY <1>5
  <2>2. \A j \in 1 .. n : j - 1 \in T => j \in T
    BY <1>3, <1>5
  <2> HIDE DEF T
  <2> QED
    BY <2>1, <2>2, UpTo
<1>7. \A j \in 1 .. n : g[j] = step[j][g[j - 1]]
  <2>1. \A j \in 1 .. n : j - 1 \in 0 .. n
    OBVIOUS
  <2> QED
    BY <1>3, <1>5, <1>6, <2>1
<1>8. Iterates(n, init, step, g)
  <2>1. \A j \in 0 .. n : g[j] = IF j = 0 THEN init ELSE step[j][g[j - 1]]
    <3>1. \A j \in 0 .. n : j = 0 \/ j \in 1 .. n
      OBVIOUS
    <3> QED
      BY <1>5, <1>7, <3>1, Zenon
  <2> QED
    BY <1>4, <2>1, Zenon DEF Iterates
<1> QED
  BY <1>6, <1>8

-----------------------------------------------------------------------------
LEMMA PowerSum ==
  ASSUME NEW a \in Nat, NEW b \in Nat, a + b <= 29
  PROVE  /\ 2^(a + b) = 2^a * 2^b
         /\ 2^a \in Nat \ {0} /\ 2^b \in Nat \ {0} /\ 2^(a + b) \in Nat \ {0}
<1> DEFINE T == {j \in 0 .. b : 2^(a + j) = 2^a * 2^j}
<1>1. \A k \in 0 .. 29 : 2^k \in Nat \ {0} /\ 2^(k + 1) = 2 * 2^k
  BY Powers
<1>2. a \in 0 .. 29 /\ b \in 0 .. 29 /\ a + b \in 0 .. 29
  OBVIOUS
<1>3. 2^a \in Nat \ {0} /\ 2^b \in Nat \ {0} /\ 2^(a + b) \in Nat \ {0}
  BY <1>1, <1>2, Zenon
<1>4. 0 \in T
  <2>1. a + 0 = a /\ 2^0 = 1
    BY PowerTable
  <2> QED
    BY <1>3, <2>1
<1>5. ASSUME NEW j \in 1 .. b, j - 1 \in T
      PROVE  j \in T
  <2>1. /\ j - 1 \in 0 .. 29 /\ (j - 1) + 1 = j
        /\ a + (j - 1) \in 0 .. 29 /\ (a + (j - 1)) + 1 = a + j
    OBVIOUS
  <2>2. /\ 2^j = 2 * 2^(j - 1) /\ 2^(j - 1) \in Nat
        /\ 2^(a + j) = 2 * 2^(a + (j - 1)) /\ 2^(a + (j - 1)) \in Nat
    BY <1>1, <2>1, Zenon
  <2>3. 2^(a + (j - 1)) = 2^a * 2^(j - 1)
    BY <1>5
  <2>4. ASSUME NEW x \in Nat, NEW y \in Nat
        PROVE  2 * (x * y) = x * (2 * y)
    OBVIOUS
  <2> QED
    BY <1>3, <2>2, <2>3, <2>4
<1>6. b \in T
  <2>1. \A j \in 0 .. b : j \in T
    BY <1>4, <1>5, UpTo
  <2> QED
    BY <2>1
<1> QED
  BY <1>3, <1>6

LEMMA Lengths ==
  /\ LOGN \in 3 .. 29 /\ N = 2^LOGN /\ N \in Nat \ {0}
  /\ \A k \in 0 .. LOGN : 2^k \in Nat \ {0} /\ 2^(LOGN - k) \in Nat \ {0}
                          /\ 2^k * 2^(LOGN - k) = N
<1>1. LOGN \in 3 .. 29 /\ N = 2^LOGN /\ N \in Nat \ {0}
  BY NttConstants, Field
<1>2. ASSUME NEW k \in 0 .. LOGN
      PROVE  2^k \in Nat \ {0} /\ 2^(LOGN - k) \in Nat \ {0} /\ 2^k * 2^(LOGN - k) = N
  <2>1. k \in Nat /\ LOGN - k \in Nat /\ k + (LOGN - k) = LOGN /\ k + (LOGN - k) <= 29
    BY <1>1
  <2> QED
    BY <1>1, <2>1, PowerSum
<1> QED
  BY <1>1, <1>2

(* A layer's blocks cover the coefficients.                                   *)
LEMMA Blocks ==
  ASSUME NEW len \in Nat \ {0}, NEW B \in Nat \ {0}, N = B * (2 * len), NEW j \in Coeff
  PROVE  /\ j \div (2 * len) \in 0 .. B - 1 /\ Low(j, len) \in BOOLEAN
         /\ Low(j, len) => j + len \in Coeff
         /\ ~Low(j, len) => j - len \in Coeff
         /\ N \div (2 * len) = B
<1> DEFINE M == 2 * len
           q == j \div M
           r == j % M
<1>1. M \in Nat \ {0} /\ len \in Nat /\ M = 2 * len /\ len < M
  OBVIOUS
<1>2. j \in Nat /\ j <= N - 1 /\ N \in Nat /\ Coeff = 0 .. N - 1
  BY Field DEF Coeff
<1> HIDE DEF M
<1>3. q \in Nat /\ r \in 0 .. M - 1 /\ j = M * q + r
  BY <1>1, <1>2, DivMod
<1> HIDE DEF q, r
<1>4. N = B * M
  BY DEF M
<1>5. q <= B - 1
  <2>1. CASE B <= q
    <3>1. B * M <= q * M /\ q * M \in Nat /\ q * M = M * q
      BY <1>1, <1>3, <2>1, MulMono
    <3> QED
      BY <1>2, <1>3, <1>4, <3>1, <1>1
  <2> QED
    BY <1>3, <2>1
<1>6. M * q + M <= N
  <2>1. (q + 1) * M <= B * M
    BY <1>1, <1>3, <1>5, MulMono
  <2>2. (q + 1) * M = M * q + M
    BY <1>1, <1>3
  <2> QED
    BY <1>4, <2>1, <2>2
<1>7. N \div M = B
  <2>1. N = M * B + 0 /\ 0 \in 0 .. M - 1 /\ B \in Nat
    BY <1>1, <1>4
  <2> QED
    BY <1>1, <2>1, DivUnique
<1>8. Low(j, len) <=> r < len
  BY DEF Low, r, M
<1>9. M * q \in Nat
  BY <1>1, <1>3
<1>10. r < len => j + len \in Coeff
  BY <1>1, <1>2, <1>3, <1>6, <1>9
<1>11. ~(r < len) => j - len \in Coeff
  BY <1>1, <1>2, <1>3, <1>9
<1>12. q \in 0 .. B - 1
  BY <1>3, <1>5
<1> QED
  BY <1>7, <1>8, <1>10, <1>11, <1>12 DEF q, M, Low
-----------------------------------------------------------------------------
(* The table of powers and that it holds residues.                            *)
LEMMA PowIs ==
  /\ pow[0] = 1
  /\ \A j \in Coeff : pow[j] \in Elem
  /\ \A j \in 1 .. N - 1 : pow[j] = (pow[j - 1] * ZETA) % Q
<1> DEFINE F(v) == (v * ZETA) % Q
           n == N - 1
           V == [j \in 0 .. n |-> Elem]
           step == [j \in 1 .. n |-> [v \in Elem |-> F(v)]]
           P(g) == g = [j \in Coeff |-> IF j = 0 THEN 1 ELSE (g[j - 1] * ZETA) % Q]
<1>1. n \in Nat /\ Coeff = 0 .. n /\ Q \in Nat /\ Q > 2 /\ ZETA \in Elem
  BY Field, NttConstants DEF Coeff
<1>2. 1 \in Elem
  BY <1>1 DEF Elem
<1>3. ASSUME NEW v \in Elem
      PROVE  F(v) \in Elem
  <2>1. v * ZETA \in Nat
    BY <1>1 DEF Elem
  <2> HIDE DEF F
  <2>2. F(v) = (v * ZETA) % Q
    BY DEF F
  <2> QED
    BY <2>1, <2>2, QNonzero, DivMod DEF Elem
<1>4. \E g : P(g)
  <2>1. PICK g : Iterates(n, 1, step, g) /\ \A j \in 0 .. n : g[j] \in V[j]
    <3>1. 1 \in V[0]
      BY <1>1, <1>2
    <3>2. \A j \in 1 .. n : \A v \in V[j - 1] : step[j][v] \in V[j]
      BY <1>1, <1>3
    <3> HIDE DEF V, step
    <3> QED
      BY <1>1, <3>1, <3>2, Levels
  <2>2. \A j \in 0 .. n : j # 0 => g[j - 1] \in Elem
    BY <1>1, <2>1
  <2>3. \A j \in 1 .. n, v \in Elem : step[j][v] = (v * ZETA) % Q
    OBVIOUS
  <2> HIDE DEF step, V
  <2>4. \A j \in 0 .. n : j # 0 => step[j][g[j - 1]] = (g[j - 1] * ZETA) % Q
    BY <1>1, <2>2, <2>3
  <2>5. g = [j \in 0 .. n |-> IF j = 0 THEN 1 ELSE step[j][g[j - 1]]]
    BY <2>1 DEF Iterates
  <2>6. P(g)
    BY <1>1, <2>4, <2>5
  <2> HIDE DEF P
  <2> QED
    BY <2>6
<1>5. pow = CHOOSE g : P(g)
  BY Zenon DEF pow
<1>6. P(pow)
  <2> HIDE DEF P
  <2> QED
    BY <1>4, <1>5
<1> DEFINE T == {j \in 0 .. n : pow[j] \in Elem}
<1>7. 0 \in T /\ \A j \in 1 .. n : j - 1 \in T => j \in T
  <2>1. \A j \in 0 .. n : pow[j] = IF j = 0 THEN 1 ELSE (pow[j - 1] * ZETA) % Q
    BY <1>1, <1>6
  <2>2. \A j \in 1 .. n : pow[j] = F(pow[j - 1])
    BY <2>1
  <2> QED
    BY <1>1, <1>2, <1>3, <2>1, <2>2
<1>8. \A j \in 0 .. n : j \in T
  <2> HIDE DEF T
  <2> QED
    BY <1>1, <1>7, UpTo
<1>9. pow[0] = 1 /\ \A j \in 1 .. n : pow[j] = (pow[j - 1] * ZETA) % Q
  <2>1. \A j \in 0 .. n : pow[j] = IF j = 0 THEN 1 ELSE (pow[j - 1] * ZETA) % Q
    BY <1>1, <1>6
  <2> QED
    BY <1>1, <2>1
<1> QED
  BY <1>1, <1>8, <1>9

LEMMA PowTyped ==
  ASSUME NEW i \in Coeff
  PROVE  pow[i] \in Elem
BY PowIs

-----------------------------------------------------------------------------
(* The values of bitrev's loop.                                               *)
ReversalRun(x, r) ==
  r = [b \in 0 .. LOGN |-> IF b = 0 THEN 0 ELSE 2 * r[b - 1] + ((x \div 2^(b - 1)) % 2)]

LEMMA BitrevIs ==
  ASSUME NEW x \in Nat
  PROVE  \E r : ReversalRun(x, r) /\ bitrev(x) = r[LOGN] /\ \A b \in 0 .. LOGN : r[b] \in 0 .. 2^b - 1
<1> DEFINE V == [j \in 0 .. LOGN |-> 0 .. 2^j - 1]
           step == [j \in 1 .. LOGN |-> [v \in V[j - 1] |-> 2 * v + ((x \div 2^(j - 1)) % 2)]]
           P(g) == g = [j \in 0 .. LOGN |-> IF j = 0 THEN 0 ELSE 2 * g[j - 1] + ((x \div 2^(j - 1)) % 2)]
<1>1. LOGN \in Nat
  BY Lengths
<1>2. 0 \in V[0]
  BY <1>1, PowerTable
<1>3. ASSUME NEW j \in 1 .. LOGN, NEW v \in V[j - 1]
      PROVE  2 * v + ((x \div 2^(j - 1)) % 2) \in V[j]
  <2>1. /\ j - 1 \in 0 .. LOGN /\ j - 1 \in 0 .. 29 /\ (j - 1) + 1 = j
        /\ j \in 0 .. LOGN
    BY Lengths
  <2>2. v \in 0 .. 2^(j - 1) - 1 /\ V[j] = 0 .. 2^j - 1
    BY <2>1, Zenon
  <2>3. 2^(j - 1) \in Nat \ {0} /\ 2^j = 2 * 2^(j - 1)
    BY <2>1, Powers, Zenon
  <2> DEFINE w == 2^(j - 1)
             q == x \div w
  <2>4. q \in Nat
    BY <2>3, DivMod
  <2> HIDE DEF V
  <2>5. w \in Nat \ {0} /\ 2^j = 2 * w /\ v \in 0 .. w - 1
    BY <2>2, <2>3
  <2> HIDE DEF w, q
  <2>6. 2 * v + (q % 2) \in 0 .. 2 * w - 1
    BY <2>4, <2>5
  <2> QED
    BY <2>2, <2>5, <2>6 DEF w, q
<1>4. \E g : P(g) /\ \A j \in 0 .. LOGN : g[j] \in V[j]
  <2>1. \A j \in 1 .. LOGN : \A v \in V[j - 1] : step[j][v] = 2 * v + ((x \div 2^(j - 1)) % 2)
    <3> HIDE DEF V
    <3> QED
      OBVIOUS
  <2>2. \A j \in 1 .. LOGN : \A v \in V[j - 1] : step[j][v] \in V[j]
    <3> HIDE DEF V, step
    <3> QED
      BY <1>3, <2>1
  <2> HIDE DEF V, step
  <2>3. PICK g : Iterates(LOGN, 0, step, g) /\ \A j \in 0 .. LOGN : g[j] \in V[j]
    BY <1>1, <1>2, <2>2, Levels
  <2>4. \A j \in 0 .. LOGN : j # 0 => j \in 1 .. LOGN /\ j - 1 \in 0 .. LOGN
    BY <1>1
  <2>5. \A j \in 0 .. LOGN : j # 0 => step[j][g[j - 1]] = 2 * g[j - 1] + ((x \div 2^(j - 1)) % 2)
    BY <2>1, <2>3, <2>4, Zenon
  <2>6. g = [j \in 0 .. LOGN |-> IF j = 0 THEN 0 ELSE step[j][g[j - 1]]]
    BY <2>3, Zenon DEF Iterates
  <2>7. P(g)
    BY <2>5, <2>6, Zenon
  <2> HIDE DEF P
  <2> QED
    BY <2>3, <2>7, Zenon
<1> DEFINE r[j \in 0 .. LOGN] == IF j = 0 THEN 0 ELSE 2 * r[j - 1] + ((x \div 2^(j - 1)) % 2)
<1>5. P(r)
  <2>1. r = CHOOSE g : P(g)
    OBVIOUS
  <2> HIDE DEF P, r
  <2> QED
    BY <1>4, <2>1, Zenon
<1>6. bitrev(x) = r[LOGN]
  BY Zenon DEF bitrev
<1> HIDE DEF r
<1>7. \A j \in 0 .. LOGN : r[j] \in V[j]
  <2> DEFINE T == {j \in 0 .. LOGN : r[j] \in V[j]}
  <2>1. 0 \in 0 .. LOGN /\ \A j \in 1 .. LOGN : j \in 0 .. LOGN /\ j # 0
    BY <1>1
  <2>2. r[0] = 0 /\ \A j \in 1 .. LOGN : r[j] = 2 * r[j - 1] + ((x \div 2^(j - 1)) % 2)
    <3>1. \A j \in 0 .. LOGN : r[j] = IF j = 0 THEN 0 ELSE 2 * r[j - 1] + ((x \div 2^(j - 1)) % 2)
      BY <1>5, Zenon
    <3> QED
      BY <2>1, <3>1, Zenon
  <2> HIDE DEF V
  <2>3. 0 \in T
    BY <1>2, <2>1, <2>2, Zenon
  <2>4. \A j \in 1 .. LOGN : j - 1 \in T => j \in T
    BY <1>3, <2>1, <2>2, Zenon
  <2> HIDE DEF T
  <2>5. \A j \in 0 .. LOGN : j \in T
    BY <1>1, <2>3, <2>4, UpTo
  <2> QED
    BY <2>5, Zenon DEF T
<1>8. ReversalRun(x, r)
  BY <1>5, Zenon DEF ReversalRun
<1>9. \A b \in 0 .. LOGN : r[b] \in 0 .. 2^b - 1
  BY <1>7, Zenon
<1> QED
  BY <1>6, <1>8, <1>9

LEMMA RootsTyped ==
  ASSUME NEW i \in Coeff
  PROVE  bitrev(i) \in Coeff /\ ZETA_POW_BITREV[i] \in Elem
<1>1. i \in Nat
  BY Field DEF Coeff
<1>2. bitrev(i) \in Coeff
  <2>1. PICK r : bitrev(i) = r[LOGN] /\ \A b \in 0 .. LOGN : r[b] \in 0 .. 2^b - 1
    BY <1>1, BitrevIs
  <2>2. LOGN \in 0 .. LOGN /\ 2^LOGN = N
    BY Lengths
  <2> QED
    BY <2>1, <2>2 DEF Coeff
<1>3. pow[bitrev(i)] \in Elem
  BY <1>2, PowTyped
<1>4. ZETA_POW_BITREV = [j \in Coeff |-> IF j = 0 THEN 0 ELSE pow[bitrev(j)]]
  BY ArrayIs, Zenon DEF ZETA_POW_BITREV
<1>5. 0 \in Elem
  BY Field DEF Elem
<1> QED
  BY <1>2, <1>3, <1>4, <1>5

(* The states between layers: polynomials, and the roots consumed so far.     *)
Forward == [n \in 0 .. LOGN |-> [w : Polynomial, m : {2^n - 1}]]
Backward == [n \in 0 .. LOGN |-> [w : Polynomial, m : {2^(LOGN - n)}]]

(* The size of a block at layer n, and how many there are.                    *)
LEMMA LayerSizes ==
  ASSUME NEW n \in 1 .. LOGN
  PROVE  /\ 2^(LOGN - n) \in Nat \ {0} /\ 2^(n - 1) \in Nat \ {0}
         /\ N = 2^(n - 1) * (2 * 2^(LOGN - n)) /\ 2^n = 2 * 2^(n - 1) /\ 2^n <= N
<1>1. /\ LOGN \in 3 .. 29 /\ n \in 0 .. LOGN /\ n - 1 \in 0 .. LOGN /\ n - 1 \in 0 .. 29
      /\ (n - 1) + 1 = n
  BY Lengths
<1>2. 2^(n - 1) \in Nat \ {0} /\ 2^n = 2 * 2^(n - 1)
  BY <1>1, Powers, Zenon
<1>3. 2^n \in Nat \ {0} /\ 2^(LOGN - n) \in Nat \ {0} /\ 2^n * 2^(LOGN - n) = N
  BY <1>1, Lengths
<1>4. ASSUME NEW a \in Nat \ {0}, NEW b \in Nat \ {0}
      PROVE  (2 * a) * b = a * (2 * b) /\ 2 * a <= (2 * a) * b
  <2>1. 1 * (2 * a) <= b * (2 * a)
    BY MulMono
  <2> QED
    BY <2>1
<1> QED
  BY <1>2, <1>3, <1>4

LEMMA ForwardLayer ==
  ASSUME NEW n \in 1 .. LOGN, NEW s \in [w : Polynomial, m : {2^(n - 1) - 1}]
  PROVE  ntt_layer(2^(LOGN - n), s) \in [w : Polynomial, m : {2^n - 1}]
<1> DEFINE len == 2^(LOGN - n)
           B == 2^(n - 1)
           z(j) == ZETA_POW_BITREV[s.m + 1 + j \div (2 * len)]
           c(j) == IF Low(j, len) THEN ElemAdd(s.w[j], ElemMul(z(j), s.w[j + len]))
                                  ELSE ElemSub(s.w[j - len], ElemMul(z(j), s.w[j]))
<1>1. /\ len \in Nat \ {0} /\ B \in Nat \ {0} /\ N = B * (2 * len)
      /\ 2^n = 2 * B /\ 2 * B <= N
  BY LayerSizes
<1>2. s.m = B - 1 /\ s.w \in [Coeff -> Elem]
  BY DEF Polynomial
<1>3. ntt_layer(len, s) = [w |-> [j \in Coeff |-> c(j)], m |-> s.m + N \div (2 * len)]
  BY ArrayIs, Zenon DEF ntt_layer
<1> HIDE DEF len, B
<1>4. ASSUME NEW j \in Coeff
      PROVE  c(j) \in Elem
  <2>1. /\ j \div (2 * len) \in 0 .. B - 1 /\ Low(j, len) \in BOOLEAN
        /\ Low(j, len) => j + len \in Coeff
        /\ ~Low(j, len) => j - len \in Coeff
    BY <1>1, Blocks
  <2>2. s.m + 1 + j \div (2 * len) \in Coeff
    BY <1>1, <1>2, <2>1, Field DEF Coeff
  <2>3. z(j) \in Elem
    BY <2>2, RootsTyped
  <2> HIDE DEF z
  <2>4. CASE Low(j, len)
    <3>1. s.w[j] \in Elem /\ s.w[j + len] \in Elem
      BY <1>2, <2>1, <2>4
    <3> QED
      BY <2>3, <2>4, <3>1, FieldOps
  <2>5. CASE ~Low(j, len)
    <3>1. s.w[j] \in Elem /\ s.w[j - len] \in Elem
      BY <1>2, <2>1, <2>5
    <3> QED
      BY <2>3, <2>5, <3>1, FieldOps
  <2> QED
    BY <2>4, <2>5
<1> HIDE DEF c
<1>5. [j \in Coeff |-> c(j)] \in Polynomial
  BY <1>4 DEF Polynomial
<1>6. s.m + N \div (2 * len) = 2^n - 1
  <2>1. N \div (2 * len) = B
    <3>1. 0 \in Coeff
      BY Field DEF Coeff
    <3> QED
      BY <1>1, <3>1, Blocks
  <2> QED
    BY <1>1, <1>2, <2>1
<1>7. ntt_layer(len, s) \in [w : Polynomial, m : {2^n - 1}]
  BY <1>3, <1>5, <1>6
<1> QED
  BY <1>7 DEF len

LEMMA BackwardLayer ==
  ASSUME NEW n \in 1 .. LOGN, NEW s \in [w : Polynomial, m : {2^(LOGN - (n - 1))}]
  PROVE  ntt_inverse_layer(2^(n - 1), s) \in [w : Polynomial, m : {2^(LOGN - n)}]
<1> DEFINE len == 2^(n - 1)
           B == 2^(LOGN - n)
           z(j) == ElemNeg(ZETA_POW_BITREV[s.m - 1 - j \div (2 * len)])
           c(j) == IF Low(j, len) THEN ElemAdd(s.w[j], s.w[j + len])
                                  ELSE ElemMul(z(j), ElemSub(s.w[j - len], s.w[j]))
<1>1. /\ len \in Nat \ {0} /\ B \in Nat \ {0} /\ N = B * (2 * len)
      /\ 2^(LOGN - (n - 1)) = 2 * B /\ 2 * B <= N
  <2> DEFINE k == LOGN - (n - 1)
  <2>1. k \in 1 .. LOGN /\ LOGN - k = n - 1 /\ k - 1 = LOGN - n
    BY Lengths
  <2> HIDE DEF k
  <2>2. /\ 2^(LOGN - k) \in Nat \ {0} /\ 2^(k - 1) \in Nat \ {0}
        /\ N = 2^(k - 1) * (2 * 2^(LOGN - k)) /\ 2^k = 2 * 2^(k - 1) /\ 2^k <= N
    BY <2>1, LayerSizes
  <2> QED
    BY <2>1, <2>2 DEF k
<1>2. s.m = 2 * B /\ s.w \in [Coeff -> Elem]
  BY <1>1 DEF Polynomial
<1>3. ntt_inverse_layer(len, s) = [w |-> [j \in Coeff |-> c(j)], m |-> s.m - N \div (2 * len)]
  BY ArrayIs, Zenon DEF ntt_inverse_layer
<1> HIDE DEF len, B
<1>4. ASSUME NEW j \in Coeff
      PROVE  c(j) \in Elem
  <2>1. /\ j \div (2 * len) \in 0 .. B - 1 /\ Low(j, len) \in BOOLEAN
        /\ Low(j, len) => j + len \in Coeff
        /\ ~Low(j, len) => j - len \in Coeff
    BY <1>1, Blocks
  <2>2. s.m - 1 - j \div (2 * len) \in Coeff
    <3> DEFINE q == j \div (2 * len)
    <3>1. q \in 0 .. B - 1
      BY <2>1
    <3> HIDE DEF q
    <3>2. s.m - 1 - q \in Coeff
      BY <1>1, <1>2, <3>1, Field DEF Coeff
    <3> QED
      BY <3>2 DEF q
  <2>3. z(j) \in Elem
    BY <2>2, RootsTyped, FieldOps
  <2> HIDE DEF z
  <2>4. CASE Low(j, len)
    <3>1. s.w[j] \in Elem /\ s.w[j + len] \in Elem
      BY <1>2, <2>1, <2>4
    <3> QED
      BY <2>4, <3>1, FieldOps
  <2>5. CASE ~Low(j, len)
    <3>1. s.w[j] \in Elem /\ s.w[j - len] \in Elem
      BY <1>2, <2>1, <2>5
    <3>2. ElemSub(s.w[j - len], s.w[j]) \in Elem
      BY <3>1, FieldOps
    <3> QED
      BY <2>3, <2>5, <3>2, FieldOps
  <2> QED
    BY <2>4, <2>5
<1> HIDE DEF c
<1>5. [j \in Coeff |-> c(j)] \in Polynomial
  BY <1>4 DEF Polynomial
<1>6. s.m - N \div (2 * len) = B
  <2>1. N \div (2 * len) = B
    <3>1. 0 \in Coeff
      BY Field DEF Coeff
    <3> QED
      BY <1>1, <3>1, Blocks
  <2> QED
    BY <1>1, <1>2, <2>1
<1>7. ntt_inverse_layer(len, s) \in [w : Polynomial, m : {B}]
  BY <1>3, <1>5, <1>6
<1> QED
  BY <1>7 DEF len, B

(* The transforms, layer by layer.                                            *)
ForwardRun(f, s) ==
  s = [n \in 0 .. LOGN |-> IF n = 0 THEN [w |-> f, m |-> 0] ELSE ntt_layer(2^(LOGN - n), s[n - 1])]
BackwardRun(f, s) ==
  s = [n \in 0 .. LOGN |-> IF n = 0 THEN [w |-> f, m |-> N]
                            ELSE ntt_inverse_layer(2^(n - 1), s[n - 1])]

LEMMA NttIs ==
  ASSUME NEW f \in Polynomial
  PROVE  \E s : /\ ForwardRun(f, s) /\ ntt(f) = s[LOGN].w
                /\ \A n \in 0 .. LOGN : s[n] \in Forward[n]
<1> DEFINE V == [j \in 0 .. LOGN |-> [w : Polynomial, m : {2^j - 1}]]
           step == [j \in 1 .. LOGN |-> [v \in V[j - 1] |-> ntt_layer(2^(LOGN - j), v)]]
           P(g) == g = [j \in 0 .. LOGN |-> IF j = 0 THEN [w |-> f, m |-> 0] ELSE ntt_layer(2^(LOGN - j), g[j - 1])]
<1>1. LOGN \in Nat
  BY Lengths
<1>2. [w |-> f, m |-> 0] \in V[0]
  BY <1>1, PowerTable
<1>3. ASSUME NEW j \in 1 .. LOGN, NEW v \in V[j - 1]
      PROVE  ntt_layer(2^(LOGN - j), v) \in V[j]
  <2>1. j - 1 \in 0 .. LOGN /\ j \in 0 .. LOGN
    BY Lengths
  <2>2. v \in [w : Polynomial, m : {2^(j - 1) - 1}] /\ V[j] = [w : Polynomial, m : {2^j - 1}]
    BY <2>1, Zenon
  <2> HIDE DEF V
  <2> QED
    BY <2>2, ForwardLayer
<1>4. \E g : P(g) /\ \A j \in 0 .. LOGN : g[j] \in V[j]
  <2>1. \A j \in 1 .. LOGN : \A v \in V[j - 1] : step[j][v] = ntt_layer(2^(LOGN - j), v)
    <3> HIDE DEF V
    <3> QED
      OBVIOUS
  <2>2. \A j \in 1 .. LOGN : \A v \in V[j - 1] : step[j][v] \in V[j]
    <3> HIDE DEF V, step
    <3> QED
      BY <1>3, <2>1
  <2> HIDE DEF V, step
  <2>3. PICK g : Iterates(LOGN, [w |-> f, m |-> 0], step, g) /\ \A j \in 0 .. LOGN : g[j] \in V[j]
    BY <1>1, <1>2, <2>2, Levels
  <2>4. \A j \in 0 .. LOGN : j # 0 => j \in 1 .. LOGN /\ j - 1 \in 0 .. LOGN
    BY <1>1
  <2>5. \A j \in 0 .. LOGN : j # 0 => step[j][g[j - 1]] = ntt_layer(2^(LOGN - j), g[j - 1])
    BY <2>1, <2>3, <2>4, Zenon
  <2>6. g = [j \in 0 .. LOGN |-> IF j = 0 THEN [w |-> f, m |-> 0] ELSE step[j][g[j - 1]]]
    BY <2>3, Zenon DEF Iterates
  <2>7. P(g)
    BY <2>5, <2>6, Zenon
  <2> HIDE DEF P
  <2> QED
    BY <2>3, <2>7, Zenon
<1> DEFINE layers[j \in 0 .. LOGN] == IF j = 0 THEN [w |-> f, m |-> 0] ELSE ntt_layer(2^(LOGN - j), layers[j - 1])
<1>5. P(layers)
  <2>1. layers = CHOOSE g : P(g)
    OBVIOUS
  <2> HIDE DEF P, layers
  <2> QED
    BY <1>4, <2>1, Zenon
<1>6. ntt(f) = layers[LOGN].w
  BY Zenon DEF ntt
<1> HIDE DEF layers
<1>7. \A j \in 0 .. LOGN : layers[j] \in V[j]
  <2> DEFINE T == {j \in 0 .. LOGN : layers[j] \in V[j]}
  <2>1. 0 \in 0 .. LOGN /\ \A j \in 1 .. LOGN : j \in 0 .. LOGN /\ j # 0
    BY <1>1
  <2>2. layers[0] = [w |-> f, m |-> 0] /\ \A j \in 1 .. LOGN : layers[j] = ntt_layer(2^(LOGN - j), layers[j - 1])
    <3>1. \A j \in 0 .. LOGN : layers[j] = IF j = 0 THEN [w |-> f, m |-> 0] ELSE ntt_layer(2^(LOGN - j), layers[j - 1])
      BY <1>5, Zenon
    <3> QED
      BY <2>1, <3>1, Zenon
  <2> HIDE DEF V
  <2>3. 0 \in T
    BY <1>2, <2>1, <2>2, Zenon
  <2>4. \A j \in 1 .. LOGN : j - 1 \in T => j \in T
    BY <1>3, <2>1, <2>2, Zenon
  <2> HIDE DEF T
  <2>5. \A j \in 0 .. LOGN : j \in T
    BY <1>1, <2>3, <2>4, UpTo
  <2> QED
    BY <2>5, Zenon DEF T
<1>8. ForwardRun(f, layers)
  BY <1>5, Zenon DEF ForwardRun
<1>9. V = Forward
  BY DEF Forward
<1> HIDE DEF V
<1> QED
  BY <1>6, <1>7, <1>8, <1>9, Zenon

LEMMA InverseIs ==
  ASSUME NEW f \in Polynomial
  PROVE  \E s : /\ BackwardRun(f, s) /\ ntt_inverse(f) = PolyScale(INVERSE_N, s[LOGN].w)
                /\ \A n \in 0 .. LOGN : s[n] \in Backward[n]
<1> DEFINE V == [j \in 0 .. LOGN |-> [w : Polynomial, m : {2^(LOGN - j)}]]
           step == [j \in 1 .. LOGN |-> [v \in V[j - 1] |-> ntt_inverse_layer(2^(j - 1), v)]]
           P(g) == g = [j \in 0 .. LOGN |-> IF j = 0 THEN [w |-> f, m |-> N] ELSE ntt_inverse_layer(2^(j - 1), g[j - 1])]
<1>1. LOGN \in Nat
  BY Lengths
<1>2. [w |-> f, m |-> N] \in V[0]
  BY <1>1, Lengths
<1>3. ASSUME NEW j \in 1 .. LOGN, NEW v \in V[j - 1]
      PROVE  ntt_inverse_layer(2^(j - 1), v) \in V[j]
  <2>1. j - 1 \in 0 .. LOGN /\ j \in 0 .. LOGN
    BY Lengths
  <2>2. /\ v \in [w : Polynomial, m : {2^(LOGN - (j - 1))}]
        /\ V[j] = [w : Polynomial, m : {2^(LOGN - j)}]
    BY <2>1, Zenon
  <2> HIDE DEF V
  <2> QED
    BY <2>2, BackwardLayer
<1>4. \E g : P(g) /\ \A j \in 0 .. LOGN : g[j] \in V[j]
  <2>1. \A j \in 1 .. LOGN : \A v \in V[j - 1] : step[j][v] = ntt_inverse_layer(2^(j - 1), v)
    <3> HIDE DEF V
    <3> QED
      OBVIOUS
  <2>2. \A j \in 1 .. LOGN : \A v \in V[j - 1] : step[j][v] \in V[j]
    <3> HIDE DEF V, step
    <3> QED
      BY <1>3, <2>1
  <2> HIDE DEF V, step
  <2>3. PICK g : Iterates(LOGN, [w |-> f, m |-> N], step, g) /\ \A j \in 0 .. LOGN : g[j] \in V[j]
    BY <1>1, <1>2, <2>2, Levels
  <2>4. \A j \in 0 .. LOGN : j # 0 => j \in 1 .. LOGN /\ j - 1 \in 0 .. LOGN
    BY <1>1
  <2>5. \A j \in 0 .. LOGN : j # 0 => step[j][g[j - 1]] = ntt_inverse_layer(2^(j - 1), g[j - 1])
    BY <2>1, <2>3, <2>4, Zenon
  <2>6. g = [j \in 0 .. LOGN |-> IF j = 0 THEN [w |-> f, m |-> N] ELSE step[j][g[j - 1]]]
    BY <2>3, Zenon DEF Iterates
  <2>7. P(g)
    BY <2>5, <2>6, Zenon
  <2> HIDE DEF P
  <2> QED
    BY <2>3, <2>7, Zenon
<1> DEFINE layers[j \in 0 .. LOGN] == IF j = 0 THEN [w |-> f, m |-> N] ELSE ntt_inverse_layer(2^(j - 1), layers[j - 1])
<1>5. P(layers)
  <2>1. layers = CHOOSE g : P(g)
    OBVIOUS
  <2> HIDE DEF P, layers
  <2> QED
    BY <1>4, <2>1, Zenon
<1>6. ntt_inverse(f) = PolyScale(INVERSE_N, layers[LOGN].w)
  BY Zenon DEF ntt_inverse
<1> HIDE DEF layers
<1>7. \A j \in 0 .. LOGN : layers[j] \in V[j]
  <2> DEFINE T == {j \in 0 .. LOGN : layers[j] \in V[j]}
  <2>1. 0 \in 0 .. LOGN /\ \A j \in 1 .. LOGN : j \in 0 .. LOGN /\ j # 0
    BY <1>1
  <2>2. layers[0] = [w |-> f, m |-> N] /\ \A j \in 1 .. LOGN : layers[j] = ntt_inverse_layer(2^(j - 1), layers[j - 1])
    <3>1. \A j \in 0 .. LOGN : layers[j] = IF j = 0 THEN [w |-> f, m |-> N] ELSE ntt_inverse_layer(2^(j - 1), layers[j - 1])
      BY <1>5, Zenon
    <3> QED
      BY <2>1, <3>1, Zenon
  <2> HIDE DEF V
  <2>3. 0 \in T
    BY <1>2, <2>1, <2>2, Zenon
  <2>4. \A j \in 1 .. LOGN : j - 1 \in T => j \in T
    BY <1>3, <2>1, <2>2, Zenon
  <2> HIDE DEF T
  <2>5. \A j \in 0 .. LOGN : j \in T
    BY <1>1, <2>3, <2>4, UpTo
  <2> QED
    BY <2>5, Zenon DEF T
<1>8. BackwardRun(f, layers)
  BY <1>5, Zenon DEF BackwardRun
<1>9. V = Backward
  BY DEF Backward
<1> HIDE DEF V
<1> QED
  BY <1>6, <1>7, <1>8, <1>9, Zenon

LEMMA PolyOps ==
  ASSUME NEW f \in Polynomial, NEW g \in Polynomial, NEW x \in Elem
  PROVE  /\ PolyAdd(f, g) \in Polynomial /\ PolySub(f, g) \in Polynomial
         /\ PolyScale(x, f) \in Polynomial /\ PolyNeg(f) \in Polynomial
         /\ NttAdd(f, g) \in Polynomial /\ NttSub(f, g) \in Polynomial
         /\ multiply_ntt(f, g) \in Polynomial
<1>1. \A i \in Coeff : f[i] \in Elem /\ g[i] \in Elem
  BY DEF Polynomial
<1>2. \A i \in Coeff : /\ ElemAdd(f[i], g[i]) \in Elem /\ ElemSub(f[i], g[i]) \in Elem
                       /\ ElemMul(x, f[i]) \in Elem /\ ElemNeg(f[i]) \in Elem
                       /\ ElemMul(f[i], g[i]) \in Elem
  BY <1>1, FieldOps
<1> QED
  BY <1>2, ArrayIs DEF PolyAdd, PolySub, PolyScale, PolyNeg, NttAdd, NttSub, multiply_ntt,
     Polynomial

LEMMA NttTyped ==
  ASSUME NEW f \in Polynomial
  PROVE  ntt(f) \in Polynomial /\ ntt_inverse(f) \in Polynomial
<1>1. LOGN \in 0 .. LOGN
  BY Lengths
<1>2. ntt(f) \in Polynomial
  <2>1. PICK s : ntt(f) = s[LOGN].w /\ s[LOGN] \in Forward[LOGN]
    BY <1>1, NttIs
  <2>2. Forward[LOGN] = [w : Polynomial, m : {2^LOGN - 1}]
    BY <1>1 DEF Forward
  <2> QED
    BY <2>1, <2>2
<1>3. ntt_inverse(f) \in Polynomial
  <2>1. PICK s : /\ ntt_inverse(f) = PolyScale(INVERSE_N, s[LOGN].w)
                 /\ s[LOGN] \in Backward[LOGN]
    BY <1>1, InverseIs
  <2>2. Backward[LOGN] = [w : Polynomial, m : {2^(LOGN - LOGN)}]
    BY <1>1 DEF Backward
  <2>3. s[LOGN].w \in Polynomial /\ INVERSE_N \in Elem
    BY <2>1, <2>2, NttConstants
  <2> QED
    BY <2>1, <2>3, PolyOps
<1> QED
  BY <1>2, <1>3

-----------------------------------------------------------------------------
(* The number whose bits are b, from the lowest.                              *)
NumberRun(n, b, s) ==
  s = [p \in 0 .. n |-> IF p = 0 THEN 0 ELSE s[p - 1] + (IF b[p - 1] THEN 2^(p - 1) ELSE 0)]

LEMMA NumberExists ==
  ASSUME NEW n \in 0 .. 29, NEW b
  PROVE  \E s : NumberRun(n, b, s)
<1> DEFINE V == [j \in 0 .. n |-> Nat]
           step == [j \in 1 .. n |-> [v \in Nat |-> v + (IF b[j - 1] THEN 2^(j - 1) ELSE 0)]]
<1>0. n \in Nat
  OBVIOUS
<1>1. \A j \in 1 .. n : j - 1 \in 0 .. 29 /\ j - 1 \in 0 .. n /\ j \in 0 .. n
  OBVIOUS
<1>2. \A j \in 1 .. n : (IF b[j - 1] THEN 2^(j - 1) ELSE 0) \in Nat
  BY <1>1, Powers
<1>3. \A j \in 1 .. n : \A v \in Nat : step[j][v] = v + (IF b[j - 1] THEN 2^(j - 1) ELSE 0)
  OBVIOUS
<1>4. \A j \in 1 .. n : \A v \in V[j - 1] : step[j][v] \in V[j]
  BY <1>1, <1>2
<1>5. 0 \in V[0]
  OBVIOUS
<1>6. \A j \in 0 .. n : V[j] = Nat
  OBVIOUS
<1> HIDE DEF V, step
<1>7. PICK s : Iterates(n, 0, step, s) /\ \A j \in 0 .. n : s[j] \in V[j]
  BY <1>0, <1>4, <1>5, Levels, Zenon
<1>8. ASSUME NEW j \in 0 .. n, j # 0
      PROVE  step[j][s[j - 1]] = s[j - 1] + (IF b[j - 1] THEN 2^(j - 1) ELSE 0)
  <2>1. j \in 1 .. n /\ j - 1 \in 0 .. n
    BY <1>8
  <2> QED
    BY <1>3, <1>6, <1>7, <2>1
<1>9. NumberRun(n, b, s)
  BY <1>7, <1>8, Zenon DEF Iterates, NumberRun
<1> QED
  BY <1>9, Zenon

NumberSteps(n, b, s) ==
  /\ s[0] = 0
  /\ \A p \in 1 .. n : s[p] = s[p - 1] + (IF b[p - 1] THEN 2^(p - 1) ELSE 0)

LEMMA NumberStep ==
  ASSUME NEW n \in 0 .. 29, NEW b, NEW s, NumberRun(n, b, s)
  PROVE  NumberSteps(n, b, s)
<1>1. \A p \in 0 .. n : s[p] = IF p = 0 THEN 0 ELSE s[p - 1] + (IF b[p - 1] THEN 2^(p - 1) ELSE 0)
  BY Zenon DEF NumberRun
<1>2. 0 \in 0 .. n /\ \A p \in 1 .. n : p \in 0 .. n /\ p # 0
  OBVIOUS
<1> QED
  BY <1>1, <1>2, Zenon DEF NumberSteps

(* Bits of a sum, the summand above them.                                     *)
LEMMA BitBelow ==
  ASSUME NEW k \in 0 .. 29, NEW p \in 0 .. k - 1, NEW x \in Nat
  PROVE  (x + 2^k) \div 2^p \in Nat /\ ((x + 2^k) \div 2^p) % 2 = (x \div 2^p) % 2
<1>1. p \in Nat /\ k - 1 - p \in Nat /\ (k - 1 - p) + 1 = k - p /\ k - 1 - p \in 0 .. 29
      /\ p + (k - p) = k /\ k - p \in Nat /\ p + (k - p) <= 29
  <2>1. k \in Int /\ 0 <= k /\ k <= 29 /\ p \in Int /\ 0 <= p /\ p <= k - 1
    OBVIOUS
  <2> QED
    BY ONLY <2>1
<1> DEFINE w == 2^p
           h == 2^(k - 1 - p)
<1>2. 2^k = w * 2^(k - p) /\ w \in Nat \ {0} /\ 2^(k - p) = 2 * h /\ h \in Nat
  <2>1. 2^(p + (k - p)) = 2^p * 2^(k - p) /\ 2^p \in Nat \ {0}
    BY <1>1, PowerSum
  <2>2. 2^(k - 1 - p) \in Nat /\ 2^((k - 1 - p) + 1) = 2 * 2^(k - 1 - p)
    BY <1>1, Powers
  <2>3. 2^k = 2^p * 2^(k - p) /\ 2^(k - p) = 2 * 2^(k - 1 - p)
    BY <1>1, <2>1, <2>2, Zenon
  <2> QED
    BY <2>1, <2>2, <2>3, Zenon
<1> DEFINE q == x \div w
           r == x % w
<1>3. q \in Nat /\ r \in 0 .. w - 1 /\ x = w * q + r
  BY <1>2, DivMod
<1> HIDE DEF w, h, q, r
<1>4. x + 2^k = w * (q + 2 * h) + r
  BY <1>2, <1>3
<1>5. q + 2 * h \in Nat
  BY <1>2, <1>3
<1>6. (x + 2^k) \div w = q + 2 * h
  BY <1>2, <1>3, <1>4, <1>5, DivUnique
<1>7. (q + 2 * h) % 2 = q % 2
  BY <1>2, <1>3
<1> QED
  BY <1>5, <1>6, <1>7 DEF w, q

LEMMA BitAt ==
  ASSUME NEW k \in 0 .. 29, NEW x \in 0 .. 2^k - 1
  PROVE  /\ (x \div 2^k) % 2 = 0 /\ ((x + 2^k) \div 2^k) % 2 = 1
         /\ x + 2^k \in 0 .. 2^(k + 1) - 1 /\ x \in 0 .. 2^(k + 1) - 1
<1> DEFINE w == 2^k
<1>1. w \in Nat \ {0} /\ 2^(k + 1) = 2 * w
  BY Powers
<1> HIDE DEF w
<1>2. x \in 0 .. w - 1 /\ x \in Nat
  BY <1>1 DEF w
<1>3. x = w * 0 + x /\ x + w = w * 1 + x
  BY <1>1, <1>2
<1>4. x \div w = 0 /\ (x + w) \div w = 1
  BY <1>1, <1>2, <1>3, DivUnique
<1>5. (x \div w) % 2 = 0 /\ ((x + w) \div w) % 2 = 1
  BY <1>4
<1> QED
  BY <1>1, <1>2, <1>5 DEF w

(* The number fits in n bits, and they are b.                                 *)
LEMMA NumberBits ==
  ASSUME NEW n \in 0 .. 29, NEW b, NEW s, NumberRun(n, b, s)
  PROVE  /\ s[n] \in 0 .. 2^n - 1
         /\ \A p \in 0 .. n - 1 : bit(s[n], p) = IF b[p] THEN 1 ELSE 0
<1> DEFINE Good(k) == /\ s[k] \in 0 .. 2^k - 1
                      /\ \A p \in 0 .. k - 1 : bit(s[k], p) = IF b[p] THEN 1 ELSE 0
           T == {k \in 0 .. n : Good(k)}
<1>0. NumberSteps(n, b, s)
  BY NumberStep
<1>1. s[0] = 0 /\ \A p \in 1 .. n : s[p] = s[p - 1] + (IF b[p - 1] THEN 2^(p - 1) ELSE 0)
  BY <1>0, Zenon DEF NumberSteps
<1>2. 0 \in T
  BY <1>1, PowerTable
<1>3. ASSUME NEW k \in 1 .. n, k - 1 \in T
      PROVE  k \in T
  <2> DEFINE m == k - 1
             x == s[m]
  <2>1. m \in 0 .. 29 /\ k = m + 1 /\ k \in 0 .. n
    OBVIOUS
  <2>2. Good(m)
    BY <1>3
  <2>3. x \in 0 .. 2^m - 1 /\ \A p \in 0 .. m - 1 : bit(x, p) = IF b[p] THEN 1 ELSE 0
    BY <2>2
  <2>4. s[k] = x + (IF b[m] THEN 2^m ELSE 0)
    BY <1>1
  <2> HIDE DEF m
  <2>5. x \in Nat /\ 2^m \in Nat
    BY <2>1, <2>3, Powers
  <2> HIDE DEF x, Good, T
  <2>6. CASE b[m]
    <3>1. s[k] = x + 2^m
      BY <2>4, <2>6
    <3>2. s[k] \in 0 .. 2^k - 1 /\ bit(s[k], m) = 1
      BY <2>1, <2>3, <3>1, BitAt DEF bit
    <3>3. ASSUME NEW p \in 0 .. k - 1
          PROVE  bit(s[k], p) = IF b[p] THEN 1 ELSE 0
      <4>1. CASE p = m
        BY <2>6, <3>2, <4>1
      <4>2. CASE p # m
        <5>1. p \in 0 .. m - 1
          BY <2>1, <4>2
        <5>2. bit(s[k], p) = bit(x, p)
          <6>1. ((x + 2^m) \div 2^p) % 2 = (x \div 2^p) % 2
            BY <2>1, <2>5, <5>1, BitBelow
          <6> QED
            BY <3>1, <6>1, Zenon DEF bit
        <5> QED
          BY <2>3, <5>1, <5>2
      <4> QED
        BY <4>1, <4>2
    <3> QED
      BY <2>1, <3>2, <3>3 DEF Good, T
  <2>7. CASE ~b[m]
    <3>1. s[k] = x
      BY <2>4, <2>5, <2>7
    <3>2. s[k] \in 0 .. 2^k - 1 /\ bit(s[k], m) = 0
      BY <2>1, <2>3, <3>1, BitAt DEF bit
    <3>3. ASSUME NEW p \in 0 .. k - 1
          PROVE  bit(s[k], p) = IF b[p] THEN 1 ELSE 0
      <4>1. CASE p = m
        BY <2>7, <3>2, <4>1
      <4>2. CASE p # m
        <5>1. p \in 0 .. m - 1
          BY <2>1, <4>2
        <5> QED
          BY <2>3, <3>1, <5>1
      <4> QED
        BY <4>1, <4>2
    <3> QED
      BY <2>1, <3>2, <3>3 DEF Good, T
  <2> QED
    BY <2>6, <2>7
<1>4. n \in T
  <2> HIDE DEF T
  <2>1. \A k \in 0 .. n : k \in T
    BY <1>2, <1>3, UpTo
  <2> QED
    BY <2>1
<1> QED
  BY <1>4

BitsAre(n, b, x) ==
  /\ x \in 0 .. 2^n - 1
  /\ \A p \in 0 .. n - 1 : b[p] <=> bit(x, p) = 1

(* A number is that of its bits.                                              *)
LEMMA NumberBack ==
  ASSUME NEW n \in 0 .. 29, NEW b, NEW s, NumberRun(n, b, s), NEW x, BitsAre(n, b, x)
  PROVE  s[n] = x
<1> DEFINE T == {k \in 0 .. n : s[k] = x % 2^k}
<1>0. NumberSteps(n, b, s)
  BY NumberStep
<1>1. s[0] = 0 /\ \A p \in 1 .. n : s[p] = s[p - 1] + (IF b[p - 1] THEN 2^(p - 1) ELSE 0)
  BY <1>0, Zenon DEF NumberSteps
<1>7. x \in 0 .. 2^n - 1 /\ \A p \in 0 .. n - 1 : b[p] <=> bit(x, p) = 1
  BY Zenon DEF BitsAre
<1>2. x \in Nat /\ 2^n \in Nat \ {0}
  BY <1>7, Powers
<1>3. 0 \in T
  BY <1>1, <1>2, PowerTable
<1>4. ASSUME NEW k \in 1 .. n, k - 1 \in T
      PROVE  k \in T
  <2> DEFINE m == k - 1
             w == 2^m
             q == x \div w
             r == x % w
  <2>1. m \in 0 .. 29 /\ m \in 0 .. n - 1 /\ k = m + 1 /\ k \in 0 .. n
    OBVIOUS
  <2>2. w \in Nat \ {0} /\ 2^k = 2 * w
    BY <2>1, Powers
  <2>3. s[m] = r /\ s[k] = s[m] + (IF b[m] THEN w ELSE 0)
    BY <1>1, <1>4
  <2>4. b[m] <=> q % 2 = 1
    BY <1>7, <2>1 DEF bit
  <2> HIDE DEF m, w
  <2>5. q \in Nat /\ r \in 0 .. w - 1 /\ x = w * q + r
    BY <1>2, <2>2, DivMod
  <2> HIDE DEF q, r
  <2> DEFINE g == q \div 2
             e == q % 2
  <2>6. g \in Nat /\ e \in {0, 1} /\ q = 2 * g + e
    BY <2>5
  <2> HIDE DEF g, e
  <2>7. e = 1 <=> b[m]
    BY <2>4 DEF e
  <2>8. x = (2 * w) * g + (w * e + r)
    <3>1. w * (2 * g + e) = (2 * w) * g + w * e
      BY <2>2, <2>6
    <3> QED
      BY <2>2, <2>5, <2>6, <3>1
  <2>9. w * e + r \in 0 .. 2 * w - 1 /\ w * e = (IF b[m] THEN w ELSE 0)
    BY <2>2, <2>5, <2>6, <2>7
  <2>10. 2 * w \in Nat \ {0}
    BY <2>2
  <2>11. x % (2 * w) = w * e + r
    BY <2>6, <2>8, <2>9, <2>10, DivUnique
  <2>12. s[k] = x % 2^k
    BY <2>2, <2>3, <2>5, <2>9, <2>11
  <2> QED
    BY <2>1, <2>12
<1>5. n \in T
  <2> HIDE DEF T
  <2>1. \A k \in 0 .. n : k \in T
    BY <1>3, <1>4, UpTo
  <2> QED
    BY <2>1
<1>6. x % 2^n = x
  BY <1>2, <1>7, SmallMod
<1> QED
  BY <1>5, <1>6
-----------------------------------------------------------------------------
(* Where byte_decode finds the bits of value j.                               *)
valbit(d, bytes, j) ==
  [p \in 0 .. d - 1 |->
     bit(bytes[1 + (j \div ValueStep(d)) * ByteStep(d) + (d * (j % ValueStep(d)) + p) \div 8],
         (d * (j % ValueStep(d)) + p) % 8) = 1]

Decodes(d, bytes, j) ==
  \E s : /\ NumberRun(d, valbit(d, bytes, j), s)
         /\ byte_decode(d, bytes)[j] = IF d = 12 THEN small_reduce(s[d]) ELSE s[d]

LEMMA DecodedIs ==
  ASSUME NEW d \in 0 .. 29, NEW bytes, NEW j \in Coeff
  PROVE  Decodes(d, bytes, j)
<1> DEFINE start(i) == d * (i % ValueStep(d))
           unit(i) == (i \div ValueStep(d)) * ByteStep(d)
           on(i, p) == bit(bytes[1 + unit(i) + (start(i) + p) \div 8], (start(i) + p) % 8) = 1
           val(i) == FromBits(d, LAMBDA p : on(i, p))
           b == valbit(d, bytes, j)
           P(g) == g = [p \in 0 .. d |-> IF p = 0 THEN 0
                                         ELSE g[p - 1] + (IF on(j, p - 1) THEN 2^(p - 1) ELSE 0)]
           sum[p \in 0 .. d] == IF p = 0 THEN 0
                                ELSE sum[p - 1] + (IF on(j, p - 1) THEN 2^(p - 1) ELSE 0)
<1>1. byte_decode(d, bytes) = [i \in Coeff |-> IF d = 12 THEN small_reduce(val(i)) ELSE val(i)]
  BY ArrayIs, Zenon DEF byte_decode
<1>2. byte_decode(d, bytes)[j] = IF d = 12 THEN small_reduce(val(j)) ELSE val(j)
  <2> HIDE DEF val
  <2> QED
    BY <1>1, Zenon
<1>3. val(j) = sum[d]
  BY DEF FromBits
<1>4. \A p \in 0 .. d - 1 : b[p] = on(j, p)
  BY DEF valbit
<1> HIDE DEF val, on, b
<1>5. sum = CHOOSE g : P(g)
  OBVIOUS
<1>6. ASSUME NEW g
      PROVE  P(g) <=> NumberRun(d, b, g)
  <2>1. ASSUME NEW p \in 0 .. d, p # 0
        PROVE  (IF on(j, p - 1) THEN 2^(p - 1) ELSE 0) = (IF b[p - 1] THEN 2^(p - 1) ELSE 0)
    <3>1. p - 1 \in 0 .. d - 1
      BY <2>1
    <3> QED
      BY <1>4, <3>1, Zenon
  <2> QED
    BY <2>1, Zenon DEF NumberRun
<1> HIDE DEF P, sum
<1>7. NumberRun(d, b, sum)
  BY <1>5, <1>6, NumberExists
<1> QED
  BY <1>2, <1>3, <1>7, Zenon DEF b, Decodes

LEMMA DecodedTyped ==
  ASSUME NEW d \in 0 .. 29, NEW bytes, NEW j \in Coeff
  PROVE  byte_decode(d, bytes)[j] \in 0 .. 2^d - 1
<1>0. Decodes(d, bytes, j)
  BY DecodedIs
<1>1. PICK s : /\ NumberRun(d, valbit(d, bytes, j), s)
               /\ byte_decode(d, bytes)[j] = IF d = 12 THEN small_reduce(s[d]) ELSE s[d]
  BY <1>0, Zenon DEF Decodes
<1>2. s[d] \in 0 .. 2^d - 1
  BY <1>1, NumberBits
<1>3. 2^d \in Nat /\ Q \in Nat
  BY Powers, Field
<1> QED
  BY <1>1, <1>2, <1>3 DEF small_reduce

-----------------------------------------------------------------------------
LEMMA PowerMono ==
  ASSUME NEW i \in 0 .. 29, NEW j \in 0 .. 29, i < j
  PROVE  2^(i + 1) <= 2^j
<1> DEFINE a == i + 1
           k == j - a
<1>1. a \in Nat /\ k \in Nat /\ a + k = j /\ a + k <= 29
  OBVIOUS
<1> HIDE DEF a, k
<1>2. 2^j = 2^a * 2^k /\ 2^a \in Nat \ {0} /\ 2^k \in Nat \ {0}
  BY <1>1, PowerSum
<1>3. ASSUME NEW x \in Nat \ {0}, NEW y \in Nat \ {0}
      PROVE  x <= x * y
  <2>1. x * 1 <= x * y
    BY MulMono
  <2> QED
    BY <2>1
<1> QED
  BY <1>2, <1>3 DEF a

LEMMA Log2Is ==
  ASSUME NEW k \in 0 .. 29, NEW x \in Nat, 2^k <= x, x < 2^(k + 1), x < 2^30
  PROVE  ilog2(x) = k
<1> DEFINE i == ilog2(x)
<1>0. 2^k \in Nat \ {0}
  BY Powers
<1>1. i \in 0 .. 29 /\ 2^i <= x /\ x < 2^(i + 1)
  BY <1>0, Log2
<1> HIDE DEF i
<1>2. 2^i \in Nat /\ 2^(i + 1) \in Nat /\ 2^k \in Nat /\ 2^(k + 1) \in Nat
  BY <1>1, Powers
<1>3. CASE i < k
  <2>1. 2^(i + 1) <= 2^k
    BY <1>1, <1>3, PowerMono
  <2> QED
    BY <1>1, <1>2, <2>1
<1>4. CASE k < i
  <2>1. 2^(k + 1) <= 2^i
    BY <1>1, <1>4, PowerMono
  <2> QED
    BY <1>1, <1>2, <2>1
<1> QED
  BY <1>1, <1>3, <1>4 DEF i

LEMMA BitsOf ==
  ASSUME NEW k \in 1 .. 29, NEW a \in Nat, NEW b \in Nat, a + b + 1 = 2^k
  PROVE  RangeEncodingBits(a, b) = k
<1>1. k - 1 \in 0 .. 29 /\ (k - 1) + 1 = k /\ k \in 0 .. 29
  OBVIOUS
<1>2. 2^(k - 1) \in Nat \ {0} /\ 2^k = 2 * 2^(k - 1)
  BY <1>1, Powers
<1>3. 2^k < 2^30 + 1 /\ 2^30 \in Nat
  <2>1. CASE k = 29
    BY <2>1, PowerTable
  <2>2. CASE k # 29
    <3>0. 29 \in 0 .. 29 /\ k < 29
      BY <2>2
    <3>1. 2^(k + 1) <= 2^29
      BY <1>1, <3>0, PowerMono
    <3>2. 2^(k + 1) = 2 * 2^k
      BY <1>1, Powers
    <3> QED
      BY <1>2, <3>1, <3>2, PowerTable
  <2> QED
    BY <2>1, <2>2
<1> DEFINE x == a + b
<1>4. x \in Nat /\ 2^(k - 1) <= x /\ x < 2^((k - 1) + 1) /\ x < 2^30
  BY <1>1, <1>2, <1>3
<1> HIDE DEF x
<1>5. ilog2(x) = k - 1
  BY <1>1, <1>4, Log2Is
<1> QED
  BY <1>1, <1>5 DEF RangeEncodingBits, x

(* A packed range: its bounds a and b, and its bits.                          *)
PackedRange(a, b) ==
  /\ a \in Nat /\ b \in Nat /\ a + b < Q /\ b # 0
  /\ RangeEncodingBits(a, b) \in 1 .. 29
  /\ a + b + 1 <= 2^RangeEncodingBits(a, b)

LEMMA MaskRange ==
  /\ PackedRange(Gamma1 - 1, Gamma1)
  /\ 2^RangeEncodingBits(Gamma1 - 1, Gamma1) = 2 * Gamma1 /\ Gamma1 \in Nat \ {0}
<1>1. PICK e \in 1 .. 30 : Gamma1 = 2^e
  BY ParameterSet
<1>2. 2 * Gamma1 < Q /\ Q < 2^30 /\ Q \in Nat
  BY ParameterSet, FieldConstants
<1>3. Gamma1 \in Nat \ {0} /\ e \in 1 .. 28
  <2>1. CASE e = 30
    BY <1>1, <1>2, <2>1, PowerTable
  <2>2. CASE e = 29
    BY <1>1, <1>2, <2>2, PowerTable
  <2>3. CASE e \in 1 .. 28
    <3>1. e \in 0 .. 29
      BY <2>3
    <3> QED
      BY <1>1, <2>3, <3>1, Powers
  <2> QED
    BY <2>1, <2>2, <2>3
<1>4. 2^(e + 1) = 2 * Gamma1 /\ e + 1 \in 1 .. 29
  <2>1. e \in 0 .. 29
    BY <1>3
  <2>2. 2^(e + 1) = 2 * 2^e
    BY <2>1, Powers
  <2>3. 2^(e + 1) = 2 * Gamma1
    BY <1>1, <2>2, Zenon
  <2> QED
    BY <1>3, <2>3
<1> DEFINE a == Gamma1 - 1
<1>5. a \in Nat /\ a + Gamma1 + 1 = 2^(e + 1) /\ a + Gamma1 < Q
  BY <1>2, <1>3, <1>4
<1> HIDE DEF a
<1>6. RangeEncodingBits(a, Gamma1) = e + 1
  BY <1>3, <1>4, <1>5, BitsOf
<1> QED
  BY <1>3, <1>4, <1>5, <1>6 DEF PackedRange, a

LEMMA EtaRange ==
  PackedRange(Eta, Eta) /\ RangeEncodingBits(Eta, Eta) \in {3, 4}
<1>1. Eta \in {2, 4} /\ 2 * Eta < Q
  BY ParameterSet
<1>2. CASE Eta = 2
  <2>1. ilog2(4) = 2
    BY Log2Is, PowerTable
  <2>2. RangeEncodingBits(2, 2) = 3
    BY <2>1 DEF RangeEncodingBits
  <2>3. 2^3 = 8 /\ 2 + 2 < Q
    BY <1>1, <1>2, PowerTable
  <2>4. PackedRange(2, 2)
    <3>1. 2^RangeEncodingBits(2, 2) = 8
      BY <2>2, <2>3, Zenon
    <3> QED
      BY <2>2, <2>3, <3>1 DEF PackedRange
  <2> QED
    BY <1>2, <2>2, <2>4
<1>3. CASE Eta = 4
  <2>1. ilog2(8) = 3
    BY Log2Is, PowerTable
  <2>2. RangeEncodingBits(4, 4) = 4
    BY <2>1 DEF RangeEncodingBits
  <2>3. 2^4 = 16 /\ 4 + 4 < Q
    BY <1>1, <1>3, PowerTable
  <2>4. PackedRange(4, 4)
    <3>1. 2^RangeEncodingBits(4, 4) = 16
      BY <2>2, <2>3, Zenon
    <3> QED
      BY <2>2, <2>3, <3>1 DEF PackedRange
  <2> QED
    BY <1>3, <2>2, <2>4
<1> QED
  BY <1>1, <1>2, <1>3

LEMMA T0Range ==
  /\ PackedRange(Pow2DMinus1 - 1, Pow2DMinus1)
  /\ RangeEncodingBits(Pow2DMinus1 - 1, Pow2DMinus1) = D
  /\ D \in 1 .. 29 /\ 2^D = 2 * Pow2DMinus1 /\ Pow2DMinus1 \in Nat \ {0} /\ 2^D < Q
<1>1. D \in 1 .. 29
  BY RoundingConstants
<1>2. D - 1 \in 0 .. 29 /\ (D - 1) + 1 = D
  BY <1>1
<1>3. Pow2DMinus1 \in Nat \ {0} /\ 2^D = 2 * Pow2DMinus1
  BY <1>2, Powers DEF Pow2DMinus1
<1>4. 2^D \in Nat \ {0} /\ 2^D < Q
  BY Moduli DEF RoundingModulus
<1> DEFINE a == Pow2DMinus1 - 1
<1>5. a \in Nat /\ a + Pow2DMinus1 + 1 = 2^D
  BY <1>3
<1>6. a + Pow2DMinus1 < Q
  BY <1>3, <1>4, Field
<1> HIDE DEF a
<1>7. RangeEncodingBits(a, Pow2DMinus1) = D
  BY <1>1, <1>3, <1>5, BitsOf
<1> QED
  BY <1>1, <1>3, <1>4, <1>5, <1>6, <1>7 DEF PackedRange, a
-----------------------------------------------------------------------------
(* A residue of -a .. b.                                                      *)
InRange(a, b, x) == x \in Elem /\ (x <= b \/ x >= Q - a)

LEMMA RangePackable ==
  ASSUME NEW a, NEW b, PackedRange(a, b), NEW f \in Polynomial,
         \A i \in Coeff : InRange(a, b, f[i])
  PROVE  packable(a, b, f)
<1>1. a \in Nat /\ b \in Nat /\ a + b < Q /\ Q \in Nat /\ Q > 2
  BY Field DEF PackedRange
<1>2. ElemNeg(a) = IF a = 0 THEN 0 ELSE Q - a
  BY <1>1 DEF ElemNeg, small_reduce
<1> QED
  BY <1>1, <1>2 DEF packable, InRange, Elem

LEMMA UnpackedCell ==
  ASSUME NEW a, NEW b, PackedRange(a, b), NEW z \in 0 .. a + b
  PROVE  /\ ElemSub(b, z) \in Elem /\ InRange(a, b, ElemSub(b, z))
         /\ ElemSub(b, ElemSub(b, z)) = z
<1>1. a \in Nat /\ b \in Nat /\ a + b < Q /\ Q \in Nat /\ Q > 2
  BY Field DEF PackedRange
<1>2. ElemSub(b, z) = IF z <= b THEN b - z ELSE b + Q - z
  BY <1>1 DEF ElemSub, small_reduce
<1>3. CASE z <= b
  BY <1>1, <1>2, <1>3 DEF InRange, Elem, ElemSub, small_reduce
<1>4. CASE z > b
  BY <1>1, <1>2, <1>4 DEF InRange, Elem, ElemSub, small_reduce
<1> QED
  BY <1>1, <1>3, <1>4

LEMMA PackedCell ==
  ASSUME NEW a, NEW b, PackedRange(a, b), NEW x, InRange(a, b, x)
  PROVE  ElemSub(b, x) \in 0 .. a + b /\ ElemSub(b, ElemSub(b, x)) = x
<1>1. a \in Nat /\ b \in Nat /\ a + b < Q /\ Q \in Nat /\ Q > 2 /\ x \in 0 .. Q - 1
  BY Field DEF PackedRange, InRange, Elem
<1>2. ElemSub(b, x) = IF x <= b THEN b - x ELSE b + Q - x
  BY <1>1 DEF ElemSub, small_reduce
<1>3. CASE x <= b
  BY <1>1, <1>2, <1>3 DEF ElemSub, small_reduce
<1>4. CASE x > b
  <2>1. x >= Q - a
    BY <1>1, <1>4 DEF InRange
  <2> QED
    BY <1>1, <1>2, <1>4, <2>1 DEF ElemSub, small_reduce
<1> QED
  BY <1>1, <1>3, <1>4

(* Unpacked bytes of which the assertion holds, or of a range that fills its  *)
(* bits.                                                                      *)
LEMMA UnpackedIs ==
  ASSUME NEW a, NEW b, PackedRange(a, b), NEW bytes,
         unpackable(a, b, bytes) \/ a + b + 1 = 2^RangeEncodingBits(a, b)
  PROVE  /\ unpackable(a, b, bytes)
         /\ unpack(a, b, bytes) \in Polynomial
         /\ \A i \in Coeff : InRange(a, b, unpack(a, b, bytes)[i])
<1> DEFINE d == RangeEncodingBits(a, b)
           z == byte_decode(d, bytes)
<1>1. a \in Nat /\ b \in Nat /\ a + b < Q /\ Q \in Nat /\ Q > 2 /\ d \in 0 .. 29
  BY Field DEF PackedRange
<1> HIDE DEF d
<1>2. \A i \in Coeff : z[i] \in 0 .. 2^d - 1
  BY <1>1, DecodedTyped
<1>3. ElemAdd(a, b) = a + b
  BY <1>1 DEF ElemAdd, small_reduce
<1>4. unpackable(a, b, bytes) <=> \A i \in Coeff : z[i] <= ElemAdd(a, b)
  BY Zenon DEF unpackable, d
<1>5. unpack(a, b, bytes) = [i \in Coeff |-> ElemSub(b, z[i])]
  BY ArrayIs, Zenon DEF unpack, d
<1> HIDE DEF z
<1>6. 2^d \in Nat
  BY <1>1, Powers
<1>7. \A i \in Coeff : z[i] \in 0 .. a + b
  <2>1. CASE unpackable(a, b, bytes)
    BY <1>1, <1>2, <1>3, <1>4, <1>6, <2>1
  <2>2. CASE a + b + 1 = 2^d
    <3> DEFINE w == 2^d
    <3>1. \A i \in Coeff : z[i] \in 0 .. w - 1
      BY <1>2
    <3>2. w = a + b + 1
      BY <2>2
    <3> HIDE DEF w
    <3> QED
      BY <1>1, <3>1, <3>2
  <2> QED
    BY <2>1, <2>2 DEF d
<1>8. \A i \in Coeff : ElemSub(b, z[i]) \in Elem /\ InRange(a, b, ElemSub(b, z[i]))
  BY <1>7, UnpackedCell
<1>9. unpackable(a, b, bytes)
  BY <1>1, <1>3, <1>4, <1>7
<1> QED
  BY <1>5, <1>8, <1>9 DEF Polynomial

-----------------------------------------------------------------------------
(* The sums of a dot product, from the first column on.                       *)
DotRun(v, w, s) ==
  s = [n \in 0 .. L |-> IF n = 0 THEN ZeroPoly
                        ELSE NttAdd(s[n - 1], multiply_ntt(v[n - 1], w[n - 1]))]

LEMMA ZeroTyped == ZeroPoly \in Polynomial
BY Field DEF ZeroPoly, Polynomial, Elem

LEMMA DotIs ==
  ASSUME NEW v \in [Columns -> Polynomial], NEW w \in [Columns -> Polynomial]
  PROVE  \E s : /\ DotRun(v, w, s) /\ NttDot(v, w) = s[L]
                /\ \A n \in 0 .. L : s[n] \in Polynomial
<1> DEFINE V == [j \in 0 .. L |-> Polynomial]
           step == [j \in 1 .. L |-> [x \in V[j - 1] |-> NttAdd(x, multiply_ntt(v[j - 1], w[j - 1]))]]
           P(g) == g = [j \in 0 .. L |-> IF j = 0 THEN ZeroPoly ELSE NttAdd(g[j - 1], multiply_ntt(v[j - 1], w[j - 1]))]
<1>1. L \in Nat
  BY ParameterSet
<1>2. ZeroPoly \in V[0]
  BY <1>1, ZeroTyped
<1>3. ASSUME NEW j \in 1 .. L, NEW x \in V[j - 1]
      PROVE  NttAdd(x, multiply_ntt(v[j - 1], w[j - 1])) \in V[j]
  <2>1. j - 1 \in Columns /\ j - 1 \in 0 .. L /\ j \in 0 .. L
    BY <1>1 DEF Columns
  <2>2. v[j - 1] \in Polynomial /\ w[j - 1] \in Polynomial
    BY <2>1
  <2>3. x \in Polynomial
    BY <2>1
  <2>4. multiply_ntt(v[j - 1], w[j - 1]) \in Polynomial
    BY <2>2, PolyOps, NttConstants
  <2>5. NttAdd(x, multiply_ntt(v[j - 1], w[j - 1])) \in Polynomial
    BY <2>3, <2>4, PolyOps, NttConstants
  <2> QED
    BY <2>1, <2>5
<1>4. \E g : P(g) /\ \A j \in 0 .. L : g[j] \in V[j]
  <2>1. \A j \in 1 .. L : \A x \in V[j - 1] : step[j][x] = NttAdd(x, multiply_ntt(v[j - 1], w[j - 1]))
    <3> HIDE DEF V
    <3> QED
      OBVIOUS
  <2>2. \A j \in 1 .. L : \A x \in V[j - 1] : step[j][x] \in V[j]
    <3> HIDE DEF V, step
    <3> QED
      BY <1>3, <2>1
  <2> HIDE DEF V, step
  <2>3. PICK g : Iterates(L, ZeroPoly, step, g) /\ \A j \in 0 .. L : g[j] \in V[j]
    BY <1>1, <1>2, <2>2, Levels
  <2>4. \A j \in 0 .. L : j # 0 => j \in 1 .. L /\ j - 1 \in 0 .. L
    BY <1>1
  <2>5. \A j \in 0 .. L : j # 0 => step[j][g[j - 1]] = NttAdd(g[j - 1], multiply_ntt(v[j - 1], w[j - 1]))
    BY <2>1, <2>3, <2>4, Zenon
  <2>6. g = [j \in 0 .. L |-> IF j = 0 THEN ZeroPoly ELSE step[j][g[j - 1]]]
    BY <2>3, Zenon DEF Iterates
  <2>7. P(g)
    BY <2>5, <2>6, Zenon
  <2> HIDE DEF P
  <2> QED
    BY <2>3, <2>7, Zenon
<1> DEFINE dot(c) ==
             LET sum[n \in 0 .. c] ==
                 IF n = 0 THEN ZeroPoly
                 ELSE NttAdd(sum[n - 1], multiply_ntt(v[n - 1], w[n - 1]))
             IN sum[c]
           last == CHOOSE m \in DOMAIN v : \A i \in DOMAIN v : i <= m
<1>10. NttDot(v, w) = dot(1 + last)
  BY Zenon DEF NttDot
<1>11. 1 + last = L
  <2>1. DOMAIN v = 0 .. L - 1 /\ L - 1 \in 0 .. L - 1
    BY ParameterSet DEF Columns
  <2>2. last = L - 1
    BY <1>1, <2>1
  <2> HIDE DEF last
  <2> QED
    BY <1>1, <2>2
<1>12. NttDot(v, w) = dot(L)
  <2> HIDE DEF dot, last
  <2> QED
    BY <1>10, <1>11, Zenon
<1> DEFINE sum[j \in 0 .. L] == IF j = 0 THEN ZeroPoly ELSE NttAdd(sum[j - 1], multiply_ntt(v[j - 1], w[j - 1]))
<1>5. P(sum)
  <2>1. sum = CHOOSE g : P(g)
    OBVIOUS
  <2> HIDE DEF P, sum
  <2> QED
    BY <1>4, <2>1, Zenon
<1>6. NttDot(v, w) = sum[L]
  BY <1>12, Zenon DEF dot
<1> HIDE DEF sum
<1>7. \A j \in 0 .. L : sum[j] \in V[j]
  <2> DEFINE T == {j \in 0 .. L : sum[j] \in V[j]}
  <2>1. 0 \in 0 .. L /\ \A j \in 1 .. L : j \in 0 .. L /\ j # 0
    BY <1>1
  <2>2. sum[0] = ZeroPoly /\ \A j \in 1 .. L : sum[j] = NttAdd(sum[j - 1], multiply_ntt(v[j - 1], w[j - 1]))
    <3>1. \A j \in 0 .. L : sum[j] = IF j = 0 THEN ZeroPoly ELSE NttAdd(sum[j - 1], multiply_ntt(v[j - 1], w[j - 1]))
      BY <1>5, Zenon
    <3> QED
      BY <2>1, <3>1, Zenon
  <2> HIDE DEF V
  <2>3. 0 \in T
    BY <1>2, <2>1, <2>2, Zenon
  <2>4. \A j \in 1 .. L : j - 1 \in T => j \in T
    BY <1>3, <2>1, <2>2, Zenon
  <2> HIDE DEF T
  <2>5. \A j \in 0 .. L : j \in T
    BY <1>1, <2>3, <2>4, UpTo
  <2> QED
    BY <2>5, Zenon DEF T
<1>8. DotRun(v, w, sum)
  BY <1>5, Zenon DEF DotRun
<1>9. \A j \in 0 .. L : sum[j] \in Polynomial
  <2>1. \A j \in 0 .. L : V[j] = Polynomial
    BY Zenon
  <2> HIDE DEF V
  <2> QED
    BY <1>7, <2>1, Zenon
<1> QED
  BY <1>6, <1>8, <1>9, Zenon

LEMMA DotTyped ==
  ASSUME NEW v \in [Columns -> Polynomial], NEW w \in [Columns -> Polynomial]
  PROVE  NttDot(v, w) \in Polynomial
<1>1. L \in 0 .. L
  BY ParameterSet
<1> QED
  BY <1>1, DotIs

Matrix == [Rows -> [Columns -> Polynomial]]

LEMMA VectorOps ==
  ASSUME NEW S, NEW v \in [S -> Polynomial], NEW w \in [S -> Polynomial],
         NEW f \in Polynomial, NEW x \in Elem
  PROVE  /\ VecAdd(v, w) = [r \in S |-> PolyAdd(v[r], w[r])]
         /\ VecSub(v, w) = [r \in S |-> PolySub(v[r], w[r])]
         /\ VecScale(x, v) = [r \in S |-> PolyScale(x, v[r])]
         /\ NttVecScale(f, v) = [r \in S |-> multiply_ntt(f, v[r])]
         /\ NttVecSub(v, w) = [r \in S |-> NttSub(v[r], w[r])]
         /\ ntt_vec(v) = [r \in S |-> ntt(v[r])]
         /\ ntt_inverse_vec(v) = [r \in S |-> ntt_inverse(v[r])]
         /\ {VecAdd(v, w), VecSub(v, w), VecScale(x, v), NttVecScale(f, v), NttVecSub(v, w),
             ntt_vec(v), ntt_inverse_vec(v)} \subseteq [S -> Polynomial]
<1>1. DOMAIN v = S
  OBVIOUS
<1>2. /\ VecAdd(v, w) = [r \in S |-> PolyAdd(v[r], w[r])]
      /\ VecSub(v, w) = [r \in S |-> PolySub(v[r], w[r])]
      /\ VecScale(x, v) = [r \in S |-> PolyScale(x, v[r])]
      /\ NttVecScale(f, v) = [r \in S |-> multiply_ntt(f, v[r])]
      /\ NttVecSub(v, w) = [r \in S |-> NttSub(v[r], w[r])]
      /\ ntt_vec(v) = [r \in S |-> ntt(v[r])]
      /\ ntt_inverse_vec(v) = [r \in S |-> ntt_inverse(v[r])]
  BY <1>1, ArrayIs, Zenon DEF VecAdd, VecSub, VecScale, NttVecScale, NttVecSub, ntt_vec, ntt_inverse_vec
<1>3. ASSUME NEW r \in S
      PROVE  /\ PolyAdd(v[r], w[r]) \in Polynomial /\ PolySub(v[r], w[r]) \in Polynomial
             /\ PolyScale(x, v[r]) \in Polynomial /\ multiply_ntt(f, v[r]) \in Polynomial
             /\ NttSub(v[r], w[r]) \in Polynomial
             /\ ntt(v[r]) \in Polynomial /\ ntt_inverse(v[r]) \in Polynomial
  <2>1. v[r] \in Polynomial /\ w[r] \in Polynomial
    OBVIOUS
  <2> QED
    BY <2>1, PolyOps, NttTyped
<1>4. /\ VecAdd(v, w) \in [S -> Polynomial] /\ VecSub(v, w) \in [S -> Polynomial]
      /\ VecScale(x, v) \in [S -> Polynomial] /\ NttVecScale(f, v) \in [S -> Polynomial]
      /\ NttVecSub(v, w) \in [S -> Polynomial]
      /\ ntt_vec(v) \in [S -> Polynomial] /\ ntt_inverse_vec(v) \in [S -> Polynomial]
  BY <1>2, <1>3
<1> QED
  BY <1>2, <1>4

LEMMA ProductTyped ==
  ASSUME NEW A \in Matrix, NEW v \in [Columns -> Polynomial]
  PROVE  /\ NttMatVec(A, v) = [r \in Rows |-> NttDot(A[r], v)]
         /\ NttMatVec(A, v) \in [Rows -> Polynomial]
         /\ Product(A, v) \in [Rows -> Polynomial]
<1>1. DOMAIN A = Rows /\ \A r \in Rows : A[r] \in [Columns -> Polynomial]
  BY DEF Matrix
<1>2. NttMatVec(A, v) = [r \in Rows |-> NttDot(A[r], v)]
  BY <1>1, ArrayIs, Zenon DEF NttMatVec
<1>3. \A r \in Rows : NttDot(A[r], v) \in Polynomial
  BY <1>1, DotTyped
<1>4. NttMatVec(A, v) \in [Rows -> Polynomial]
  BY <1>2, <1>3
<1>5. Product(A, v) \in [Rows -> Polynomial]
  BY <1>4, ZeroTyped, NttConstants, VectorOps DEF Product
<1> QED
  BY <1>2, <1>4, <1>5

LEMMA MaskTyped ==
  ASSUME NEW rho, NEW mu
  PROVE  expand_mask(rho, mu) \in [Columns -> Polynomial]
<1> DEFINE a == Gamma1 - 1
<1>1. PackedRange(a, Gamma1) /\ a + Gamma1 + 1 = 2^RangeEncodingBits(a, Gamma1)
  BY MaskRange
<1> HIDE DEF a
<1>2. ASSUME NEW bytes
      PROVE  unpack(a, Gamma1, bytes) \in Polynomial
  BY <1>1, UnpackedIs
<1>3. \A bytes : unpack_mask(bytes) \in Polynomial
  BY <1>2, Zenon DEF unpack_mask, a
<1> DEFINE m(r) == unpack_mask(squeeze_new(absorb(absorb(H, rho),
                                to_le_bytes((mu + r) % (U16_MAX + 1))), SampleSize))
<1>4. expand_mask(rho, mu) = [r \in Columns |-> m(r)]
  BY ArrayIs, Zenon DEF expand_mask
<1>5. \A r : m(r) \in Polynomial
  BY <1>3, Zenon
<1> HIDE DEF m
<1> QED
  BY <1>4, <1>5
-----------------------------------------------------------------------------
(* What signing_pass computes, stage by stage.                                *)
PassOf(esk, mu, seed, kappa, p) ==
  LET c_hat == ntt(p.c)
      z == VecAdd(p.y, times(c_hat, esk.s1_hat))
  IN /\ p.y = expand_mask(seed, kappa)
     /\ p.w = Product(esk.A_hat, ntt_vec(p.y))
     /\ p.c_tilde = squeeze_new(absorb(absorb(H, mu), encode_w1(VecHighBits(p.w))), Lambda)
     /\ p.c = sample_in_ball(p.c_tilde)
     /\ p.w_cs2 = VecSub(p.w, times(c_hat, esk.s2_hat))
     /\ p.ct0 = times(c_hat, esk.t0_hat)
     /\ p.signature.c_tilde = p.c_tilde
     /\ p.signature.z = VecModPlusMinus(Q, z)
     /\ p.signature.h = HintNew(VecNeg(p.ct0), VecAdd(p.w_cs2, p.ct0))
     /\ p.accepted <=> ~leaks(z, VecLowBits(p.w_cs2)) /\ ~unhintable(p.ct0, p.signature.h)

LEMMA PassIs ==
  ASSUME NEW esk, NEW mu, NEW seed, NEW kappa
  PROVE  PassOf(esk, mu, seed, kappa, signing_pass(esk, mu, seed, kappa))
<1> DEFINE y == expand_mask(seed, kappa)
           w == Product(esk.A_hat, ntt_vec(y))
           ct == squeeze_new(absorb(absorb(H, mu), encode_w1(VecHighBits(w))), Lambda)
           c == sample_in_ball(ct)
           g == ntt(c)
           q == [y |-> y, w |-> w, c_tilde |-> ct, c |-> c]
           w_cs2 == VecSub(w, times(g, esk.s2_hat))
           ct0 == times(g, esk.t0_hat)
           z == VecAdd(y, times(g, esk.s1_hat))
           p == [y |-> y, w |-> w, c_tilde |-> ct, c |-> c, w_cs2 |-> w_cs2, ct0 |-> ct0]
           h == HintNew(VecNeg(ct0), VecAdd(w_cs2, ct0))
           d == decide(p, z, h)
<1>1. signing_pass(esk, mu, seed, kappa) = respond(esk, q, g)
  BY Zenon DEF signing_pass, commit, challenge
<1>2. q.y = y /\ q.w = w /\ q.c_tilde = ct /\ q.c = c
  <2> HIDE DEF y, w, ct, c
  <2> QED
    OBVIOUS
<1> HIDE DEF q
<1>3. respond(esk, q, g) = hint(p, z)
  BY <1>2, Zenon DEF respond
<1> HIDE DEF y, w, ct, c, g, w_cs2, ct0, z
<1>4. p.y = y /\ p.w = w /\ p.c_tilde = ct /\ p.c = c /\ p.w_cs2 = w_cs2 /\ p.ct0 = ct0
  OBVIOUS
<1> HIDE DEF p
<1>5. hint(p, z) = decide(p, z, h)
  BY <1>4, Zenon DEF hint, h
<1> HIDE DEF h
<1>6. d = decide(p, z, h)
  OBVIOUS
<1> HIDE DEF d
<1>7. /\ d.y = p.y /\ d.w = p.w /\ d.c_tilde = p.c_tilde /\ d.c = p.c
      /\ d.w_cs2 = p.w_cs2 /\ d.ct0 = p.ct0 /\ d.signature.c_tilde = p.c_tilde
      /\ d.signature.z = VecModPlusMinus(Q, z) /\ d.signature.h = h
      /\ d.accepted = (~leaks(z, VecLowBits(p.w_cs2)) /\ ~unhintable(p.ct0, h))
  BY <1>6, Zenon DEF decide
<1>8. PassOf(esk, mu, seed, kappa, d)
  BY <1>4, <1>7, Zenon DEF PassOf, y, w, ct, c, g, w_cs2, ct0, z, h
<1> QED
  BY <1>1, <1>3, <1>5, <1>6, <1>8, Zenon

LEMMA TimesTyped ==
  ASSUME NEW S, NEW f \in Polynomial, NEW v \in [S -> Polynomial]
  PROVE  times(f, v) \in [S -> Polynomial]
BY NttConstants, VectorOps DEF times

(* The norm of a vector bounds each coefficient.                              *)
LEMMA LargestOf ==
  ASSUME NEW B \in Nat, NEW S, S \subseteq 0 .. B, S # {}
  PROVE  largest(S) \in S /\ \A m \in S : m <= largest(S)
<1> DEFINE T == {B - x : x \in S}
<1>1. T \subseteq Nat /\ T # {}
  <2>1. \A x \in S : B - x \in Nat
    OBVIOUS
  <2> QED
    BY <2>1, Zenon
<1>2. PICK y \in T : \A z \in T : y <= z
  <2> HIDE DEF T
  <2> QED
    BY <1>1, LeastElement
<1>3. PICK n \in S : y = B - n
  OBVIOUS
<1>4. \A m \in S : m <= n
  <2> TAKE m \in S
  <2>1. B - m \in T
    OBVIOUS
  <2>2. y <= B - m
    BY <1>2, <2>1
  <2>3. m \in Nat /\ n \in Nat
    BY <1>3
  <2> HIDE DEF T
  <2> QED
    BY <1>3, <2>2, <2>3
<1>5. \E k \in S : \A m \in S : m <= k
  <2> WITNESS n \in S
  <2> QED
    BY <1>4
<1> QED
  BY <1>5, Zenon DEF largest

Norms(v) == {infinity_norm(v[q][j]) : q \in DOMAIN v, j \in Coeff}

LEMMA NormBounds ==
  ASSUME NEW S, NEW v \in [S -> Polynomial], NEW r \in S, NEW i \in Coeff
  PROVE  VecNorm(v) \in Nat /\ infinity_norm(v[r][i]) \in Nat /\ infinity_norm(v[r][i]) <= VecNorm(v)
<1>1. Q \in Nat /\ Q > 2
  BY Field
<1>2. ASSUME NEW q \in S, NEW j \in Coeff
      PROVE  infinity_norm(v[q][j]) \in 0 .. Q
  <2>1. v[q][j] \in 0 .. Q - 1
    BY DEF Polynomial, Elem
  <2> QED
    BY <1>1, <2>1 DEF infinity_norm
<1>3. Norms(v) \subseteq 0 .. Q
  BY <1>2 DEF Norms
<1>4. infinity_norm(v[r][i]) \in Norms(v)
  BY DEF Norms
<1>5. VecNorm(v) = largest(Norms(v))
  BY DEF VecNorm, Norms
<1>6. largest(Norms(v)) \in Norms(v) /\ \A m \in Norms(v) : m <= largest(Norms(v))
  BY <1>1, <1>3, <1>4, LargestOf
<1>7. VecNorm(v) \in 0 .. Q /\ infinity_norm(v[r][i]) \in 0 .. Q
  BY <1>3, <1>4, <1>5, <1>6, Zenon
<1>8. infinity_norm(v[r][i]) <= VecNorm(v)
  BY <1>4, <1>5, <1>6, Zenon
<1> QED
  BY <1>1, <1>7, <1>8
-----------------------------------------------------------------------------
VecWithin(S, a, b, v) ==
  /\ v \in [S -> Polynomial]
  /\ \A r \in S, i \in Coeff : InRange(a, b, v[r][i])

(* The secrets in their ranges, and their transforms beside them.             *)
KeyShape(esk) ==
  /\ esk.A_hat \in Matrix
  /\ VecWithin(Columns, Eta, Eta, esk.s1) /\ VecWithin(Rows, Eta, Eta, esk.s2)
  /\ VecWithin(Rows, Pow2DMinus1 - 1, Pow2DMinus1, esk.t0)
  /\ esk.s1_hat = ntt_vec(esk.s1) /\ esk.s2_hat = ntt_vec(esk.s2)
  /\ esk.t0_hat = ntt_vec(esk.t0)

(* What a seed is expanded to.                                                *)
Secrets(xi, rho, seed, A_hat, s1, s2, sk) ==
  LET t == VecPower2Round(VecAdd(Product(A_hat, ntt_vec(s1)), s2))
      tr == squeeze_new(absorb(H, encode_internal(rho, t[1])), B64)
  IN sk = signing_key(xi, ExpandedSigningKey(rho, seed, tr, s1, s2, t[2], A_hat))

LEMMA SeedExpands ==
  ASSUME NEW xi
  PROVE  \E rho, seed, s1, s2 :
           /\ IsArray(B32, rho) /\ IsArray(B32, seed)
           /\ Secrets(xi, rho, seed, expand_a(rho), s1, s2, from_seed(xi))
<1> DEFINE h == squeeze(absorb(absorb(absorb(H, xi), << K >>), << L >>), B32)
           h1 == squeeze(h.ctx, B64)
           rho == h.bytes
           seed == squeeze_new(h1.ctx, B32)
           s1 == expand_s(L, h1.bytes, 0)
           s2 == expand_s(K, h1.bytes, L)
<1>1. from_seed(xi) = with_secrets(xi, rho, seed, expand_a(rho), s1, s2)
  BY Zenon DEF from_seed
<1>2. ASSUME NEW ctx
      PROVE  IsArray(B32, squeeze(ctx, B32).bytes) /\ IsArray(B32, squeeze_new(ctx, B32))
  BY ArrayIs DEF squeeze_new, squeeze, IsArray
<1>3. IsArray(B32, rho) /\ IsArray(B32, seed)
  BY <1>2, Zenon
<1> HIDE DEF rho, seed, s1, s2
<1>4. Secrets(xi, rho, seed, expand_a(rho), s1, s2, from_seed(xi))
  BY <1>1, Zenon DEF Secrets, with_secrets, with_t
<1> HIDE DEF Secrets
<1> QED
  BY <1>3, <1>4, Zenon

LEMMA Expanded ==
  ASSUME NEW rho, NEW seed, NEW tr, NEW s1, NEW s2, NEW t0, NEW A, NEW esk,
         esk = ExpandedSigningKey(rho, seed, tr, s1, s2, t0, A)
  PROVE  /\ esk.rho = rho /\ esk.K = seed /\ esk.tr = tr /\ esk.s1 = s1 /\ esk.s2 = s2
         /\ esk.t0 = t0 /\ esk.A_hat = A /\ esk.s1_hat = ntt_vec(s1)
         /\ esk.s2_hat = ntt_vec(s2) /\ esk.t0_hat = ntt_vec(t0)
BY DEF ExpandedSigningKey

LEMMA UnpackedVector ==
  ASSUME NEW a, NEW b, PackedRange(a, b), NEW k \in Nat, NEW bytes,
         \/ unpackable_vec(k, a, b, bytes)
         \/ a + b + 1 = 2^RangeEncodingBits(a, b)
  PROVE  /\ unpackable_vec(k, a, b, bytes)
         /\ VecWithin(0 .. k - 1, a, b, unpack_vec(k, a, b, bytes))
<1> DEFINE polys == unflatten(k, bytes)
<1>1. unpackable_vec(k, a, b, bytes) <=> \A r \in 0 .. k - 1 : unpackable(a, b, polys[r])
  BY Zenon DEF unpackable_vec
<1>2. unpack_vec(k, a, b, bytes) = [r \in 0 .. k - 1 |-> unpack(a, b, polys[r])]
  BY ArrayIs, Zenon DEF unpack_vec
<1> HIDE DEF polys
<1>3. ASSUME NEW r \in 0 .. k - 1
      PROVE  /\ unpackable(a, b, polys[r])
             /\ unpack(a, b, polys[r]) \in Polynomial
             /\ \A i \in Coeff : InRange(a, b, unpack(a, b, polys[r])[i])
  <2>1. unpackable(a, b, polys[r]) \/ a + b + 1 = 2^RangeEncodingBits(a, b)
    BY <1>1, Zenon
  <2> QED
    BY <2>1, UnpackedIs, Zenon
<1>4. \A r \in 0 .. k - 1 : unpack_vec(k, a, b, bytes)[r] = unpack(a, b, polys[r])
  BY <1>2, Zenon
<1>5. unpack_vec(k, a, b, bytes) \in [0 .. k - 1 -> Polynomial]
  BY <1>2, <1>3
<1> QED
  BY <1>1, <1>3, <1>4, <1>5, Zenon DEF VecWithin

-----------------------------------------------------------------------------
(* Where a key is from.                                                       *)
FromSeed(k) ==
  /\ k.seed \in Seq(Byte) /\ Len(k.seed) = B32
  /\ k.esk = from_seed(k.seed).expanded_key /\ k.vk = from_seed(k.seed).verifying_key

LEMMA SeedKept ==
  ASSUME NEW xi
  PROVE  from_seed(xi).seed = xi
<1>1. PICK rho, seed, s1, s2 : Secrets(xi, rho, seed, expand_a(rho), s1, s2, from_seed(xi))
  BY SeedExpands, Zenon
<1>2. \E esk : from_seed(xi) = signing_key(xi, esk)
  BY <1>1, Zenon DEF Secrets
<1> QED
  BY <1>2 DEF signing_key

LEMMA ExpandedKeyTyped ==
  ASSUME NEW enc, ExpandedUnpackable(enc), from_expanded(enc).A_hat \in Matrix
  PROVE  KeyShape(from_expanded(enc))
<1> DEFINE p == split_sk(enc)
           esk == from_expanded(enc)
<1>1. esk = ExpandedSigningKey(p.rho, p.K, p.tr, decode_s1(p.s1), decode_s2(p.s2),
                               decode_t0(p.t0), expand_a(p.rho))
  BY Zenon DEF from_expanded
<1>2. /\ unpackable_vec(L, Eta, Eta, p.s1) /\ unpackable_vec(K, Eta, Eta, p.s2)
      /\ unpackable_vec(K, Pow2DMinus1 - 1, Pow2DMinus1, p.t0)
  BY Zenon DEF ExpandedUnpackable
<1> HIDE DEF p, esk
<1>3. /\ esk.s1 = decode_s1(p.s1) /\ esk.s2 = decode_s2(p.s2) /\ esk.t0 = decode_t0(p.t0)
      /\ esk.s1_hat = ntt_vec(esk.s1) /\ esk.s2_hat = ntt_vec(esk.s2)
      /\ esk.t0_hat = ntt_vec(esk.t0)
  BY <1>1, Zenon DEF ExpandedSigningKey
<1>4. K \in Nat /\ L \in Nat
  BY ParameterSet
<1>5. VecWithin(0 .. L - 1, Eta, Eta, esk.s1)
  BY <1>2, <1>3, <1>4, EtaRange, UnpackedVector, Zenon DEF decode_s1
<1>6. VecWithin(0 .. K - 1, Eta, Eta, esk.s2)
  BY <1>2, <1>3, <1>4, EtaRange, UnpackedVector, Zenon DEF decode_s2
<1>7. VecWithin(0 .. K - 1, Pow2DMinus1 - 1, Pow2DMinus1, esk.t0)
  BY <1>2, <1>3, <1>4, T0Range, UnpackedVector, Zenon DEF decode_t0
<1>8. esk.A_hat \in Matrix
  BY DEF esk
<1>9. KeyShape(esk)
  BY <1>3, <1>5, <1>6, <1>7, <1>8, Zenon DEF KeyShape, Rows, Columns
<1> QED
  BY <1>9, Zenon DEF esk

LEMMA PackableOf ==
  ASSUME NEW a, NEW b, PackedRange(a, b), NEW k, NEW v, VecWithin(0 .. k - 1, a, b, v)
  PROVE  packable_vec(k, a, b, v)
<1>1. ASSUME NEW r \in 0 .. k - 1
      PROVE  packable(a, b, v[r])
  <2>1. v[r] \in Polynomial /\ \A i \in Coeff : InRange(a, b, v[r][i])
    BY DEF VecWithin
  <2> QED
    BY <2>1, RangePackable, Zenon
<1> QED
  BY <1>1, Zenon DEF packable_vec

LEMMA KeyPackable ==
  ASSUME NEW esk, KeyShape(esk)
  PROVE  ExpandedPackable(esk)
<1>1. /\ VecWithin(0 .. L - 1, Eta, Eta, esk.s1) /\ VecWithin(0 .. K - 1, Eta, Eta, esk.s2)
      /\ VecWithin(0 .. K - 1, Pow2DMinus1 - 1, Pow2DMinus1, esk.t0)
  BY Zenon DEF KeyShape, Rows, Columns
<1> QED
  BY <1>1, EtaRange, T0Range, PackableOf, Zenon DEF ExpandedPackable

(* What a pass computes with are residues.                                    *)
LEMMA PassTyped ==
  ASSUME NEW esk, KeyShape(esk), NEW mu, NEW seed, NEW kappa, NEW p,
         PassOf(esk, mu, seed, kappa, p), p.c \in Polynomial
  PROVE  /\ p.y \in [Columns -> Polynomial] /\ ntt(p.c) \in Polynomial
         /\ p.w \in [Rows -> Polynomial] /\ p.w_cs2 \in [Rows -> Polynomial]
         /\ p.ct0 \in [Rows -> Polynomial]
         /\ VecAdd(p.y, times(ntt(p.c), esk.s1_hat)) \in [Columns -> Polynomial]
<1> DEFINE g == ntt(p.c)
<1>1. /\ p.y = expand_mask(seed, kappa) /\ p.w = Product(esk.A_hat, ntt_vec(p.y))
      /\ p.w_cs2 = VecSub(p.w, times(g, esk.s2_hat))
      /\ p.ct0 = times(g, esk.t0_hat)
  BY Zenon DEF PassOf
<1>2. g \in Polynomial
  BY NttTyped
<1> HIDE DEF g
<1>3. p.y \in [Columns -> Polynomial]
  BY <1>1, MaskTyped, Zenon
<1>4. /\ esk.A_hat \in Matrix /\ esk.s1 \in [Columns -> Polynomial]
      /\ esk.s2 \in [Rows -> Polynomial] /\ esk.t0 \in [Rows -> Polynomial]
      /\ esk.s1_hat = ntt_vec(esk.s1) /\ esk.s2_hat = ntt_vec(esk.s2)
      /\ esk.t0_hat = ntt_vec(esk.t0)
  BY Zenon DEF KeyShape, VecWithin
<1>5. \A S : \A v \in [S -> Polynomial] : ntt_vec(v) \in [S -> Polynomial]
  BY ZeroTyped, NttConstants, VectorOps
<1>6. /\ esk.s1_hat \in [Columns -> Polynomial] /\ esk.s2_hat \in [Rows -> Polynomial]
      /\ esk.t0_hat \in [Rows -> Polynomial] /\ ntt_vec(p.y) \in [Columns -> Polynomial]
  BY <1>3, <1>4, <1>5
<1>7. p.w \in [Rows -> Polynomial]
  <2>1. Product(esk.A_hat, ntt_vec(p.y)) \in [Rows -> Polynomial]
    BY <1>4, <1>6, ProductTyped
  <2> QED
    BY <1>1, <2>1, Zenon
<1>8. /\ times(g, esk.s1_hat) \in [Columns -> Polynomial]
      /\ times(g, esk.s2_hat) \in [Rows -> Polynomial]
      /\ times(g, esk.t0_hat) \in [Rows -> Polynomial]
  BY <1>2, <1>6, TimesTyped, Zenon
<1>9. /\ VecSub(p.w, times(g, esk.s2_hat)) \in [Rows -> Polynomial]
      /\ VecAdd(p.y, times(g, esk.s1_hat)) \in [Columns -> Polynomial]
  <2>1. \A S : \A v \in [S -> Polynomial], x \in [S -> Polynomial] :
          VecSub(v, x) \in [S -> Polynomial] /\ VecAdd(v, x) \in [S -> Polynomial]
    BY ZeroTyped, NttConstants, VectorOps
  <2> QED
    BY <1>3, <1>7, <1>8, <2>1, Zenon
<1> QED
  BY <1>1, <1>2, <1>3, <1>7, <1>8, <1>9, Zenon DEF g

-----------------------------------------------------------------------------
LEMMA CenteredModQ ==
  ASSUME NEW x \in Elem
  PROVE  mod_plus_minus(Q, x) = x
<1>1. Q \in Nat \ {0} /\ Q > 2 /\ Q < 2^30 /\ x \in Nat /\ x < Q
  BY Field DEF Elem
<1>2. x < Q * Q
  <2>1. 1 * Q <= Q * Q
    BY <1>1, MulMono
  <2>2. Q * Q \in Nat
    BY <1>1
  <2> QED
    BY <1>1, <2>1, <2>2
<1>3. reduce(Q, x) = x
  BY <1>1, <1>2, ReduceExact, SmallMod
<1>4. ElemSub(x, Q) = x
  BY <1>1 DEF ElemSub, small_reduce
<1> QED
  BY <1>3, <1>4, Zenon DEF mod_plus_minus, centered

LEMMA CenteredVector ==
  ASSUME NEW S, NEW v \in [S -> Polynomial]
  PROVE  VecModPlusMinus(Q, v) = v
<1> DEFINE row(r) == [i \in Coeff |-> mod_plus_minus(Q, v[r][i])]
<1>1. DOMAIN v = S
  OBVIOUS
<1>2. VecModPlusMinus(Q, v) = [r \in S |-> Array(row(r))]
  BY <1>1, ArrayIs, Zenon DEF VecModPlusMinus, VecMap
<1>3. ASSUME NEW r \in S
      PROVE  Array(row(r)) = v[r]
  <2>1. Array(row(r)) = row(r)
    BY ArrayIs, Zenon
  <2>2. v[r] \in [Coeff -> Elem]
    BY DEF Polynomial
  <2>3. \A i \in Coeff : mod_plus_minus(Q, v[r][i]) = v[r][i]
    BY <2>2, CenteredModQ
  <2>4. row(r) = v[r]
    BY <2>2, <2>3
  <2> QED
    BY <2>1, <2>4
<1> HIDE DEF row
<1> QED
  BY <1>2, <1>3

LEMMA WeightTyped ==
  ASSUME NEW h
  PROVE  hamming_weight(h) \in Nat
<1> DEFINE T == {c \in Rows \X Coeff : h[c[1]][c[2]]}
<1>1. K - 1 \in Int /\ N - 1 \in Int
  BY ParameterSet, Field
<1>2. IsFiniteSet(Rows) /\ IsFiniteSet(Coeff)
  BY <1>1, FS_Interval DEF Rows, Coeff
<1>3. IsFiniteSet(Rows \X Coeff)
  BY <1>2, FS_Product
<1>4. T \in SUBSET (Rows \X Coeff)
  OBVIOUS
<1> HIDE DEF T
<1>5. IsFiniteSet(T)
  BY <1>3, <1>4, FS_Subset
<1>6. Cardinality(T) \in Nat
  BY <1>5, FS_CardinalityType
<1> QED
  BY <1>6, Zenon DEF hamming_weight, T

(* What a pass that ends the loop lets go is in its ranges.                   *)
LEMMA NormWithin ==
  ASSUME NEW z \in [Columns -> Polynomial], ~(VecNorm(z) >= GAMMA1_MINUS_BETA)
  PROVE  VecWithin(Columns, Gamma1 - 1, Gamma1, z)
<1>1. Gamma1 \in Nat \ {0} /\ Q \in Nat /\ Q > 2
  BY MaskRange, Field
<1>2. BETA \in Nat
  <2>1. TAU \in Nat /\ Eta \in Nat
    BY ParameterSet
  <2> QED
    BY <2>1 DEF BETA
<1>3. ASSUME NEW r \in Columns, NEW i \in Coeff
      PROVE  InRange(Gamma1 - 1, Gamma1, z[r][i])
  <2>1. /\ VecNorm(z) \in Nat /\ infinity_norm(z[r][i]) \in Nat
        /\ infinity_norm(z[r][i]) <= VecNorm(z)
    BY NormBounds
  <2>2. infinity_norm(z[r][i]) < Gamma1
    BY <1>1, <1>2, <2>1 DEF GAMMA1_MINUS_BETA
  <2>3. z[r][i] \in 0 .. Q - 1
    BY DEF Polynomial, Elem
  <2> QED
    BY <1>1, <2>2, <2>3 DEF infinity_norm, InRange, Elem
<1> QED
  BY <1>3, Zenon DEF VecWithin

LEMMA PassWithin ==
  ASSUME NEW esk, KeyShape(esk), NEW mu, NEW seed, NEW kappa, NEW p,
         PassOf(esk, mu, seed, kappa, p), p.c \in Polynomial, p.accepted
  PROVE  /\ p.signature.z = VecAdd(p.y, times(ntt(p.c), esk.s1_hat))
         /\ ~(VecNorm(p.signature.z) >= GAMMA1_MINUS_BETA)
         /\ VecWithin(Columns, Gamma1 - 1, Gamma1, p.signature.z)
         /\ ~(VecNorm(VecLowBits(p.w_cs2)) >= GAMMA2_MINUS_BETA)
         /\ ~(VecNorm(p.ct0) >= Gamma2)
         /\ hamming_weight(p.signature.h) <= Omega
<1> DEFINE z == VecAdd(p.y, times(ntt(p.c), esk.s1_hat))
<1>1. z \in [Columns -> Polynomial]
  BY PassTyped
<1>2. /\ p.signature.z = VecModPlusMinus(Q, z)
      /\ ~leaks(z, VecLowBits(p.w_cs2)) /\ ~unhintable(p.ct0, p.signature.h)
  BY Zenon DEF PassOf
<1> HIDE DEF z
<1>3. p.signature.z = z
  BY <1>1, <1>2, CenteredVector, Zenon
<1>4. /\ ~(VecNorm(z) >= GAMMA1_MINUS_BETA)
      /\ ~(VecNorm(VecLowBits(p.w_cs2)) >= GAMMA2_MINUS_BETA)
      /\ ~(VecNorm(p.ct0) >= Gamma2) /\ ~(hamming_weight(p.signature.h) > Omega)
  BY <1>2, Zenon DEF leaks, unhintable
<1>5. VecWithin(Columns, Gamma1 - 1, Gamma1, z)
  BY <1>1, <1>4, NormWithin
<1>6. hamming_weight(p.signature.h) <= Omega
  <2>1. hamming_weight(p.signature.h) \in Nat /\ Omega \in Nat
    BY WeightTyped, ParameterSet
  <2> QED
    BY <1>4, <2>1
<1>7. z = VecAdd(p.y, times(ntt(p.c), esk.s1_hat))
  BY DEF z
<1> QED
  BY <1>3, <1>4, <1>5, <1>6, <1>7, Zenon

-----------------------------------------------------------------------------
(* The unit of byte_encode: as many values as make whole bytes.               *)
LEMMA UnitIs ==
  ASSUME NEW d \in 1 .. 29
  PROVE  /\ ValueStep(d) \in Nat \ {0} /\ ByteStep(d) \in Nat \ {0}
         /\ d * ValueStep(d) = 8 * ByteStep(d)
         /\ \E u \in Nat \ {0} : N = ValueStep(d) * u /\ EncodedPolynomialSize(d) = u * ByteStep(d)
<1> DEFINE g == Gcd8(d)
           BS == ByteStep(d)
           VS == ValueStep(d)
<1>1. \E k \in {1, 2, 4, 8} : d % k = 0 /\ (k = 8 \/ d % (2 * k) # 0)
  <2>1. \/ d % 1 = 0 /\ d % (2 * 1) # 0
        \/ d % 2 = 0 /\ d % (2 * 2) # 0
        \/ d % 4 = 0 /\ d % (2 * 4) # 0
        \/ d % 8 = 0
    OBVIOUS
  <2> QED
    BY <2>1
<1>2. g \in {1, 2, 4, 8} /\ d % g = 0
  <2>1. g = CHOOSE k \in {1, 2, 4, 8} : d % k = 0 /\ (k = 8 \/ d % (2 * k) # 0)
    BY Zenon DEF Gcd8
  <2> HIDE DEF g
  <2> QED
    BY <1>1, <2>1, Zenon
<1>3. BS = d \div g /\ VS = 8 \div g
  BY Zenon DEF ByteStep, ValueStep
<1> HIDE DEF g, BS, VS
<1>4. /\ g * BS = d /\ BS \in Nat \ {0} /\ g * VS = 8 /\ VS \in {1, 2, 4, 8} /\ d * VS = 8 * BS
  <2>1. CASE g = 1
    BY <1>2, <1>3, <2>1
  <2>2. CASE g = 2
    BY <1>2, <1>3, <2>2
  <2>3. CASE g = 4
    BY <1>2, <1>3, <2>3
  <2>4. CASE g = 8
    BY <1>2, <1>3, <2>4
  <2> QED
    BY <1>2, <2>1, <2>2, <2>3, <2>4
<1>5. PICK m \in Nat \ {0} : N = 8 * m
  <2>1. LOGN - 3 \in Nat /\ 3 + (LOGN - 3) = LOGN /\ LOGN <= 29 /\ N = 2^LOGN
    BY Lengths
  <2>2. N = 2^3 * 2^(LOGN - 3) /\ 2^(LOGN - 3) \in Nat \ {0}
    <3>1. 3 \in Nat /\ 3 + (LOGN - 3) <= 29 /\ N = 2^(3 + (LOGN - 3))
      BY <2>1
    <3> QED
      BY <2>1, <3>1, PowerSum, Zenon
  <2>3. 2^3 = 8
    BY PowerTable
  <2> QED
    BY <2>2, <2>3
<1> DEFINE u == m * g
<1>6. u \in Nat \ {0} /\ N = VS * u
  <2>1. CASE g = 1
    BY <1>4, <1>5, <2>1
  <2>2. CASE g = 2
    BY <1>4, <1>5, <2>2
  <2>3. CASE g = 4
    BY <1>4, <1>5, <2>3
  <2>4. CASE g = 8
    BY <1>4, <1>5, <2>4
  <2> QED
    BY <1>2, <2>1, <2>2, <2>3, <2>4
<1>7. EncodedPolynomialSize(d) = u * BS
  <2>1. N * d = 8 * (m * d) /\ m * d \in Nat
    BY <1>5
  <2>2. (N * d) \div 8 = m * d
    BY <2>1
  <2>3. u * BS = m * d
    <3>1. (m * g) * BS = m * (g * BS)
      BY <1>2, <1>4
    <3> QED
      BY <1>4, <3>1
  <2> QED
    BY <2>2, <2>3, Zenon DEF EncodedPolynomialSize
<1>8. \E k \in Nat \ {0} : N = VS * k /\ EncodedPolynomialSize(d) = k * BS
  BY <1>6, <1>7
<1>9. VS \in Nat \ {0} /\ BS \in Nat \ {0}
  BY <1>4
<1> QED
  BY <1>4, <1>8, <1>9, Zenon DEF VS, BS

(* Where bit p of value j is: in byte n, o bits into its unit.                *)
PlacedAt(d, j, p, n, o) ==
  /\ n \in 1 .. EncodedPolynomialSize(d) /\ o \in Nat /\ o % 8 \in 0 .. 7
  /\ 8 * ((n - 1) % ByteStep(d)) + (o % 8) = o
  /\ o \div d = j % ValueStep(d) /\ o = d * (j % ValueStep(d)) + p
  /\ ((n - 1) \div ByteStep(d)) * ValueStep(d) + (j % ValueStep(d)) = j
  /\ j % ValueStep(d) \in Nat

LEMMA BitPlace ==
  ASSUME NEW d \in 1 .. 29, NEW j \in Coeff, NEW p \in 0 .. d - 1
  PROVE  LET o == d * (j % ValueStep(d)) + p
         IN PlacedAt(d, j, p, 1 + (j \div ValueStep(d)) * ByteStep(d) + o \div 8, o)
<1> DEFINE VS == ValueStep(d)
           BS == ByteStep(d)
           a == j \div VS
           v == j % VS
           o == d * v + p
           h == o \div 8
           n == 1 + a * BS + h
<1>1. VS \in Nat \ {0} /\ BS \in Nat \ {0} /\ d * VS = 8 * BS
  BY UnitIs
<1>2. PICK u \in Nat \ {0} : N = VS * u /\ EncodedPolynomialSize(d) = u * BS
  BY UnitIs
<1>3. j \in Nat /\ j < N /\ N \in Nat
  BY Field DEF Coeff
<1> HIDE DEF VS, BS
<1>4. a \in Nat /\ v \in 0 .. VS - 1 /\ j = VS * a + v
  BY <1>1, <1>3, DivMod
<1> HIDE DEF a, v
<1>5. o \in 0 .. 8 * BS - 1
  <2>1. v * d <= (VS - 1) * d
    BY <1>1, <1>4, MulMono
  <2>2. (VS - 1) * d = d * VS - d /\ v * d = d * v /\ d * v \in Nat
    BY <1>1, <1>4
  <2> QED
    BY <1>1, <2>1, <2>2
<1>6. o \div d = v
  BY <1>4, DivUnique
<1> HIDE DEF o
<1>7. h \in 0 .. BS - 1 /\ o = 8 * h + (o % 8) /\ o % 8 \in 0 .. 7 /\ o \in Nat
  BY <1>1, <1>5
<1> HIDE DEF h
<1>8. a * BS \in Nat
  BY <1>1, <1>4
<1>9. n - 1 = BS * a + h
  BY <1>1, <1>4, <1>7, <1>8
<1>10. (n - 1) \div BS = a /\ (n - 1) % BS = h
  BY <1>1, <1>4, <1>7, <1>9, DivUnique
<1>11. n \in 1 .. u * BS
  <2>1. a + 1 <= u
    <3>1. CASE u <= a
      <4>1. u * VS <= a * VS /\ a * VS = VS * a /\ u * VS = VS * u /\ VS * a \in Nat
        BY <1>1, <1>2, <1>4, <3>1, MulMono
      <4> QED
        BY <1>2, <1>3, <1>4, <4>1
    <3> QED
      BY <1>2, <1>4, <3>1
  <2>2. (a + 1) * BS <= u * BS /\ (a + 1) * BS = a * BS + BS /\ u * BS \in Nat
    BY <1>1, <1>2, <1>4, <2>1, MulMono
  <2> QED
    BY <1>1, <1>7, <1>8, <2>2
<1>12. a * VS + v = j
  BY <1>1, <1>4
<1>13. PlacedAt(d, j, p, n, o)
  <2>1. v \in Nat /\ o = d * v + p
    BY <1>4 DEF o
  <2>2. 8 * ((n - 1) % BS) + (o % 8) = o /\ ((n - 1) \div BS) * VS + v = j
    BY <1>7, <1>10, <1>12
  <2> HIDE DEF n
  <2> QED
    BY <1>2, <1>6, <1>7, <1>11, <2>1, <2>2, Zenon DEF PlacedAt, VS, BS, v
<1> QED
  BY <1>13 DEF n, h, o, a, v, VS, BS

LEMMA BitAbove ==
  ASSUME NEW d \in 1 .. 29, NEW x \in Nat, x < 2^d, NEW q \in d .. 29
  PROVE  bit(x, q) = 0
<1>1. 2^d <= 2^q /\ 2^d \in Nat /\ 2^q \in Nat
  <2>1. CASE q = d
    BY <2>1, Powers
  <2>2. CASE q # d
    <3>1. d \in 0 .. 29 /\ q \in 0 .. 29 /\ d < q
      BY <2>2
    <3>2. 2^(d + 1) <= 2^q /\ 2^(d + 1) = 2 * 2^d /\ 2^d \in Nat \ {0} /\ 2^q \in Nat
      BY <3>1, PowerMono, Powers
    <3> QED
      BY <3>2
  <2> QED
    BY <2>1, <2>2
<1>2. x \in 0 .. 2^q - 1 /\ q \in 0 .. 29
  BY <1>1
<1> QED
  BY <1>2, BitAt DEF bit

-----------------------------------------------------------------------------
(* The bits that byte_encode puts into byte n.                                *)
packs(d, vals, n, o) ==
  \E j \in 0 .. o \div d :
    /\ o - d * j <= ilog2(Q)
    /\ bit(vals[((n - 1) \div ByteStep(d)) * ValueStep(d) + j], o - d * j) = 1

packbit(d, vals, n) ==
  [p \in 0 .. 7 |-> packs(d, vals, n, 8 * ((n - 1) % ByteStep(d)) + p)]

Encodes(d, vals, n) ==
  \E s : NumberRun(8, packbit(d, vals, n), s) /\ byte_encode(d, vals)[n] = s[8]

LEMMA EncodedIs ==
  ASSUME NEW d, NEW vals, NEW n \in 1 .. EncodedPolynomialSize(d)
  PROVE  Encodes(d, vals, n)
<1> DEFINE unit(k) == (k - 1) \div ByteStep(d)
           first(k) == 8 * ((k - 1) % ByteStep(d))
           on(k, p) == \E j \in 0 .. p \div d :
                         p - d * j <= ilog2(Q) /\ bit(vals[unit(k) * ValueStep(d) + j], p - d * j) = 1
           val(k) == FromBits(8, LAMBDA p : on(k, first(k) + p))
           b == packbit(d, vals, n)
           P(g) == g = [p \in 0 .. 8 |-> IF p = 0 THEN 0
                                         ELSE g[p - 1] + (IF on(n, first(n) + (p - 1)) THEN 2^(p - 1) ELSE 0)]
           sum[p \in 0 .. 8] == IF p = 0 THEN 0
                                ELSE sum[p - 1] + (IF on(n, first(n) + (p - 1)) THEN 2^(p - 1) ELSE 0)
<1>1. byte_encode(d, vals) = [k \in 1 .. EncodedPolynomialSize(d) |-> val(k)]
  BY ArrayIs, Zenon DEF byte_encode
<1>2. byte_encode(d, vals)[n] = val(n)
  <2> HIDE DEF val
  <2> QED
    BY <1>1, Zenon
<1>3. val(n) = sum[8]
  BY DEF FromBits
<1>4. \A p \in 0 .. 7 : b[p] <=> on(n, first(n) + p)
  <2>1. \A p \in 0 .. 7 : b[p] = packs(d, vals, n, 8 * ((n - 1) % ByteStep(d)) + p)
    BY DEF packbit
  <2> HIDE DEF b
  <2> QED
    BY <2>1, Zenon DEF packs
<1> HIDE DEF val, on, b, first
<1>5. sum = CHOOSE g : P(g)
  OBVIOUS
<1>6. ASSUME NEW g
      PROVE  P(g) <=> NumberRun(8, b, g)
  <2>1. ASSUME NEW p \in 0 .. 8, p # 0
        PROVE  (IF on(n, first(n) + (p - 1)) THEN 2^(p - 1) ELSE 0) = (IF b[p - 1] THEN 2^(p - 1) ELSE 0)
    <3>1. p - 1 \in 0 .. 7
      BY <2>1
    <3> QED
      BY <1>4, <3>1, Zenon
  <2> QED
    BY <2>1, Zenon DEF NumberRun
<1> HIDE DEF P, sum
<1>7. NumberRun(8, b, sum)
  <2>1. 8 \in 0 .. 29
    OBVIOUS
  <2> QED
    BY <1>5, <1>6, <2>1, NumberExists
<1> QED
  BY <1>2, <1>3, <1>7, Zenon DEF b, Encodes

(* Bit p of value j is the one bit of it that can be at its place.            *)
LEMMA PacksIs ==
  ASSUME NEW d \in 1 .. 29, d - 1 <= ilog2(Q), ilog2(Q) \in 0 .. 29,
         NEW vals \in Polynomial, \A i \in Coeff : vals[i] < 2^d,
         NEW j \in Coeff, NEW p \in 0 .. d - 1, NEW n, NEW o, PlacedAt(d, j, p, n, o)
  PROVE  packs(d, vals, n, o) <=> bit(vals[j], p) = 1
<1> DEFINE v == j % ValueStep(d)
           base == ((n - 1) \div ByteStep(d)) * ValueStep(d)
<1>1. o \div d = v /\ o = d * v + p /\ base + v = j /\ v \in Nat
  BY DEF PlacedAt
<1>2. packs(d, vals, n, o) <=>
        \E k \in 0 .. v : o - d * k <= ilog2(Q) /\ bit(vals[base + k], o - d * k) = 1
  BY <1>1, Zenon DEF packs
<1> HIDE DEF v
<1>3. base = j - v /\ base \in Nat /\ j \in Nat /\ j < N /\ N \in Nat
  <2>1. ValueStep(d) \in Nat \ {0} /\ ByteStep(d) \in Nat \ {0} /\ n - 1 \in Nat
    <3>1. EncodedPolynomialSize(d) \in Int
      <4>1. PICK u \in Nat \ {0} : EncodedPolynomialSize(d) = u * ByteStep(d)
        BY UnitIs
      <4>2. ByteStep(d) \in Nat
        BY UnitIs
      <4> QED
        BY <4>1, <4>2
    <3> QED
      BY <3>1, UnitIs DEF PlacedAt
  <2>2. (n - 1) \div ByteStep(d) \in Nat
    BY <2>1, DivMod
  <2>3. base \in Nat
    BY <2>1, <2>2
  <2> HIDE DEF base
  <2> QED
    BY <1>1, <2>3, Field DEF Coeff
<1> HIDE DEF base
<1>4. ASSUME NEW k \in 0 .. v
      PROVE  /\ k = v => o - d * k = p /\ base + k = j
             /\ k # v => o - d * k >= d /\ o - d * k \in Nat
             /\ base + k \in Coeff
  <2>1. d * v - d * k = d * (v - k) /\ d * v \in Nat /\ d * k \in Nat
    BY <1>1
  <2>2. ASSUME k # v
        PROVE  d * (v - k) >= d
    <3>1. v - k \in Nat /\ 1 <= v - k
      BY <1>1, <2>2
    <3>2. d * 1 <= d * (v - k)
      BY <3>1, MulMono
    <3> QED
      BY <3>1, <3>2
  <2>3. base + k \in Coeff
    BY <1>1, <1>3 DEF Coeff
  <2>4. k = v => o - d * k = p /\ base + k = j
    BY <1>1, <2>1
  <2>5. o - d * k = d * (v - k) + p /\ d * (v - k) \in Int
    BY <1>1, <2>1
  <2>6. k # v => o - d * k >= d /\ o - d * k \in Nat
    BY <2>2, <2>5
  <2> QED
    BY <2>3, <2>4, <2>6
<1>5. ASSUME NEW k \in 0 .. v, k # v, o - d * k <= ilog2(Q)
      PROVE  bit(vals[base + k], o - d * k) = 0
  <2>1. o - d * k \in d .. 29 /\ base + k \in Coeff
    BY <1>4, <1>5
  <2>2. vals[base + k] \in Nat /\ vals[base + k] < 2^d
    BY <2>1, Field DEF Polynomial, Elem
  <2> QED
    BY <2>1, <2>2, BitAbove
<1>6. v \in 0 .. v /\ p <= ilog2(Q)
  BY <1>1
<1>7. packs(d, vals, n, o) <=> o - d * v <= ilog2(Q) /\ bit(vals[base + v], o - d * v) = 1
  <2>1. \A k \in 0 .. v : bit(vals[base + k], o - d * k) = 1 /\ o - d * k <= ilog2(Q) => k = v
    <3> SUFFICES ASSUME NEW k \in 0 .. v, bit(vals[base + k], o - d * k) = 1,
                        o - d * k <= ilog2(Q), k # v
                 PROVE  FALSE
      OBVIOUS
    <3>1. bit(vals[base + k], o - d * k) = 0
      BY <1>5
    <3> QED
      BY <3>1
  <2> QED
    BY <1>2, <1>6, <2>1, Zenon
<1>8. o - d * v = p /\ base + v = j
  BY <1>4, <1>6
<1> QED
  BY <1>6, <1>7, <1>8

(* Unpacking gives back what was packed, if it fits in d bits.                *)
LEMMA EncodedBack ==
  ASSUME NEW d \in 1 .. 29, d - 1 <= ilog2(Q), NEW vals \in Polynomial,
         \A i \in Coeff : vals[i] < 2^d
  PROVE  byte_decode(d, byte_encode(d, vals)) = vals
<1> DEFINE bytes == byte_encode(d, vals)
<1>1. ilog2(Q) \in 0 .. 29
  BY Log2, Field
<1>2. ASSUME NEW j \in Coeff
      PROVE  byte_decode(d, bytes)[j] = vals[j]
  <2> DEFINE at(p) == d * (j % ValueStep(d)) + p
             byte(p) == 1 + (j \div ValueStep(d)) * ByteStep(d) + at(p) \div 8
             b == valbit(d, bytes, j)
  <2>1. ASSUME NEW p \in 0 .. d - 1
        PROVE  b[p] <=> bit(vals[j], p) = 1
    <3>1. PlacedAt(d, j, p, byte(p), at(p))
      BY BitPlace
    <3>2. b[p] = (bit(bytes[byte(p)], at(p) % 8) = 1)
      BY DEF valbit
    <3> DEFINE n == byte(p)
               o == at(p)
    <3> HIDE DEF n, o, b, bytes
    <3>3. b[p] = (bit(bytes[n], o % 8) = 1) /\ PlacedAt(d, j, p, n, o)
      BY <3>1, <3>2 DEF n, o
    <3>4. n \in 1 .. EncodedPolynomialSize(d) /\ o % 8 \in 0 .. 7
      BY <3>3 DEF PlacedAt
    <3>5. Encodes(d, vals, n)
      BY <3>4, EncodedIs
    <3>6. PICK s : NumberRun(8, packbit(d, vals, n), s) /\ bytes[n] = s[8]
      BY <3>5, Zenon DEF Encodes, bytes
    <3>7. bit(bytes[n], o % 8) = IF packbit(d, vals, n)[o % 8] THEN 1 ELSE 0
      <4>1. 8 \in 0 .. 29 /\ 8 - 1 = 7
        OBVIOUS
      <4>2. \A q \in 0 .. 7 : bit(s[8], q) = IF packbit(d, vals, n)[q] THEN 1 ELSE 0
        BY <3>6, <4>1, NumberBits
      <4> QED
        BY <3>4, <3>6, <4>2, Zenon
    <3>8. packbit(d, vals, n)[o % 8] = packs(d, vals, n, o)
      <4>1. packbit(d, vals, n)[o % 8] = packs(d, vals, n, 8 * ((n - 1) % ByteStep(d)) + (o % 8))
        BY <3>4 DEF packbit
      <4>2. 8 * ((n - 1) % ByteStep(d)) + (o % 8) = o
        BY <3>3 DEF PlacedAt
      <4> QED
        BY <4>1, <4>2, Zenon
    <3>9. packs(d, vals, n, o) <=> bit(vals[j], p) = 1
      BY <1>1, <3>3, PacksIs
    <3>10. bit(bytes[n], o % 8) = 1 <=> packs(d, vals, n, o)
      <4>1. 0 # 1
        OBVIOUS
      <4> QED
        BY <3>7, <3>8, <4>1, Zenon
    <3> QED
      BY <3>3, <3>9, <3>10, Zenon
  <2>2. Decodes(d, bytes, j)
    BY DecodedIs
  <2> HIDE DEF bytes
  <2>3. PICK s : /\ NumberRun(d, b, s)
                 /\ byte_decode(d, bytes)[j] = IF d = 12 THEN small_reduce(s[d]) ELSE s[d]
    BY <2>2, Zenon DEF Decodes
  <2> HIDE DEF b
  <2>4. vals[j] \in Elem /\ vals[j] < 2^d /\ d \in 0 .. 29
    BY DEF Polynomial
  <2>5. vals[j] \in 0 .. 2^d - 1
    <3> DEFINE w == 2^d
    <3>1. w \in Nat /\ vals[j] \in Nat /\ vals[j] < w
      BY <2>4, Powers, Field DEF Elem
    <3> HIDE DEF w
    <3>2. vals[j] \in 0 .. w - 1
      BY <3>1
    <3> QED
      BY <3>2 DEF w
  <2>6. s[d] = vals[j]
    <3>1. \A p \in 0 .. d - 1 : b[p] <=> bit(vals[j], p) = 1
      BY <2>1
    <3>2. BitsAre(d, b, vals[j])
      BY <2>5, <3>1, Zenon DEF BitsAre
    <3> QED
      BY <2>3, <2>4, <3>2, NumberBack, Zenon
  <2>7. small_reduce(vals[j]) = vals[j]
    BY <2>4, Field DEF small_reduce, Elem
  <2> QED
    BY <2>3, <2>6, <2>7
<1>3. byte_decode(d, bytes) = [j \in Coeff |-> byte_decode(d, bytes)[j]]
  BY ArrayIs, Zenon DEF byte_decode
<1> HIDE DEF bytes
<1>4. byte_decode(d, bytes) = vals
  BY <1>2, <1>3 DEF Polynomial
<1> QED
  BY <1>4 DEF bytes

-----------------------------------------------------------------------------
LEMMA RangeBits ==
  ASSUME NEW a, NEW b, PackedRange(a, b)
  PROVE  RangeEncodingBits(a, b) - 1 <= ilog2(Q)
<1> DEFINE x == a + b
           i == ilog2(x)
           q == ilog2(Q)
<1>1. x \in Nat \ {0} /\ x < Q /\ Q \in Nat \ {0} /\ Q < 2^30 /\ i + 1 = RangeEncodingBits(a, b)
  BY Field DEF PackedRange, RangeEncodingBits
<1>2. x < 2^30
  <2> DEFINE w == 2^30
  <2>1. w \in Nat
    BY PowerTable
  <2>2. Q < w
    BY <1>1
  <2> HIDE DEF w, x
  <2>3. x < w
    BY <1>1, <2>1, <2>2
  <2> QED
    BY <2>3 DEF w
<1> HIDE DEF x
<1>3. i \in 0 .. 29 /\ 2^i <= x
  BY <1>1, <1>2, Log2
<1>4. q \in 0 .. 29 /\ Q < 2^(q + 1)
  BY <1>1, Log2
<1> HIDE DEF i, q
<1>5. ~(q < i)
  <2> SUFFICES ASSUME q < i PROVE FALSE
    OBVIOUS
  <2>1. 2^(q + 1) <= 2^i
    BY <1>3, <1>4, PowerMono
  <2>2. 2^i \in Nat /\ 2^(q + 1) \in Nat
    BY <1>3, <1>4, Powers
  <2> DEFINE u == 2^i
             w == 2^(q + 1)
  <2>3. u \in Nat /\ w \in Nat /\ w <= u /\ u <= x /\ Q < w
    BY <1>3, <1>4, <2>1, <2>2
  <2> HIDE DEF u, w
  <2> QED
    BY <1>1, <2>3
<1> QED
  BY <1>1, <1>3, <1>4, <1>5 DEF q

Arrays(k, size, arrays) == \A r \in 0 .. k - 1 : IsArray(size, arrays[r])

(* Arrays one after the other come apart again.                               *)
LEMMA FlatBack ==
  ASSUME NEW k \in Nat \ {0}, NEW size \in Nat \ {0}, NEW arrays, Arrays(k, size, arrays)
  PROVE  /\ IsArray(k * size, flatten(k, arrays))
         /\ unflatten(k, flatten(k, arrays)) = [r \in 0 .. k - 1 |-> arrays[r]]
<1> DEFINE bytes == flatten(k, arrays)
           m == k * size
<1>10. \A r \in 0 .. k - 1 : IsArray(size, arrays[r])
  BY Zenon DEF Arrays
<1>1. Len(arrays[0]) = size
  <2>1. 0 \in 0 .. k - 1
    OBVIOUS
  <2>2. IsArray(size, arrays[0])
    BY <1>10, <2>1, Zenon
  <2> QED
    BY <2>2, AsSequence
<1>2. bytes = [n \in 1 .. m |-> arrays[(n - 1) \div size][1 + ((n - 1) % size)]]
  BY <1>1, ArrayIs, Zenon DEF flatten
<1>3. m \in Nat \ {0}
  BY MulMono
<1> HIDE DEF bytes
<1>4. IsArray(m, bytes)
  BY <1>2, Zenon DEF IsArray
<1>5. Len(bytes) = m
  BY <1>3, <1>4, AsSequence
<1>6. m \div k = size
  <2>1. m = k * size + 0
    OBVIOUS
  <2> HIDE DEF m
  <2> QED
    BY <2>1, DivUnique
<1>7. unflatten(k, bytes) = [r \in 0 .. k - 1 |-> SubSeq(bytes, r * size + 1, (r + 1) * size)]
  BY <1>5, <1>6, ArrayIs, Zenon DEF unflatten
<1>8. ASSUME NEW r \in 0 .. k - 1
      PROVE  SubSeq(bytes, r * size + 1, (r + 1) * size) = arrays[r]
  <2> DEFINE a == r * size
  <2>1. a \in Nat /\ (r + 1) * size = a + size /\ a + size <= m
    <3>1. (r + 1) * size <= k * size
      BY MulMono
    <3> QED
      BY <3>1
  <2> HIDE DEF a, m
  <2>2. bytes \in Seq({bytes[n] : n \in 1 .. m})
    BY <1>3, <1>4, AsSequence
  <2>3. SubSeq(bytes, a + 1, a + size) = [n \in 1 .. (a + size) - (a + 1) + 1 |-> bytes[n + (a + 1) - 1]]
    BY <1>3, <1>5, <2>1, <2>2
  <2>4. ASSUME NEW n \in 1 .. size
        PROVE  bytes[n + (a + 1) - 1] = arrays[r][n]
    <3>1. n + (a + 1) - 1 = a + n /\ a + n \in 1 .. m /\ (a + n) - 1 = size * r + (n - 1)
      BY <1>3, <2>1 DEF a
    <3>2. n - 1 \in 0 .. size - 1 /\ r \in Nat /\ 1 + (n - 1) = n
      OBVIOUS
    <3>4. (size * r + (n - 1)) \div size = r /\ (size * r + (n - 1)) % size = n - 1
      BY <3>2, DivUnique
    <3>3. ((a + n) - 1) \div size = r /\ ((a + n) - 1) % size = n - 1
      BY <3>1, <3>4, Zenon
    <3> QED
      BY <1>2, <3>1, <3>2, <3>3
  <2>5. (a + size) - (a + 1) + 1 = size
    BY <2>1
  <2>6. arrays[r] = [n \in 1 .. size |-> arrays[r][n]]
    BY <1>10, Zenon DEF IsArray
  <2>7. SubSeq(bytes, a + 1, a + size) = [n \in 1 .. size |-> bytes[n + (a + 1) - 1]]
    BY <2>3, <2>5, Zenon
  <2>8. SubSeq(bytes, a + 1, a + size) = arrays[r]
    BY <2>4, <2>6, <2>7
  <2> QED
    BY <2>1, <2>8, Zenon DEF a
<1>9. unflatten(k, bytes) = [r \in 0 .. k - 1 |-> arrays[r]]
  BY <1>7, <1>8
<1> QED
  BY <1>4, <1>9 DEF bytes, m

LEMMA SizeOf ==
  ASSUME NEW d \in 1 .. 29
  PROVE  EncodedPolynomialSize(d) \in Nat \ {0}
<1>1. PICK u \in Nat \ {0} : EncodedPolynomialSize(d) = u * ByteStep(d)
  BY UnitIs
<1>2. ByteStep(d) \in Nat \ {0}
  BY UnitIs
<1>3. \A x \in Nat \ {0}, y \in Nat \ {0} : x * y \in Nat \ {0}
  OBVIOUS
<1> QED
  BY <1>1, <1>2, <1>3

LEMMA EncodedVectorBack ==
  ASSUME NEW k \in Nat \ {0}, NEW d \in 1 .. 29, d - 1 <= ilog2(Q),
         NEW v \in [0 .. k - 1 -> Polynomial], \A r \in 0 .. k - 1, i \in Coeff : v[r][i] < 2^d
  PROVE  /\ IsArray(k * EncodedPolynomialSize(d), encode_vec(k, d, v))
         /\ decode_vec(k, d, encode_vec(k, d, v)) = v
<1> DEFINE arrays == [r \in 0 .. k - 1 |-> byte_encode(d, v[r])]
           size == EncodedPolynomialSize(d)
           bytes == encode_vec(k, d, v)
<1>1. bytes = flatten(k, arrays)
  BY ArrayIs, Zenon DEF encode_vec
<1>2. decode_vec(k, d, bytes) = [r \in 0 .. k - 1 |-> byte_decode(d, unflatten(k, bytes)[r])]
  BY ArrayIs, Zenon DEF decode_vec
<1>3. \A r \in 0 .. k - 1 : arrays[r] = byte_encode(d, v[r])
  OBVIOUS
<1> HIDE DEF arrays, bytes
<1>4. \A f : IsArray(size, byte_encode(d, f))
  BY ArrayIs, Zenon DEF byte_encode, IsArray
<1>5. size \in Nat \ {0}
  BY SizeOf
<1> HIDE DEF size
<1>6. Arrays(k, size, arrays)
  BY <1>3, <1>4, Zenon DEF Arrays
<1>7. IsArray(k * size, bytes) /\ unflatten(k, bytes) = [r \in 0 .. k - 1 |-> arrays[r]]
  BY <1>1, <1>5, <1>6, FlatBack
<1>8. ASSUME NEW r \in 0 .. k - 1
      PROVE  byte_decode(d, unflatten(k, bytes)[r]) = v[r]
  <2>1. v[r] \in Polynomial /\ \A i \in Coeff : v[r][i] < 2^d
    OBVIOUS
  <2>2. byte_decode(d, byte_encode(d, v[r])) = v[r]
    BY <2>1, EncodedBack
  <2>3. unflatten(k, bytes)[r] = byte_encode(d, v[r])
    BY <1>3, <1>7
  <2> QED
    BY <2>2, <2>3, Zenon
<1>9. decode_vec(k, d, bytes) = v
  BY <1>2, <1>8
<1> QED
  BY <1>7, <1>9 DEF bytes, size

LEMMA PackedBack ==
  ASSUME NEW a, NEW b, PackedRange(a, b), NEW f \in Polynomial,
         \A i \in Coeff : InRange(a, b, f[i])
  PROVE  /\ IsArray(EncodedPolynomialSize(RangeEncodingBits(a, b)), pack(a, b, f))
         /\ unpack(a, b, pack(a, b, f)) = f
<1> DEFINE d == RangeEncodingBits(a, b)
           g == [i \in Coeff |-> ElemSub(b, f[i])]
<1>1. d \in 1 .. 29 /\ d - 1 <= ilog2(Q) /\ a + b < 2^d /\ a + b < Q /\ Q \in Nat /\ a \in Nat /\ b \in Nat
  <2>1. d \in 0 .. 29 /\ a + b + 1 <= 2^d /\ a + b \in Nat
    BY DEF PackedRange
  <2> DEFINE w == 2^d
  <2>2. w \in Nat
    BY <2>1, Powers
  <2>3. a + b + 1 <= w
    BY <2>1
  <2> HIDE DEF w
  <2>4. a + b < w
    BY <2>1, <2>2, <2>3
  <2>5. d - 1 <= ilog2(Q)
    BY RangeBits
  <2> QED
    BY <2>4, <2>5, Field DEF PackedRange, w
<1>2. IsArray(EncodedPolynomialSize(d), pack(a, b, f)) /\ pack(a, b, f) = byte_encode(d, g)
  BY PackedPolynomial, Zenon DEF pack
<1>3. \A i \in Coeff : g[i] \in 0 .. a + b /\ ElemSub(b, g[i]) = f[i]
  BY PackedCell
<1>4. g = [i \in Coeff |-> g[i]]
  OBVIOUS
<1> HIDE DEF g, d
<1>5. g \in Polynomial
  BY <1>1, <1>3, <1>4 DEF Polynomial, Elem
<1>6. \A i \in Coeff : g[i] < 2^d
  <2> DEFINE w == 2^d
  <2>1. w \in Nat /\ a + b < w
    BY <1>1, Powers
  <2> HIDE DEF w
  <2>2. \A i \in Coeff : g[i] < w
    BY <1>1, <1>3, <2>1
  <2> QED
    BY <2>2 DEF w
<1>7. byte_decode(d, byte_encode(d, g)) = g
  BY <1>1, <1>5, <1>6, EncodedBack
<1>8. unpack(a, b, pack(a, b, f)) = [i \in Coeff |-> ElemSub(b, g[i])]
  BY <1>2, <1>7, ArrayIs, Zenon DEF unpack, d
<1>9. unpack(a, b, pack(a, b, f)) = f
  BY <1>3, <1>8 DEF Polynomial
<1> QED
  BY <1>2, <1>9 DEF d

LEMMA PackedVectorBack ==
  ASSUME NEW a, NEW b, PackedRange(a, b), NEW k \in Nat \ {0}, NEW v,
         VecWithin(0 .. k - 1, a, b, v)
  PROVE  /\ IsArray(k * EncodedPolynomialSize(RangeEncodingBits(a, b)), pack_vec(k, a, b, v))
         /\ unpack_vec(k, a, b, pack_vec(k, a, b, v)) = v
<1> DEFINE arrays == [r \in 0 .. k - 1 |-> pack(a, b, v[r])]
           size == EncodedPolynomialSize(RangeEncodingBits(a, b))
           bytes == pack_vec(k, a, b, v)
<1>1. bytes = flatten(k, arrays)
  BY ArrayIs, Zenon DEF pack_vec
<1>2. unpack_vec(k, a, b, bytes) = [r \in 0 .. k - 1 |-> unpack(a, b, unflatten(k, bytes)[r])]
  BY ArrayIs, Zenon DEF unpack_vec
<1>3. \A r \in 0 .. k - 1 : arrays[r] = pack(a, b, v[r])
  OBVIOUS
<1> HIDE DEF arrays, bytes
<1>4. ASSUME NEW r \in 0 .. k - 1
      PROVE  IsArray(size, pack(a, b, v[r])) /\ unpack(a, b, pack(a, b, v[r])) = v[r]
  <2>1. v[r] \in Polynomial /\ \A i \in Coeff : InRange(a, b, v[r][i])
    BY DEF VecWithin
  <2> QED
    BY <2>1, PackedBack
<1>5. size \in Nat \ {0}
  BY SizeOf DEF PackedRange
<1> HIDE DEF size
<1>6. Arrays(k, size, arrays)
  BY <1>3, <1>4, Zenon DEF Arrays
<1>7. IsArray(k * size, bytes) /\ unflatten(k, bytes) = [r \in 0 .. k - 1 |-> arrays[r]]
  BY <1>1, <1>5, <1>6, FlatBack
<1>8. ASSUME NEW r \in 0 .. k - 1
      PROVE  unpack(a, b, unflatten(k, bytes)[r]) = v[r]
  <2>1. unflatten(k, bytes)[r] = pack(a, b, v[r])
    BY <1>3, <1>7
  <2> QED
    BY <1>4, <2>1, Zenon
<1>9. unpack_vec(k, a, b, bytes) = v
  BY <1>2, <1>8 DEF VecWithin
<1> QED
  BY <1>7, <1>9 DEF bytes, size

-----------------------------------------------------------------------------
(* Arrays joined, and parts of them.                                          *)
joined(a, m, b, n) == [i \in 1 .. m + n |-> IF i <= m THEN a[i] ELSE b[i - m]]
part(s, at, len) == [i \in 1 .. len |-> s[at + i]]

LEMMA JoinIs ==
  ASSUME NEW m \in Nat, NEW n \in Nat, NEW a, NEW b, IsArray(m, a), IsArray(n, b)
  PROVE  a \o b = joined(a, m, b, n)
<1> DEFINE A == {a[i] : i \in 1 .. m} \cup {b[i] : i \in 1 .. n}
<1>1. a \in [1 .. m -> A] /\ b \in [1 .. n -> A]
  BY DEF IsArray
<1> HIDE DEF A
<1>2. a \in Seq(A) /\ Len(a) = m /\ b \in Seq(A) /\ Len(b) = n
  BY <1>1
<1> DEFINE s == a \o b
<1>3. s \in Seq(A) /\ Len(s) = Len(a) + Len(b)
      /\ \A i \in 1 .. Len(a) + Len(b) : s[i] = IF i <= Len(a) THEN a[i] ELSE b[i - Len(a)]
  BY <1>2, ConcatProperties, Zenon
<1> HIDE DEF s
<1>4. s \in [1 .. m + n -> A] /\ \A i \in 1 .. m + n : s[i] = IF i <= m THEN a[i] ELSE b[i - m]
  BY <1>2, <1>3
<1>5. s = [i \in 1 .. m + n |-> s[i]]
  BY <1>4
<1>6. s = joined(a, m, b, n)
  BY <1>4, <1>5 DEF joined
<1> QED
  BY <1>6 DEF s

LEMMA JoinedIs ==
  ASSUME NEW m \in Nat, NEW n \in Nat, NEW a, NEW b
  PROVE  IsArray(m + n, joined(a, m, b, n))
BY Zenon DEF IsArray, joined

LEMMA SliceIs ==
  ASSUME NEW m \in Nat, NEW s, IsArray(m, s), NEW at \in Nat, NEW len \in Nat, at + len <= m
  PROVE  Slice(s, at, len) = part(s, at, len) /\ IsArray(len, Slice(s, at, len))
<1>1. s \in Seq({s[i] : i \in 1 .. m}) /\ Len(s) = m
  BY AsSequence
<1>2. SubSeq(s, at + 1, at + len) = [i \in 1 .. (at + len) - (at + 1) + 1 |-> s[i + (at + 1) - 1]]
  BY <1>1
<1>3. (at + len) - (at + 1) + 1 = len /\ \A i \in 1 .. len : i + (at + 1) - 1 = at + i
  OBVIOUS
<1>4. [i \in 1 .. len |-> s[i + (at + 1) - 1]] = [i \in 1 .. len |-> s[at + i]]
  BY <1>3
<1>5. Slice(s, at, len) = part(s, at, len)
  BY <1>2, <1>3, <1>4, Zenon DEF Slice, part
<1>6. IsArray(len, part(s, at, len))
  BY Zenon DEF IsArray, part
<1> QED
  BY <1>5, <1>6

LEMMA Parts ==
  ASSUME NEW m \in Nat, NEW n \in Nat, NEW a, NEW b, NEW at \in Nat, NEW len \in Nat
  PROVE  /\ at + len <= m => part(joined(a, m, b, n), at, len) = part(a, at, len)
         /\ at + len <= n => part(joined(a, m, b, n), m + at, len) = part(b, at, len)
         /\ IsArray(n, b) => part(b, 0, n) = b
<1> DEFINE s == joined(a, m, b, n)
<1>1. \A i \in 1 .. m + n : s[i] = IF i <= m THEN a[i] ELSE b[i - m]
  BY DEF joined
<1> HIDE DEF s
<1>2. ASSUME at + len <= m
      PROVE  part(s, at, len) = part(a, at, len)
  <2>1. \A i \in 1 .. len : at + i \in 1 .. m + n /\ at + i <= m
    BY <1>2
  <2> QED
    BY <1>1, <2>1 DEF part
<1>3. ASSUME at + len <= n
      PROVE  part(s, m + at, len) = part(b, at, len)
  <2>1. \A i \in 1 .. len : /\ m + at + i \in 1 .. m + n /\ ~(m + at + i <= m)
                            /\ m + at + i - m = at + i
    BY <1>3
  <2> QED
    BY <1>1, <2>1 DEF part
<1>4. IsArray(n, b) => part(b, 0, n) = b
  BY DEF part, IsArray
<1> QED
  BY <1>2, <1>3, <1>4 DEF s

(* A concatenation comes apart.                                               *)
Splits(a, m, b, n) ==
  LET s == a \o b
  IN /\ IsArray(m + n, s) /\ Slice(s, m, n) = b
     /\ \A at, len \in Nat : at + len <= m => Slice(s, at, len) = Slice(a, at, len)

LEMMA SplitsIs ==
  ASSUME NEW m \in Nat, NEW n \in Nat, NEW a, NEW b, IsArray(m, a), IsArray(n, b)
  PROVE  Splits(a, m, b, n)
<1> DEFINE s == a \o b
<1>1. s = joined(a, m, b, n)
  BY JoinIs
<1> HIDE DEF s
<1>2. IsArray(m + n, s)
  BY <1>1, JoinedIs
<1>3. Slice(s, m, n) = b
  <2>1. m + n \in Nat /\ m + n <= m + n /\ m + 0 = m /\ 0 + n <= n /\ 0 \in Nat
    OBVIOUS
  <2>2. Slice(s, m, n) = part(s, m, n)
    BY <1>2, <2>1, SliceIs
  <2>3. part(joined(a, m, b, n), m + 0, n) = part(b, 0, n) /\ part(b, 0, n) = b
    BY <2>1, Parts
  <2> QED
    BY <1>1, <2>1, <2>2, <2>3, Zenon
<1>4. ASSUME NEW at \in Nat, NEW len \in Nat, at + len <= m
      PROVE  Slice(s, at, len) = Slice(a, at, len)
  <2>1. m + n \in Nat /\ at + len <= m + n
    BY <1>4
  <2>2. Slice(s, at, len) = part(s, at, len)
    BY <1>2, <2>1, SliceIs
  <2>3. Slice(a, at, len) = part(a, at, len)
    BY <1>4, SliceIs
  <2>4. part(joined(a, m, b, n), at, len) = part(a, at, len)
    BY <1>4, Parts
  <2> QED
    BY <1>1, <2>2, <2>3, <2>4, Zenon
<1> QED
  BY <1>2, <1>3, <1>4, Zenon DEF Splits, s

LEMMA WholeSlice ==
  ASSUME NEW m \in Nat, NEW a, IsArray(m, a)
  PROVE  Slice(a, 0, m) = a
<1>1. 0 \in Nat /\ 0 + m <= m
  OBVIOUS
<1>2. Slice(a, 0, m) = part(a, 0, m)
  BY <1>1, SliceIs
<1>3. part(a, 0, m) = a
  BY DEF part, IsArray
<1> QED
  BY <1>2, <1>3

LEMMA ThreeApart ==
  ASSUME NEW m \in Nat, NEW n \in Nat, NEW k \in Nat, NEW a, NEW b, NEW c,
         IsArray(m, a), IsArray(n, b), IsArray(k, c), NEW s, s = a \o b \o c
  PROVE  /\ IsArray(m + n + k, s)
         /\ Slice(s, 0, m) = a /\ Slice(s, m, n) = b /\ Slice(s, m + n, k) = c
<1> DEFINE u == a \o b
<1>1. Splits(a, m, b, n)
  BY SplitsIs
<1>2. IsArray(m + n, u) /\ Slice(u, m, n) = b /\ Slice(u, 0, m) = Slice(a, 0, m)
  <2>1. 0 \in Nat /\ 0 + m <= m
    OBVIOUS
  <2> QED
    BY <1>1, <2>1, Zenon DEF Splits
<1>3. s = u \o c
  OBVIOUS
<1> HIDE DEF u
<1>4. Splits(u, m + n, c, k)
  BY <1>2, SplitsIs
<1>5. /\ IsArray(m + n + k, s) /\ Slice(s, m + n, k) = c
      /\ Slice(s, 0, m) = Slice(u, 0, m) /\ Slice(s, m, n) = Slice(u, m, n)
  <2>1. 0 \in Nat /\ 0 + m <= m + n /\ m + n <= m + n
    OBVIOUS
  <2> QED
    BY <1>3, <1>4, <2>1, Zenon DEF Splits
<1>6. Slice(a, 0, m) = a
  BY WholeSlice
<1> QED
  BY <1>2, <1>5, <1>6, Zenon

-----------------------------------------------------------------------------
(* u is the array of m with the parts in P, triples of a place, a length and  *)
(* what is there.                                                             *)
Holds(u, m, P) ==
  IsArray(m, u) /\ \A t \in P : /\ t[1] \in Nat /\ t[2] \in Nat /\ t[1] + t[2] <= m
                                /\ Slice(u, t[1], t[2]) = t[3]

LEMMA HoldsMore ==
  ASSUME NEW m \in Nat, NEW n \in Nat, NEW u, NEW b, NEW P, Holds(u, m, P), IsArray(n, b)
  PROVE  Holds(u \o b, m + n, P \cup {<< m, n, b >>})
<1>1. IsArray(m, u)
  BY Zenon DEF Holds
<1>2. Splits(u, m, b, n)
  BY <1>1, SplitsIs
<1>3. IsArray(m + n, u \o b) /\ Slice(u \o b, m, n) = b
  BY <1>2, Zenon DEF Splits
<1>4. ASSUME NEW t \in P
      PROVE  /\ t[1] \in Nat /\ t[2] \in Nat /\ t[1] + t[2] <= m + n
             /\ Slice(u \o b, t[1], t[2]) = t[3]
  <2>1. t[1] \in Nat /\ t[2] \in Nat /\ t[1] + t[2] <= m /\ Slice(u, t[1], t[2]) = t[3]
    BY Zenon DEF Holds
  <2>2. Slice(u \o b, t[1], t[2]) = Slice(u, t[1], t[2])
    BY <1>2, <2>1, Zenon DEF Splits
  <2>3. t[1] + t[2] <= m + n
    BY <2>1
  <2> QED
    BY <2>1, <2>2, <2>3, Zenon
<1>5. m + n <= m + n
  OBVIOUS
<1>6. ASSUME NEW t \in P \cup {<< m, n, b >>}
      PROVE  /\ t[1] \in Nat /\ t[2] \in Nat /\ t[1] + t[2] <= m + n
             /\ Slice(u \o b, t[1], t[2]) = t[3]
  <2>1. CASE t = << m, n, b >>
    <3>1. t[1] = m /\ t[2] = n /\ t[3] = b
      BY <2>1
    <3> QED
      BY <1>3, <1>5, <3>1, Zenon
  <2> QED
    BY <1>4, <2>1
<1> QED
  BY <1>3, <1>6, Zenon DEF Holds

(* The sizes of the parts of an encoded signing key.                          *)
LEMMA KeySizes ==
  /\ B32 \in Nat \ {0} /\ B64 \in Nat \ {0} /\ K \in Nat \ {0} /\ L \in Nat \ {0}
  /\ S1Size \in Nat /\ S2Size \in Nat /\ T0Size \in Nat
<1>1. B32 \in Nat \ {0} /\ B64 \in Nat \ {0} /\ K \in Nat \ {0} /\ L \in Nat \ {0}
  BY ParameterSet
<1>2. RangeEncodingBits(Eta, Eta) \in 1 .. 29 /\ D \in 1 .. 29
  BY EtaRange, T0Range
<1>3. /\ EncodedPolynomialSize(RangeEncodingBits(Eta, Eta)) \in Nat
      /\ EncodedPolynomialSize(D) \in Nat
  BY <1>2, SizeOf
<1>4. S1Size \in Nat /\ S2Size \in Nat /\ T0Size \in Nat
  <2> DEFINE e == EncodedPolynomialSize(RangeEncodingBits(Eta, Eta))
             t == EncodedPolynomialSize(D)
  <2>1. e \in Nat /\ t \in Nat
    BY <1>3
  <2>2. S1Size = L * e /\ S2Size = K * e /\ T0Size = K * t
    BY Zenon DEF S1Size, S2Size, T0Size
  <2> HIDE DEF e, t
  <2> QED
    BY <1>1, <2>1, <2>2
<1> QED
  BY <1>1, <1>4

SkParts(p, rho, k, tr, s1, s2, t0) ==
  p.rho = rho /\ p.K = k /\ p.tr = tr /\ p.s1 = s1 /\ p.s2 = s2 /\ p.t0 = t0

(* split_sk takes apart what concat_sk put together.                          *)
LEMMA SkApart ==
  ASSUME NEW rho, NEW k, NEW tr, NEW s1, NEW s2, NEW t0,
         IsArray(B32, rho), IsArray(B32, k), IsArray(B64, tr),
         IsArray(S1Size, s1), IsArray(S2Size, s2), IsArray(T0Size, t0)
  PROVE  SkParts(split_sk(concat_sk(rho, k, tr, s1, s2, t0)), rho, k, tr, s1, s2, t0)
<1> DEFINE n1 == B32
           n2 == B32 + B32
           n3 == n2 + B64
           n4 == n3 + S1Size
           n5 == n4 + S2Size
           n6 == n5 + T0Size
           enc == concat_sk(rho, k, tr, s1, s2, t0)
           P1 == {<< 0, B32, rho >>}
           P2 == P1 \cup {<< n1, B32, k >>}
           P3 == P2 \cup {<< n2, B64, tr >>}
           P4 == P3 \cup {<< n3, S1Size, s1 >>}
           P5 == P4 \cup {<< n4, S2Size, s2 >>}
           P6 == P5 \cup {<< n5, T0Size, t0 >>}
<1>1. /\ B32 \in Nat /\ B64 \in Nat /\ S1Size \in Nat /\ S2Size \in Nat /\ T0Size \in Nat
  BY KeySizes
<1>2. n1 \in Nat /\ n2 \in Nat /\ n3 \in Nat /\ n4 \in Nat /\ n5 \in Nat
  BY <1>1
<1>3. n2 = 2 * B32 /\ n3 = 2 * B32 + B64
  BY <1>1
<1> HIDE DEF n2, n3, n4, n5, n6
<1>4. Holds(rho, n1, P1)
  <2>1. Slice(rho, 0, B32) = rho /\ 0 \in Nat /\ 0 + B32 <= B32
    BY <1>1, WholeSlice
  <2>2. \A t \in P1 : t[1] = 0 /\ t[2] = B32 /\ t[3] = rho
    OBVIOUS
  <2> QED
    BY <1>1, <2>1, <2>2, Zenon DEF Holds
<1>10. n2 = n1 + B32 /\ n3 = n2 + B64 /\ n4 = n3 + S1Size /\ n5 = n4 + S2Size /\ n6 = n5 + T0Size
  BY Zenon DEF n2, n3, n4, n5, n6
<1> HIDE DEF n1
<1>5. Holds(rho \o k, n2, P2)
  BY <1>1, <1>2, <1>4, <1>10, HoldsMore, Zenon
<1>6. Holds(rho \o k \o tr, n3, P3)
  BY <1>1, <1>2, <1>5, <1>10, HoldsMore, Zenon
<1>7. Holds(rho \o k \o tr \o s1, n4, P4)
  BY <1>1, <1>2, <1>6, <1>10, HoldsMore, Zenon
<1>8. Holds(rho \o k \o tr \o s1 \o s2, n5, P5)
  BY <1>1, <1>2, <1>7, <1>10, HoldsMore, Zenon
<1>9. Holds(enc, n6, P6)
  BY <1>1, <1>2, <1>8, <1>10, HoldsMore, Zenon DEF concat_sk
<1>11. /\ << 0, B32, rho >> \in P6 /\ << n1, B32, k >> \in P6 /\ << n2, B64, tr >> \in P6
       /\ << n3, S1Size, s1 >> \in P6 /\ << n4, S2Size, s2 >> \in P6
       /\ << n5, T0Size, t0 >> \in P6
  OBVIOUS
<1> HIDE DEF P6, enc
<1>12. \A at, len, x : << at, len, x >> \in P6 => Slice(enc, at, len) = x
  BY <1>9 DEF Holds
<1>13. /\ Slice(enc, 0, B32) = rho /\ Slice(enc, n1, B32) = k /\ Slice(enc, n2, B64) = tr
       /\ Slice(enc, n3, S1Size) = s1 /\ Slice(enc, n3 + S1Size, S2Size) = s2
       /\ Slice(enc, n3 + S1Size + S2Size, T0Size) = t0
  BY <1>10, <1>11, <1>12, Zenon
<1>14. /\ split_sk(enc).rho = Slice(enc, 0, B32) /\ split_sk(enc).K = Slice(enc, B32, B32)
       /\ split_sk(enc).tr = Slice(enc, 2 * B32, B64)
       /\ split_sk(enc).s1 = Slice(enc, 2 * B32 + B64, S1Size)
       /\ split_sk(enc).s2 = Slice(enc, 2 * B32 + B64 + S1Size, S2Size)
       /\ split_sk(enc).t0 = Slice(enc, 2 * B32 + B64 + S1Size + S2Size, T0Size)
  BY Zenon DEF split_sk
<1>15. n1 = B32
  BY DEF n1
<1>16. SkParts(split_sk(enc), rho, k, tr, s1, s2, t0)
  BY <1>3, <1>13, <1>14, <1>15, Zenon DEF SkParts
<1> QED
  BY <1>16, Zenon DEF enc

(* The parts of an encoded signing key are arrays of their sizes.             *)
LEMMA SkPartsTyped ==
  ASSUME NEW enc \in [1 .. SigningKeySize -> Byte]
  PROVE  /\ IsArray(B32, split_sk(enc).rho) /\ IsArray(B32, split_sk(enc).K)
         /\ IsArray(B64, split_sk(enc).tr)
<1>1. B32 \in Nat /\ B64 \in Nat /\ S1Size \in Nat /\ S2Size \in Nat /\ T0Size \in Nat
  BY KeySizes
<1>2. SigningKeySize \in Nat /\ 2 * B32 + B64 <= SigningKeySize
  BY <1>1 DEF SigningKeySize
<1>3. IsArray(SigningKeySize, enc)
  BY DEF IsArray
<1>4. /\ 0 \in Nat /\ 2 * B32 \in Nat /\ 0 + B32 <= SigningKeySize
      /\ B32 + B32 <= SigningKeySize
  BY <1>1, <1>2
<1>5. /\ IsArray(B32, Slice(enc, 0, B32)) /\ IsArray(B32, Slice(enc, B32, B32))
      /\ IsArray(B64, Slice(enc, 2 * B32, B64))
  BY <1>1, <1>2, <1>3, <1>4, SliceIs
<1>6. /\ split_sk(enc).rho = Slice(enc, 0, B32) /\ split_sk(enc).K = Slice(enc, B32, B32)
      /\ split_sk(enc).tr = Slice(enc, 2 * B32, B64)
  BY Zenon DEF split_sk
<1> QED
  BY <1>5, <1>6, Zenon

-----------------------------------------------------------------------------
(* The high part of t fits the bits that are encoded of it.                   *)
LEMMA HighFits ==
  /\ BitlenQMinusD \in 1 .. 29 /\ BitlenQMinusD - 1 <= ilog2(Q)
  /\ \A h \in Nat : h * 2^D <= Q - 1 => h \in Elem /\ h < 2^BitlenQMinusD
<1> DEFINE q == ilog2(Q)
           e == q - D
           m == 2^D
           w == 2^e
           u == 2^q
<1>1. Q \in Nat \ {0} /\ Q < 2^30
  BY Field, FieldConstants
<1>2. q \in 0 .. 29 /\ u <= Q /\ Q < 2^(q + 1)
  BY <1>1, Log2, Zenon
<1>3. D \in 1 .. 29 /\ m < Q
  BY T0Range
<1>4. 2^(q + 1) = 2 * u /\ u \in Nat \ {0}
  BY <1>2, Powers, Zenon
<1>5. ~(q < D)
  <2> SUFFICES ASSUME q < D PROVE FALSE
    OBVIOUS
  <2>1. D \in 0 .. 29
    BY <1>3
  <2>2. 2^(q + 1) <= m
    BY <1>2, <2>1, PowerMono, Zenon
  <2>3. m \in Nat
    BY <2>1, Powers, Zenon
  <2> HIDE DEF m, u, q
  <2> QED
    BY <1>1, <1>2, <1>3, <1>4, <2>2, <2>3
<1>6. e \in Nat /\ e \in 0 .. 29 /\ D \in Nat /\ D + e = q /\ D + e <= 29 /\ BitlenQMinusD = e + 1
  <2> HIDE DEF u, m
  <2> QED
    BY <1>2, <1>3, <1>5 DEF BitlenQMinusD
<1>7. u = m * w /\ m \in Nat \ {0} /\ w \in Nat \ {0}
  <2>1. 2^(D + e) = 2^D * 2^e /\ 2^D \in Nat \ {0} /\ 2^e \in Nat \ {0}
    BY <1>6, PowerSum
  <2> QED
    BY <1>6, <2>1, Zenon
<1>8. 2^BitlenQMinusD = 2 * w
  BY <1>6, Powers, Zenon
<1>9. BitlenQMinusD \in 1 .. 29 /\ BitlenQMinusD - 1 <= q
  <2> HIDE DEF u, m, w
  <2> QED
    BY <1>2, <1>3, <1>6
<1> DEFINE v == 2^(q + 1)
           x == 2^BitlenQMinusD
<1>10. Q < v /\ v = 2 * u /\ x = 2 * w
  BY <1>2, <1>4, <1>8, Zenon
<1> HIDE DEF u, m, w, v, x, e
<1>11. ASSUME NEW h \in Nat, h * m <= Q - 1
       PROVE  h \in Elem /\ h < x
  <2>1. h * m < (2 * w) * m
    <3>1. v = (2 * w) * m
      BY <1>7, <1>10
    <3>2. h * m \in Nat /\ (2 * w) * m \in Nat
      BY <1>7
    <3> QED
      BY <1>1, <1>10, <1>11, <3>1, <3>2
  <2>2. h < 2 * w
    <3> SUFFICES ASSUME h >= 2 * w PROVE FALSE
      BY <1>7
    <3>1. (2 * w) * m <= h * m
      BY <1>7, MulMono
    <3> QED
      BY <1>7, <2>1, <3>1
  <2>3. h * 1 <= h * m
    BY <1>7, MulMono
  <2> QED
    BY <1>1, <1>7, <1>10, <1>11, <2>2, <2>3 DEF Elem
<1>12. \A h \in Nat : h * 2^D <= Q - 1 => h \in Elem /\ h < 2^BitlenQMinusD
  BY <1>11, Zenon DEF m, x
<1> QED
  BY <1>9, <1>12, Zenon

-----------------------------------------------------------------------------
(* What holds a signing key together: its matrix is that of its seed, its     *)
(* transforms are those of its secrets.                                       *)
KeyWhole(esk) ==
  /\ IsArray(B32, esk.rho) /\ IsArray(B32, esk.K) /\ IsArray(B64, esk.tr)
  /\ esk = ExpandedSigningKey(esk.rho, esk.K, esk.tr, esk.s1, esk.s2, esk.t0, expand_a(esk.rho))

LEMMA SqueezedArray ==
  ASSUME NEW ctx, NEW n
  PROVE  IsArray(n, squeeze_new(ctx, n))
BY ArrayIs DEF squeeze_new, squeeze, IsArray

LEMMA VkFields ==
  ASSUME NEW rho, NEW t1, NEW A, NEW enc, NEW vk, vk = VerifyingKey(rho, t1, A, enc)
  PROVE  /\ vk.rho = rho /\ vk.t1 = t1 /\ vk.A_hat = A
         /\ vk.t1_2d_hat = ntt_vec(VecScale(2^D, t1))
         /\ vk.tr = squeeze_new(absorb(H, enc), B64)
<1>1. \A x, y : LET r == [rho |-> rho, t1 |-> t1, A_hat |-> A, t1_2d_hat |-> x, tr |-> y]
                IN r.rho = rho /\ r.t1 = t1 /\ r.A_hat = A /\ r.t1_2d_hat = x /\ r.tr = y
  OBVIOUS
<1> QED
  BY <1>1, Zenon DEF VerifyingKey

(* The rounded vector that a verifying key of esk is of.                      *)
rootOf(esk) == VecAdd(Product(esk.A_hat, esk.s1_hat), esk.s2)

LEMMA VerifyingKeyIs ==
  ASSUME NEW esk
  PROVE  LET t1 == VecPower2Round(rootOf(esk))[1]
         IN verifying_key(esk) =
              VerifyingKey(esk.rho, t1, esk.A_hat, encode_internal(esk.rho, t1))
BY Zenon DEF verifying_key, public_key, rootOf

LEMMA RootTyped ==
  ASSUME NEW esk, KeyShape(esk)
  PROVE  rootOf(esk) \in [Rows -> Polynomial]
<1>1. /\ esk.A_hat \in Matrix /\ esk.s1 \in [Columns -> Polynomial]
      /\ esk.s2 \in [Rows -> Polynomial] /\ esk.s1_hat = ntt_vec(esk.s1)
  BY Zenon DEF KeyShape, VecWithin
<1>2. esk.s1_hat \in [Columns -> Polynomial]
  BY <1>1, ZeroTyped, NttConstants, VectorOps
<1>3. Product(esk.A_hat, esk.s1_hat) \in [Rows -> Polynomial]
  BY <1>1, <1>2, ProductTyped, Zenon
<1> QED
  BY <1>1, <1>3, ZeroTyped, NttConstants, VectorOps DEF rootOf

(* The encoding of a signing key gives back the key.                          *)
LEMMA EskBack ==
  ASSUME NEW esk, KeyShape(esk), KeyWhole(esk)
  PROVE  from_expanded(to_expanded(esk)) = esk
<1> DEFINE s1 == encode_s1(esk.s1)
           s2 == encode_s2(esk.s2)
           t0 == encode_t0(esk.t0)
           enc == to_expanded(esk)
           p == split_sk(enc)
<1>1. K \in Nat \ {0} /\ L \in Nat \ {0}
  BY KeySizes
<1>2. /\ VecWithin(0 .. L - 1, Eta, Eta, esk.s1) /\ VecWithin(0 .. K - 1, Eta, Eta, esk.s2)
      /\ VecWithin(0 .. K - 1, Pow2DMinus1 - 1, Pow2DMinus1, esk.t0)
  BY Zenon DEF KeyShape, Rows, Columns
<1>3. /\ PackedRange(Eta, Eta) /\ PackedRange(Pow2DMinus1 - 1, Pow2DMinus1)
      /\ RangeEncodingBits(Pow2DMinus1 - 1, Pow2DMinus1) = D
  BY EtaRange, T0Range
<1>4. IsArray(S1Size, s1) /\ decode_s1(s1) = esk.s1
  <2> DEFINE v == esk.s1
             n == L
             a == Eta
  <2>1. n \in Nat \ {0} /\ PackedRange(a, a) /\ VecWithin(0 .. n - 1, a, a, v)
    BY <1>1, <1>2, <1>3, Zenon
  <2>2. /\ s1 = pack_vec(n, a, a, v) /\ decode_s1(s1) = unpack_vec(n, a, a, s1)
        /\ S1Size = n * EncodedPolynomialSize(RangeEncodingBits(a, a))
    BY Zenon DEF encode_s1, decode_s1, S1Size
  <2> HIDE DEF v, n, a, s1
  <2>3. /\ IsArray(n * EncodedPolynomialSize(RangeEncodingBits(a, a)), s1)
        /\ unpack_vec(n, a, a, s1) = v
    BY ONLY <2>1, <2>2, PackedVectorBack, SMTT(60)
  <2> QED
    BY <2>2, <2>3, Zenon DEF v
<1>5. IsArray(S2Size, s2) /\ decode_s2(s2) = esk.s2
  <2> DEFINE v == esk.s2
             n == K
             a == Eta
  <2>1. n \in Nat \ {0} /\ PackedRange(a, a) /\ VecWithin(0 .. n - 1, a, a, v)
    BY <1>1, <1>2, <1>3, Zenon
  <2>2. /\ s2 = pack_vec(n, a, a, v) /\ decode_s2(s2) = unpack_vec(n, a, a, s2)
        /\ S2Size = n * EncodedPolynomialSize(RangeEncodingBits(a, a))
    BY Zenon DEF encode_s2, decode_s2, S2Size
  <2> HIDE DEF v, n, a, s2
  <2>3. /\ IsArray(n * EncodedPolynomialSize(RangeEncodingBits(a, a)), s2)
        /\ unpack_vec(n, a, a, s2) = v
    BY ONLY <2>1, <2>2, PackedVectorBack, SMTT(60)
  <2> QED
    BY <2>2, <2>3, Zenon DEF v
<1>6. IsArray(T0Size, t0) /\ decode_t0(t0) = esk.t0
  <2> DEFINE a == Pow2DMinus1 - 1
             b == Pow2DMinus1
  <2>1. PackedRange(a, b) /\ VecWithin(0 .. K - 1, a, b, esk.t0) /\ RangeEncodingBits(a, b) = D
    BY <1>2, <1>3, Zenon
  <2>2. t0 = pack_vec(K, a, b, esk.t0) /\ decode_t0(t0) = unpack_vec(K, a, b, t0)
    BY Zenon DEF encode_t0, decode_t0
  <2> HIDE DEF a, b, t0
  <2>3. /\ IsArray(K * EncodedPolynomialSize(RangeEncodingBits(a, b)), t0)
        /\ unpack_vec(K, a, b, t0) = esk.t0
    BY ONLY <1>1, <2>1, <2>2, PackedVectorBack, SMTT(60)
  <2>4. T0Size = K * EncodedPolynomialSize(D)
    BY Zenon DEF T0Size
  <2> QED
    BY <2>1, <2>2, <2>3, <2>4, Zenon
<1>7. IsArray(B32, esk.rho) /\ IsArray(B32, esk.K) /\ IsArray(B64, esk.tr)
  BY Zenon DEF KeyWhole
<1>8. enc = concat_sk(esk.rho, esk.K, esk.tr, s1, s2, t0)
  BY Zenon DEF to_expanded
<1> HIDE DEF s1, s2, t0, enc
<1>9. SkParts(p, esk.rho, esk.K, esk.tr, s1, s2, t0)
  BY <1>4, <1>5, <1>6, <1>7, <1>8, SkApart, Zenon
<1>10. from_expanded(enc) = ExpandedSigningKey(p.rho, p.K, p.tr, decode_s1(p.s1),
                              decode_s2(p.s2), decode_t0(p.t0), expand_a(p.rho))
  BY Zenon DEF from_expanded
<1> HIDE DEF p
<1>11. p.rho = esk.rho /\ p.K = esk.K /\ p.tr = esk.tr /\ p.s1 = s1 /\ p.s2 = s2 /\ p.t0 = t0
  BY <1>9, Zenon DEF SkParts
<1>12. from_expanded(enc) = ExpandedSigningKey(esk.rho, esk.K, esk.tr, esk.s1, esk.s2,
                              esk.t0, expand_a(esk.rho))
  BY <1>4, <1>5, <1>6, <1>10, <1>11, Zenon
<1>13. esk = ExpandedSigningKey(esk.rho, esk.K, esk.tr, esk.s1, esk.s2, esk.t0, expand_a(esk.rho))
  BY Zenon DEF KeyWhole
<1>14. from_expanded(enc) = esk
  BY <1>12, <1>13, Zenon
<1> QED
  BY <1>14, Zenon DEF enc

-----------------------------------------------------------------------------
(* a is the candidates among the m first values of cand, at the places idx,   *)
(* of which there are at most N.                                              *)
Places(cand, m, a, idx) ==
  /\ Len(a) <= N
  /\ idx \in [1 .. Len(a) -> 0 .. m - 1]
  /\ \A j \in 1 .. Len(a) : a[j] = cand[idx[j]] /\ a[j] # NoElem
  /\ \A j, k \in 1 .. Len(a) : j < k => idx[j] < idx[k]
  /\ \A n \in 0 .. m - 1 : cand[n] # NoElem =>
       (\E j \in 1 .. Len(a) : idx[j] = n) \/ (Len(a) = N /\ idx[N] < n)

ValuesOf(cand) == {cand[n] : n \in Nat}
Took(cand, m, a) == a \in Seq(ValuesOf(cand)) /\ \E idx : Places(cand, m, a, idx)

LEMMA TookNone ==
  ASSUME NEW cand
  PROVE  Took(cand, 0, << >>)
<1> DEFINE idx == [j \in 1 .. 0 |-> 0]
<1>1. << >> \in Seq(ValuesOf(cand)) /\ Len(<< >>) = 0
  OBVIOUS
<1>2. Len(<< >>) <= N
  BY <1>1, Field
<1>3. idx \in [1 .. 0 -> 0 .. 0 - 1] /\ 1 .. 0 = {} /\ 0 .. 0 - 1 = {}
  OBVIOUS
<1> HIDE DEF idx
<1>4. Places(cand, 0, << >>, idx)
  BY <1>1, <1>2, <1>3 DEF Places
<1> QED
  BY <1>1, <1>4, Zenon DEF Took

LEMMA TookMore ==
  ASSUME NEW cand, NEW m \in Nat, NEW a, Took(cand, m, a)
  PROVE  Took(cand, m + 1, push(a, cand[m]))
<1> DEFINE S == ValuesOf(cand)
           x == cand[m]
           l == Len(a)
<1>1. a \in Seq(S) /\ x \in S /\ l \in Nat
  BY DEF Took, ValuesOf
<1>2. PICK idx : Places(cand, m, a, idx)
  BY Zenon DEF Took
<1>3. /\ l <= N /\ idx \in [1 .. l -> 0 .. m - 1]
      /\ \A j \in 1 .. l : a[j] = cand[idx[j]] /\ a[j] # NoElem
      /\ \A j, k \in 1 .. l : j < k => idx[j] < idx[k]
      /\ \A n \in 0 .. m - 1 : cand[n] # NoElem =>
           (\E j \in 1 .. l : idx[j] = n) \/ (l = N /\ idx[N] < n)
  BY <1>2, Zenon DEF Places
<1>4. N \in Nat \ {0} /\ \A n \in 0 .. (m + 1) - 1 : n \in 0 .. m - 1 \/ n = m
  BY Field
<1> HIDE DEF S, x, l
<1>5. CASE l < N /\ x # NoElem
  <2> DEFINE b == Append(a, x)
             to == [j \in 1 .. l + 1 |-> IF j <= l THEN idx[j] ELSE m]
  <2>1. push(a, x) = b
    BY <1>5, Zenon DEF push, l
  <2>2. b \in Seq(S) /\ Len(b) = l + 1 /\ b[l + 1] = x /\ \A j \in 1 .. l : b[j] = a[j]
    BY <1>1 DEF l
  <2>3. /\ \A j \in 1 .. l : to[j] = idx[j] /\ idx[j] \in 0 .. m - 1 /\ j \in 1 .. l + 1 /\ j # l + 1
        /\ to[l + 1] = m /\ l + 1 \in 1 .. l + 1
    BY <1>1, <1>3
  <2>4. \A j \in 1 .. l + 1 : j \in 1 .. l \/ j = l + 1
    BY <1>1
  <2>5. to \in [1 .. l + 1 -> 0 .. (m + 1) - 1]
    <3>1. ASSUME NEW j \in 1 .. l + 1
          PROVE  to[j] \in 0 .. (m + 1) - 1
      <4> HIDE DEF to
      <4>1. CASE j = l + 1
        BY <2>3, <4>1
      <4>2. CASE j \in 1 .. l
        BY <2>3, <4>2
      <4> QED
        BY <2>4, <4>1, <4>2
    <3> QED
      BY <3>1
  <2> HIDE DEF b, to
  <2>6. \A j \in 1 .. l + 1 : b[j] = cand[to[j]] /\ b[j] # NoElem
    BY <1>3, <1>5, <2>2, <2>3, <2>4, Zenon DEF x
  <2>7. \A j, k \in 1 .. l + 1 : j < k => to[j] < to[k]
    <3> TAKE j, k \in 1 .. l + 1
    <3> HAVE j < k
    <3>1. j \in 1 .. l /\ j \in Int /\ k \in Int
      BY <1>1
    <3>2. CASE k \in 1 .. l
      BY <1>3, <2>3, <3>1, <3>2
    <3>3. CASE k = l + 1
      BY <2>3, <3>1, <3>3
    <3> QED
      BY <2>4, <3>2, <3>3
  <2>8. \A n \in 0 .. (m + 1) - 1 : cand[n] # NoElem =>
          (\E j \in 1 .. l + 1 : to[j] = n) \/ (l + 1 = N /\ to[N] < n)
    <3> TAKE n \in 0 .. (m + 1) - 1
    <3> HAVE cand[n] # NoElem
    <3>1. CASE n = m
      BY <2>3, <3>1, Zenon
    <3>2. CASE n \in 0 .. m - 1
      <4>1. ~(l = N)
        BY <1>1, <1>4, <1>5
      <4>2. \E j \in 1 .. l : idx[j] = n
        BY <1>3, <3>2, <4>1, Zenon
      <4> QED
        BY <2>3, <4>2, Zenon
    <3> QED
      BY <1>4, <3>1, <3>2, Zenon
  <2>9. l + 1 <= N
    BY <1>1, <1>4, <1>5
  <2>10. Places(cand, m + 1, b, to)
    BY <2>2, <2>5, <2>6, <2>7, <2>8, <2>9, Zenon DEF Places
  <2> QED
    BY <2>1, <2>2, <2>10, Zenon DEF Took, S, x
<1>6. CASE ~(l < N /\ x # NoElem)
  <2>1. push(a, x) = a
    BY <1>6, Zenon DEF push, l
  <2>2. x # NoElem => l = N
    BY <1>1, <1>3, <1>4, <1>6
  <2>3. idx \in [1 .. l -> 0 .. (m + 1) - 1]
    BY <1>3
  <2>4. ASSUME NEW n \in 0 .. (m + 1) - 1, cand[n] # NoElem
        PROVE  (\E j \in 1 .. l : idx[j] = n) \/ (l = N /\ idx[N] < n)
    <3>1. CASE n \in 0 .. m - 1
      BY <1>3, <2>4, <3>1, Zenon
    <3>2. CASE n = m
      <4>1. l = N
        BY <2>2, <2>4, <3>2, Zenon DEF x
      <4>2. idx[N] \in 0 .. m - 1
        BY <1>3, <1>4, <4>1
      <4> QED
        BY <3>2, <4>1, <4>2
    <3> QED
      BY <1>4, <3>1, <3>2, Zenon
  <2>5. Places(cand, m + 1, a, idx)
    BY <1>3, <2>3, <2>4, Zenon DEF Places, l
  <2> QED
    BY <1>1, <2>1, <2>5, Zenon DEF Took, S, x
<1> QED
  BY <1>5, <1>6, Zenon DEF x
-----------------------------------------------------------------------------
(* The next candidate of FirstOf.                                             *)
NextRun(cand, at) == at = [n \in Nat |-> IF cand[n] # NoElem THEN n ELSE at[n + 1]]

LEMMA NextExists ==
  ASSUME NEW cand
  PROVE  \E at : NextRun(cand, at)
<1> DEFINE C(n) == {k \in Nat : n <= k /\ cand[k] # NoElem}
           Least(T) == CHOOSE x \in T : \A y \in T : x <= y
           e == [n \in Nat |-> IF C(n) = {} THEN 0 ELSE Least(C(n))]
<1>1. ASSUME NEW n \in Nat
      PROVE  e[n] = IF cand[n] # NoElem THEN n ELSE e[n + 1]
  <2>1. CASE cand[n] # NoElem
    <3>1. n \in C(n) /\ \A y \in C(n) : n <= y
      BY <2>1
    <3>2. \A x \in C(n) : (\A y \in C(n) : x <= y) => x = n
      BY <3>1
    <3>3. Least(C(n)) = n
      <4> HIDE DEF C
      <4>1. \E x \in C(n) : \A y \in C(n) : x <= y
        BY <3>1, Zenon
      <4>2. Least(C(n)) \in C(n) /\ \A y \in C(n) : Least(C(n)) <= y
        BY <4>1, Zenon
      <4> HIDE DEF Least
      <4> QED
        BY <3>2, <4>2, Zenon
    <3>4. C(n) # {}
      BY <3>1
    <3> HIDE DEF C, Least
    <3> QED
      BY <2>1, <3>3, <3>4
  <2>2. CASE ~(cand[n] # NoElem)
    <3>1. C(n) = C(n + 1)
      <4>1. \A k \in Nat : (n <= k /\ cand[k] # NoElem) <=> (n + 1 <= k /\ cand[k] # NoElem)
        BY <2>2
      <4> QED
        BY <4>1
    <3>2. n + 1 \in Nat
      OBVIOUS
    <3> HIDE DEF C, Least
    <3>3. e[n] = e[n + 1]
      BY <3>1, <3>2
    <3> HIDE DEF e
    <3> QED
      BY <2>2, <3>3, Zenon
  <2> QED
    BY <2>1, <2>2, Zenon
<1>2. e = [n \in Nat |-> e[n]]
  <2> HIDE DEF C, Least
  <2> QED
    OBVIOUS
<1> HIDE DEF e
<1>3. e = [n \in Nat |-> IF cand[n] # NoElem THEN n ELSE e[n + 1]]
  BY <1>1, <1>2
<1> QED
  BY <1>3, Zenon DEF NextRun

LEMMA NextIs ==
  ASSUME NEW cand, NEW at, NextRun(cand, at), NEW n \in Nat, NEW k \in Nat, n <= k,
         cand[k] # NoElem, \A i \in n .. k - 1 : cand[i] = NoElem
  PROVE  at[n] = k
<1> DEFINE T == {d \in 0 .. k - n : at[k - d] = k}
<1>1. k - n \in Nat
  OBVIOUS
<1>2. \A i \in Nat : at[i] = IF cand[i] # NoElem THEN i ELSE at[i + 1]
  BY Zenon DEF NextRun
<1>3. 0 \in T
  <2>1. at[k] = k /\ k - 0 = k /\ 0 \in 0 .. k - n
    BY <1>1, <1>2
  <2> QED
    BY <2>1
<1>4. ASSUME NEW d \in 1 .. k - n, d - 1 \in T
      PROVE  d \in T
  <2>1. k - d \in n .. k - 1 /\ k - d \in Nat /\ (k - d) + 1 = k - (d - 1) /\ d \in 0 .. k - n
    OBVIOUS
  <2>2. at[k - d] = at[(k - d) + 1]
    BY <1>2, <2>1, Zenon
  <2> QED
    BY <1>4, <2>1, <2>2
<1>5. \A d \in 0 .. k - n : d \in T
  <2> HIDE DEF T
  <2> QED
    BY <1>1, <1>3, <1>4, UpTo
<1>6. k - n \in T /\ k - (k - n) = n
  BY <1>1, <1>5
<1> QED
  BY <1>6

FirstRun(at, nth) == nth = [j \in Coeff |-> IF j = 0 THEN at[0] ELSE at[nth[j - 1] + 1]]

-----------------------------------------------------------------------------
(* What a sponge puts out are bytes.                                          *)
Squeezed == \A digest, n : ShakeByte(digest, n) \in Byte

sponge(f, x, p) == [function |-> f, input |-> x, pos |-> p]
out(f, x, n) == ShakeByte(Shake(f, x), n)
outs(f, x, p, len) == [n \in 1 .. len |-> out(f, x, p + n - 1)]

per(w) == IF w = 3 THEN 1 ELSE 2

LEMMA ThreeBytes ==
  ASSUME NEW b, NEW t, t[1] = b[1], t[2] = b[2], t[3] = b[3]
  PROVE  coeff_from_three_bytes(b) = coeff_from_three_bytes(t)
BY DEF coeff_from_three_bytes

(* The candidates that chunk n adds, m having been seen before the first.     *)
ChunkHas(c, w, m, n, v) ==
  v = IF w = 3 THEN << c[m + (n - 1)] >> ELSE << c[m + 2 * (n - 1)], c[m + 2 * (n - 1) + 1] >>

LEMMA ChunkTaken ==
  ASSUME NEW cand, NEW w \in {1, 3}, NEW m \in Nat, NEW n \in Nat \ {0}, NEW v, ChunkHas(cand, w, m, n, v),
         NEW a, Took(cand, m + per(w) * (n - 1), a)
  PROVE  Took(cand, m + per(w) * n, push_all(a, v))
<1>1. CASE w = 3
  <2> DEFINE q == m + (n - 1)
  <2>1. q \in Nat /\ m + per(w) * (n - 1) = q /\ m + per(w) * n = q + 1
    BY <1>1 DEF per
  <2>2. v = << cand[q] >>
    BY <1>1, Zenon DEF ChunkHas
  <2> HIDE DEF q
  <2>3. Len(v) = 1 /\ v[1] = cand[q]
    BY <2>2
  <2>4. push_all(a, v) = push(a, cand[q])
    BY <2>3, Zenon DEF push_all
  <2>5. Took(cand, q, a)
    BY <2>1
  <2>6. Took(cand, q + 1, push(a, cand[q]))
    BY <2>1, <2>5, TookMore
  <2> QED
    BY <2>1, <2>4, <2>6
<1>2. CASE w = 1
  <2> DEFINE q == m + 2 * (n - 1)
  <2>1. q \in Nat /\ q + 1 \in Nat /\ m + per(w) * (n - 1) = q /\ m + per(w) * n = (q + 1) + 1 /\ w # 3
    BY <1>2 DEF per
  <2>2. v = << cand[q], cand[q + 1] >>
    BY <2>1, Zenon DEF ChunkHas
  <2> HIDE DEF q
  <2>3. Len(v) # 1 /\ v[1] = cand[q] /\ v[2] = cand[q + 1]
    BY <2>2
  <2>4. push_all(a, v) = push(push(a, cand[q]), cand[q + 1])
    BY <2>3, Zenon DEF push_all
  <2>5. Took(cand, q, a)
    BY <2>1
  <2>6. Took(cand, q + 1, push(a, cand[q]))
    BY <2>1, <2>5, TookMore
  <2>7. Took(cand, (q + 1) + 1, push(push(a, cand[q]), cand[q + 1]))
    BY <2>1, <2>6, TookMore
  <2> QED
    BY <2>1, <2>4, <2>7
<1> QED
  BY <1>1, <1>2
-----------------------------------------------------------------------------
FillRun(k, a, w, s, after) ==
  after = [n \in 0 .. k |-> IF n = 0 THEN a
             ELSE push_all(after[n - 1], candidates(Slice(s, (n - 1) * w, w)))]

LEMMA FillIs ==
  ASSUME NEW cand, NEW w \in {1, 3}, NEW m \in Nat, NEW k \in Nat, NEW s, Len(s) \div w = k,
         \A n \in 1 .. k : ChunkHas(cand, w, m, n, candidates(Slice(s, (n - 1) * w, w))),
         NEW a, Took(cand, m, a)
  PROVE  Took(cand, m + per(w) * k, fill(a, s, w))
<1> DEFINE c(n) == candidates(Slice(s, (n - 1) * w, w))
           V == [n \in 0 .. k |-> {x \in Seq(ValuesOf(cand)) : Took(cand, m + per(w) * n, x)}]
           step == [n \in 1 .. k |-> [x \in V[n - 1] |-> push_all(x, c(n))]]
           after == CHOOSE g : FillRun(k, a, w, s, g)
<1>1. \A n \in 0 .. k : V[n] = {x \in Seq(ValuesOf(cand)) : Took(cand, m + per(w) * n, x)}
  OBVIOUS
<1>2. a \in V[0]
  <2>1. per(w) \in Nat /\ m + per(w) * 0 = m /\ 0 \in 0 .. k
    BY DEF per
  <2>2. a \in Seq(ValuesOf(cand))
    BY Zenon DEF Took
  <2> QED
    BY <1>1, <2>1, <2>2
<1>3. ASSUME NEW n \in 1 .. k, NEW x \in V[n - 1]
      PROVE  step[n][x] = push_all(x, c(n)) /\ step[n][x] \in V[n]
  <2>1. n - 1 \in 0 .. k /\ n \in 0 .. k /\ n \in Nat \ {0}
    OBVIOUS
  <2>2. Took(cand, m + per(w) * (n - 1), x)
    BY <1>1, <2>1
  <2>3. ChunkHas(cand, w, m, n, c(n))
    OBVIOUS
  <2>4. step[n] = [y \in V[n - 1] |-> push_all(y, c(n))]
    <3> HIDE DEF V
    <3> QED
      OBVIOUS
  <2>5. step[n][x] = push_all(x, c(n))
    <3> HIDE DEF V, step
    <3> QED
      BY <2>4, Zenon
  <2> HIDE DEF c
  <2>6. Took(cand, m + per(w) * n, push_all(x, c(n)))
    BY <2>1, <2>2, <2>3, ChunkTaken
  <2>7. push_all(x, c(n)) \in Seq(ValuesOf(cand))
    BY <2>6, Zenon DEF Took
  <2> HIDE DEF V, step
  <2> QED
    BY <1>1, <2>1, <2>5, <2>6, <2>7
<1> HIDE DEF V, step
<1>4. PICK g : Iterates(k, a, step, g) /\ \A n \in 0 .. k : g[n] \in V[n]
  <2>1. \A n \in 1 .. k : \A x \in V[n - 1] : step[n][x] \in V[n]
    BY <1>3, Zenon
  <2> QED
    BY <1>2, <2>1, Levels
<1>5. FillRun(k, a, w, s, g)
  <2>1. g = [n \in 0 .. k |-> IF n = 0 THEN a ELSE step[n][g[n - 1]]]
    BY <1>4, Zenon DEF Iterates
  <2>2. ASSUME NEW n \in 0 .. k, n # 0
        PROVE  step[n][g[n - 1]] = push_all(g[n - 1], c(n))
    <3>1. n \in 1 .. k /\ n - 1 \in 0 .. k
      BY <2>2
    <3> HIDE DEF c
    <3> QED
      BY <1>3, <1>4, <3>1, Zenon
  <2> HIDE DEF c
  <2>3. \A n \in 0 .. k : (IF n = 0 THEN a ELSE step[n][g[n - 1]]) = (IF n = 0 THEN a ELSE push_all(g[n - 1], c(n)))
    BY <2>2, Zenon
  <2>4. g = [n \in 0 .. k |-> IF n = 0 THEN a ELSE push_all(g[n - 1], c(n))]
    BY <2>1, <2>3
  <2> QED
    BY <2>4, Zenon DEF FillRun, c
<1>6. FillRun(k, a, w, s, after)
  BY <1>5, Zenon
<1>7. fill(a, s, w) = after[k]
  BY Zenon DEF fill, FillRun
<1> HIDE DEF after
<1>8. \A n \in 0 .. k : after[n] \in V[n]
  <2> DEFINE T == {n \in 0 .. k : after[n] \in V[n]}
  <2>1. \A n \in 0 .. k : after[n] = IF n = 0 THEN a ELSE push_all(after[n - 1], c(n))
    BY <1>6, Zenon DEF FillRun
  <2> HIDE DEF c
  <2>2. 0 \in T
    BY <1>2, <2>1
  <2>3. ASSUME NEW n \in 1 .. k, n - 1 \in T
        PROVE  n \in T
    <3>1. n \in 0 .. k /\ n # 0 /\ after[n - 1] \in V[n - 1]
      BY <2>3
    <3>2. after[n] = push_all(after[n - 1], c(n))
      BY <2>1, <3>1, Zenon
    <3>3. after[n] \in V[n]
      BY <1>3, <3>1, <3>2, Zenon
    <3> QED
      BY <3>1, <3>3
  <2>4. \A n \in 0 .. k : n \in T
    <3> HIDE DEF T
    <3> QED
      BY <2>2, <2>3, UpTo
  <2> QED
    BY <2>4
<1> QED
  <2>1. k \in 0 .. k
    OBVIOUS
  <2>2. after[k] \in V[k]
    BY <1>8, <2>1
  <2> QED
    BY <1>1, <1>7, <2>1, <2>2

advance(w, p) ==
  IF Len(p.a) = N THEN p
  ELSE [a |-> fill(p.a, squeeze(p.ctx, w).bytes, w), ctx |-> squeeze(p.ctx, w).ctx]

CollectRun(w, start, more) ==
  more = [n \in 0 .. MaxSqueezes |-> IF n = 0 THEN start ELSE advance(w, more[n - 1])]

-----------------------------------------------------------------------------
(* A candidate is a residue; one of a nibble is at most Eta in size.          *)
LEMMA ThreeTyped ==
  ASSUME NEW x \in Byte, NEW y \in Byte, NEW z \in Byte, coeff_from_three_bytes(<< x, y, z >>) # NoElem
  PROVE  coeff_from_three_bytes(<< x, y, z >>) \in Elem
<1> DEFINE b == << x, y, z >>
           p == IF z > 127 THEN z - 128 ELSE z
           v == p * 65536 + y * 256 + x
<1>1. b[1] = x /\ b[2] = y /\ b[3] = z
  OBVIOUS
<1>2. v \in Nat
  BY DEF Byte
<1>3. coeff_from_three_bytes(b) = IF v < Q THEN v ELSE NoElem
  BY <1>1 DEF coeff_from_three_bytes
<1> HIDE DEF b, v
<1> QED
  BY <1>2, <1>3, Field DEF b, Elem

Small(x) == x \in Elem /\ infinity_norm(x) <= Eta

LEMMA HalfTyped ==
  ASSUME NEW b \in 0 .. 15, coeff_from_half_byte(b) # NoElem
  PROVE  Small(coeff_from_half_byte(b))
<1>1. Q \in Nat /\ 2 * Eta < Q /\ Eta \in {2, 4}
  BY Field, ParameterSet
<1>2. ASSUME NEW e \in 0 .. Eta
      PROVE  Small(e) /\ (e # 0 => Small(Q - e))
  BY <1>1, <1>2 DEF Small, Elem, infinity_norm
<1>3. ASSUME NEW e \in 1 .. Eta
      PROVE  Small(ElemNeg(e))
  <2>1. ElemNeg(e) = Q - e
    BY <1>1, <1>3 DEF ElemNeg, small_reduce
  <2>2. e \in 0 .. Eta /\ e # 0
    BY <1>1, <1>3
  <2> QED
    BY <1>2, <2>1, <2>2
<1>4. CASE Eta = 2
  <2>1. coeff_from_half_byte(b) = IF b % 5 <= 2 THEN 2 - (b % 5) ELSE ElemNeg((b % 5) - 2)
    BY <1>4 DEF coeff_from_half_byte
  <2>2. b % 5 \in 0 .. 4
    OBVIOUS
  <2> DEFINE e == b % 5
  <2>3. e <= 2 => 2 - e \in 0 .. Eta
    BY <1>4, <2>2
  <2>4. ~(e <= 2) => e - 2 \in 1 .. Eta
    BY <1>4, <2>2
  <2> HIDE DEF e
  <2>5. coeff_from_half_byte(b) = IF e <= 2 THEN 2 - e ELSE ElemNeg(e - 2)
    BY <2>1 DEF e
  <2> QED
    BY <1>2, <1>3, <2>3, <2>4, <2>5
<1>5. CASE Eta = 4
  <2>1. coeff_from_half_byte(b) = IF b <= 4 THEN 4 - b ELSE ElemNeg(b - 4)
    BY <1>5 DEF coeff_from_half_byte
  <2>2. b < 9
    BY <1>5 DEF coeff_from_half_byte
  <2>3. b <= 4 => 4 - b \in 0 .. Eta
    BY <1>5
  <2>4. ~(b <= 4) => b - 4 \in 1 .. Eta
    BY <1>5, <2>2
  <2> QED
    BY <1>2, <1>3, <2>1, <2>3, <2>4
<1> QED
  BY <1>1, <1>4, <1>5

Joins(e, a, x, y, z, ax, az) ==
  e \o a = a /\ e \o az = az /\ a \o x = ax /\ ax \o y = az /\ a \o z = az

Reads(f, e, a, x, y, z, ax, az) ==
  /\ absorb(sponge(f, e, 0), a) = sponge(f, a, 0)
  /\ absorb(sponge(f, e, 0), az) = sponge(f, az, 0)
  /\ absorb(sponge(f, a, 0), x) = sponge(f, ax, 0)
  /\ absorb(sponge(f, ax, 0), y) = sponge(f, az, 0)
  /\ absorb(sponge(f, a, 0), z) = sponge(f, az, 0)

Streams(a, x, y) ==
         /\ absorb(G, a) = sponge("G", a, 0) /\ absorb(H, a) = sponge("H", a, 0)
         /\ absorb(G, a \o << x, y >>) = sponge("G", a \o << x, y >>, 0)
         /\ absorb(H, a \o << x, y >>) = sponge("H", a \o << x, y >>, 0)
         /\ absorb(absorb(absorb(G, a), << x >>), << y >>) = sponge("G", a \o << x, y >>, 0)
         /\ absorb(absorb(absorb(H, a), << x >>), << y >>) = sponge("H", a \o << x, y >>, 0)
         /\ absorb(absorb(H, a), << x, y >>) = sponge("H", a \o << x, y >>, 0)

LEMMA ArrayJoins ==
  ASSUME NEW n \in Nat, NEW a, IsArray(n, a)
  PROVE  \E S : a \in Seq(S) /\ Nat \subseteq S
<1> DEFINE S == {a[i] : i \in 1 .. n} \cup Nat
<1>1. a \in [1 .. n -> S]
  BY DEF IsArray
<1>2. Nat \subseteq S
  OBVIOUS
<1> HIDE DEF S
<1>3. a \in Seq(S)
  BY <1>1
<1> QED
  BY <1>2, <1>3

LEMMA ExpandSIs ==
  ASSUME NEW k \in Nat, NEW rho, NEW b \in Nat, NEW r \in 0 .. k - 1
  PROVE  expand_s(k, rho, b)[r] = rej_bounded_poly(rho, r + b)
<1>1. expand_s(k, rho, b) = [q \in 0 .. k - 1 |-> rej_bounded_poly(rho, q + b)]
  BY ArrayIs, Zenon DEF expand_s
<1> QED
  BY <1>1

LEMMA ExpandSTyped ==
  ASSUME NEW k, NEW rho, NEW b
  PROVE  expand_s(k, rho, b) = [r \in 0 .. k - 1 |-> expand_s(k, rho, b)[r]]
<1> DEFINE f == [r \in 0 .. k - 1 |-> rej_bounded_poly(rho, r + b)]
<1>1. expand_s(k, rho, b) = f
  BY ArrayIs, Zenon DEF expand_s
<1>2. f = [r \in 0 .. k - 1 |-> f[r]]
  OBVIOUS
<1> HIDE DEF f
<1> QED
  BY <1>1, <1>2, Zenon

-----------------------------------------------------------------------------
(* The shuffle: where it starts, and its step n.                              *)
unshuffled(rho) == [c |-> ZeroPoly, ctx |-> squeeze(absorb(H, rho), 8).ctx]
sign(rho, n) == IF bit_set(squeeze(absorb(H, rho), 8).bytes, n - 1) THEN Q - 1 ELSE 1
move(rho, n, p) ==
  [c |-> place(p.c, top(n), draw(p.ctx, top(n)).bytes[1], sign(rho, n)),
   ctx |-> draw(p.ctx, top(n)).ctx]

ShuffleRun(rho, m, step) ==
  step = [n \in 0 .. m |-> IF n = 0 THEN unshuffled(rho) ELSE move(rho, n, step[n - 1])]

LEMMA ShuffleExists ==
  ASSUME NEW rho, NEW m \in Nat
  PROVE  \E step : ShuffleRun(rho, m, step)
<1> DEFINE T == {k \in 0 .. m : \E step : ShuffleRun(rho, k, step)}
<1>1. 0 \in T
  <2> DEFINE f == [n \in 0 .. 0 |-> unshuffled(rho)]
  <2>1. \A n \in 0 .. 0 : n = 0
    OBVIOUS
  <2>2. f = [n \in 0 .. 0 |-> IF n = 0 THEN unshuffled(rho) ELSE move(rho, n, f[n - 1])]
    BY <2>1
  <2> HIDE DEF f
  <2>3. ShuffleRun(rho, 0, f)
    BY <2>2, Zenon DEF ShuffleRun
  <2>4. 0 \in 0 .. m
    OBVIOUS
  <2> QED
    BY <2>3, <2>4
<1>2. ASSUME NEW k \in 1 .. m, k - 1 \in T
      PROVE  k \in T
  <2>1. PICK g : ShuffleRun(rho, k - 1, g)
    BY <1>2
  <2> DEFINE f == [n \in 0 .. k |-> IF n = k THEN move(rho, k, g[k - 1]) ELSE g[n]]
  <2>2. \A n \in 0 .. k - 1 : g[n] = IF n = 0 THEN unshuffled(rho) ELSE move(rho, n, g[n - 1])
    BY <2>1, Zenon DEF ShuffleRun
  <2>3. \A n \in 0 .. k : n # 0 => n - 1 \in 0 .. k - 1 /\ f[n - 1] = g[n - 1]
    OBVIOUS
  <2>4. ASSUME NEW n \in 0 .. k
        PROVE  f[n] = IF n = 0 THEN unshuffled(rho) ELSE move(rho, n, f[n - 1])
    <3>1. CASE n = k
      <4>1. f[n] = move(rho, n, g[n - 1]) /\ n # 0
        BY <3>1
      <4> HIDE DEF f
      <4> QED
        BY <2>3, <4>1, Zenon
    <3>2. CASE n # k
      <4>1. f[n] = g[n] /\ n \in 0 .. k - 1
        BY <3>2
      <4> HIDE DEF f
      <4> QED
        BY <2>2, <2>3, <4>1, Zenon
    <3> QED
      BY <3>1, <3>2
  <2>5. f = [n \in 0 .. k |-> f[n]]
    OBVIOUS
  <2> HIDE DEF f
  <2>6. f = [n \in 0 .. k |-> IF n = 0 THEN unshuffled(rho) ELSE move(rho, n, f[n - 1])]
    BY <2>4, <2>5
  <2>7. ShuffleRun(rho, k, f)
    BY <2>6, Zenon DEF ShuffleRun
  <2>8. k \in 0 .. m
    OBVIOUS
  <2> QED
    BY <2>7, <2>8
<1>3. \A k \in 0 .. m : k \in T
  <2> HIDE DEF T
  <2> QED
    BY <1>1, <1>2, UpTo
<1>4. m \in T
  BY <1>3
<1> QED
  BY <1>4

LEMMA ShuffleIs ==
  ASSUME NEW rho
  PROVE  /\ shuffle(rho)[0] = unshuffled(rho)
         /\ \A n \in 1 .. TAU : shuffle(rho)[n] = move(rho, n, shuffle(rho)[n - 1])
<1> DEFINE step == CHOOSE g : ShuffleRun(rho, TAU, g)
<1>1. TAU \in Nat
  BY ParameterSet
<1>2. ShuffleRun(rho, TAU, step)
  BY <1>1, ShuffleExists, Zenon
<1>3. shuffle(rho) = step
  BY Zenon DEF shuffle, ShuffleRun, unshuffled, sign, move
<1> HIDE DEF step
<1>4. \A n \in 0 .. TAU : step[n] = IF n = 0 THEN unshuffled(rho) ELSE move(rho, n, step[n - 1])
  BY <1>2, Zenon DEF ShuffleRun
<1>5. 0 \in 0 .. TAU /\ \A n \in 1 .. TAU : n \in 0 .. TAU /\ n # 0
  BY <1>1
<1> QED
  BY <1>3, <1>4, <1>5, Zenon

LEMMA DrawTyped ==
  ASSUME Squeezed, NEW ctx, NEW i
  PROVE  draw(ctx, i).bytes[1] \in Byte
<1>1. ASSUME NEW g
      PROVE  squeeze(g, 1).bytes[1] \in Byte
  <2> DEFINE b == [n \in 1 .. 1 |-> ShakeByte(Shake(g.function, g.input), g.pos + n - 1)]
             c == [g EXCEPT !.pos = @ + 1]
  <2>1. squeeze(g, 1) = [bytes |-> b, ctx |-> c]
    BY ArrayIs, Zenon DEF squeeze
  <2>2. b[1] \in Byte
    <3>1. 1 \in 1 .. 1
      OBVIOUS
    <3> QED
      BY <3>1, Zenon DEF Squeezed
  <2> HIDE DEF b, c
  <2> QED
    BY <2>1, <2>2
<1> QED
  BY <1>1, Zenon DEF draw
-----------------------------------------------------------------------------
(* The polynomial after n steps: n ones and minus ones, below the last place. *)
Nonzero(c) == {i \in Coeff : c[i] # 0}

Shuffled(c, n) ==
  /\ c \in Polynomial
  /\ \A i \in Coeff : c[i] \in {0, 1, Q - 1}
  /\ \A i \in Coeff : i >= N - TAU + n => c[i] = 0
  /\ IsFiniteSet(Nonzero(c)) /\ Cardinality(Nonzero(c)) = n

LEMMA Placed ==
  ASSUME NEW n \in 1 .. TAU, NEW c, Shuffled(c, n - 1), NEW j \in Nat, j <= top(n), NEW s \in {1, Q - 1}
  PROVE  Shuffled(place(c, top(n), j, s), n)
<1> DEFINE i == top(n)
           d == place(c, i, j, s)
<1>1. N \in Nat /\ TAU \in Nat /\ TAU <= N /\ Q \in Nat /\ Q > 2
  BY Field, ParameterSet
<1>2. i \in Coeff /\ j \in Coeff /\ i >= N - TAU + (n - 1) /\ i = N - TAU + n - 1
  BY <1>1 DEF top, Coeff
<1>3. /\ c \in [Coeff -> Elem] /\ \A k \in Coeff : c[k] \in {0, 1, Q - 1}
      /\ \A k \in Coeff : k >= N - TAU + (n - 1) => c[k] = 0
      /\ IsFiniteSet(Nonzero(c)) /\ Cardinality(Nonzero(c)) = n - 1
  BY Zenon DEF Shuffled, Polynomial
<1>4. c[i] = 0
  BY <1>2, <1>3
<1> HIDE DEF i
<1>5. d = [k \in Coeff |-> IF k = j THEN s ELSE IF k = i THEN c[j] ELSE c[k]]
  BY <1>2, <1>3 DEF place
<1> HIDE DEF d
<1>6. s \in Elem /\ s # 0
  BY <1>1 DEF Elem
<1>7. d \in Polynomial
  BY <1>2, <1>3, <1>5, <1>6 DEF Polynomial
<1>8. \A k \in Coeff : d[k] \in {0, 1, Q - 1}
  BY <1>2, <1>3, <1>5
<1>9. ASSUME NEW k \in Coeff, k >= N - TAU + n
      PROVE  d[k] = 0
  <2>1. k \in Int /\ j \in Int /\ j <= i /\ i < k /\ k >= N - TAU + (n - 1)
    BY <1>1, <1>2, <1>9 DEF Coeff, i
  <2>2. k # i /\ k # j
    BY <1>2, <2>1
  <2>3. c[k] = 0
    BY <1>3, <2>1
  <2> QED
    BY <1>5, <2>2, <2>3
<1>10. \E k \in Coeff : k \notin Nonzero(c) /\ Nonzero(d) = Nonzero(c) \cup {k}
  <2>1. CASE j = i
    <3>1. Nonzero(d) = Nonzero(c) \cup {i} /\ i \notin Nonzero(c)
      BY <1>2, <1>4, <1>5, <1>6, <2>1 DEF Nonzero
    <3> QED
      BY <1>2, <3>1
  <2>2. CASE j # i /\ c[j] = 0
    <3>1. Nonzero(d) = Nonzero(c) \cup {j} /\ j \notin Nonzero(c)
      BY <1>2, <1>4, <1>5, <1>6, <2>2 DEF Nonzero
    <3> QED
      BY <1>2, <3>1
  <2>3. CASE j # i /\ c[j] # 0
    <3>1. Nonzero(d) = Nonzero(c) \cup {i} /\ i \notin Nonzero(c)
      BY <1>2, <1>4, <1>5, <1>6, <2>3 DEF Nonzero
    <3> QED
      BY <1>2, <3>1
  <2> QED
    BY <2>1, <2>2, <2>3
<1>11. IsFiniteSet(Nonzero(d)) /\ Cardinality(Nonzero(d)) = n
  <2>1. PICK k : k \notin Nonzero(c) /\ Nonzero(d) = Nonzero(c) \cup {k}
    BY <1>10
  <2> DEFINE A == Nonzero(c)
  <2>2. IsFiniteSet(A) /\ Cardinality(A) = n - 1 /\ k \notin A
    BY <1>3, <2>1
  <2> HIDE DEF A
  <2>3. IsFiniteSet(A \cup {k}) /\ Cardinality(A \cup {k}) = Cardinality(A) + 1
    BY <2>2, FS_AddElement
  <2>4. (n - 1) + 1 = n
    OBVIOUS
  <2> QED
    BY <2>1, <2>2, <2>3, <2>4 DEF A
<1> QED
  BY <1>7, <1>8, <1>9, <1>11, Zenon DEF Shuffled, d, i

LEMMA ShuffledIs ==
  ASSUME Squeezed, NEW rho,
         \A n \in 1 .. TAU : draw(shuffle(rho)[n - 1].ctx, top(n)).bytes[1] <= top(n)
  PROVE  Shuffled(sample_in_ball(rho), TAU)
<1> DEFINE step == shuffle(rho)
           T == {n \in 0 .. TAU : Shuffled(step[n].c, n)}
<1>1. TAU \in Nat
  BY ParameterSet
<1>2. step[0] = unshuffled(rho) /\ \A n \in 1 .. TAU : step[n] = move(rho, n, step[n - 1])
  BY ShuffleIs
<1>3. \A n \in 1 .. TAU : draw(step[n - 1].ctx, top(n)).bytes[1] <= top(n)
  OBVIOUS
<1>4. sample_in_ball(rho) = step[TAU].c
  BY Zenon DEF sample_in_ball
<1> HIDE DEF step
<1>5. 0 \in T
  <2>1. step[0].c = ZeroPoly
    BY <1>2 DEF unshuffled
  <2>2. Nonzero(ZeroPoly) = {}
    BY DEF Nonzero, ZeroPoly
  <2>3. \A i \in Coeff : ZeroPoly[i] = 0
    BY DEF ZeroPoly
  <2>4. IsFiniteSet({}) /\ Cardinality({}) = 0
    BY FS_EmptySet
  <2>5. Shuffled(ZeroPoly, 0)
    BY <2>2, <2>3, <2>4, ZeroTyped DEF Shuffled
  <2>6. 0 \in 0 .. TAU
    BY <1>1
  <2> QED
    BY <2>1, <2>5, <2>6
<1>6. ASSUME NEW n \in 1 .. TAU, n - 1 \in T
      PROVE  n \in T
  <2> DEFINE p == step[n - 1]
             j == draw(p.ctx, top(n)).bytes[1]
             s == sign(rho, n)
  <2>1. j \in Nat /\ j <= top(n)
    <3>1. j \in Byte
      BY DrawTyped
    <3>2. j <= top(n)
      BY <1>3
    <3> HIDE DEF j
    <3> QED
      BY <3>1, <3>2 DEF Byte
  <2>2. s \in {1, Q - 1}
    BY Zenon DEF sign
  <2>3. Shuffled(p.c, n - 1)
    BY <1>6
  <2>4. step[n].c = place(p.c, top(n), j, s)
    <3>1. step[n] = move(rho, n, p)
      BY <1>2
    <3> DEFINE c == place(p.c, top(n), j, s)
               x == draw(p.ctx, top(n)).ctx
    <3>2. move(rho, n, p) = [c |-> c, ctx |-> x]
      BY Zenon DEF move
    <3> HIDE DEF c, x
    <3>3. move(rho, n, p).c = c
      BY <3>2
    <3> QED
      BY <3>1, <3>3, Zenon DEF c
  <2> HIDE DEF p, j, s
  <2>5. Shuffled(place(p.c, top(n), j, s), n)
    BY <2>1, <2>2, <2>3, Placed
  <2>6. n \in 0 .. TAU
    BY <1>1
  <2> QED
    BY <2>4, <2>5, <2>6
<1>7. \A n \in 0 .. TAU : n \in T
  <2> HIDE DEF T
  <2> QED
    BY <1>1, <1>5, <1>6, UpTo
<1>8. TAU \in T
  BY <1>1, <1>7
<1> QED
  BY <1>4, <1>8

-----------------------------------------------------------------------------
(* x is the residue of the integer e.                                         *)
Is(x, e) == x \in Elem /\ e \in Int /\ \E k \in Int : e = x + Q * k

LEMMA IsSelf ==
  ASSUME NEW x \in Elem
  PROVE  Is(x, x) /\ x \in Int
<1>1. Q \in Nat /\ x \in Int
  BY Field DEF Elem
<1>2. 0 \in Int /\ x = x + Q * 0
  BY <1>1
<1> QED
  BY <1>1, <1>2 DEF Is

LEMMA IsSmall ==
  Is(0, 0) /\ Is(1, 1) /\ Is(Q - 1, -1)
<1>1. Q \in Nat /\ Q > 2
  BY Field
<1>2. 0 \in Elem /\ 1 \in Elem /\ Q - 1 \in Elem
  BY <1>1 DEF Elem
<1>3. -1 \in Int /\ -1 = (Q - 1) + Q * (-1)
  BY <1>1
<1> QED
  BY <1>2, <1>3, IsSelf DEF Is

(* A residue has one value.                                                   *)
LEMMA IsOne ==
  ASSUME NEW x, NEW y, NEW e, Is(x, e), Is(y, e)
  PROVE  x = y
<1>1. PICK k \in Int : e = x + Q * k
  BY DEF Is
<1>2. PICK l \in Int : e = y + Q * l
  BY DEF Is
<1>3. Q \in Nat /\ Q > 2 /\ x \in 0 .. Q - 1 /\ y \in 0 .. Q - 1
  BY Field DEF Is, Elem
<1>4. x - y = Q * (l - k)
  BY <1>1, <1>2, <1>3
<1>5. l - k \in Int /\ x - y \in Int /\ x - y < Q /\ x - y > -Q
  BY <1>3
<1>6. l - k = 0
  <2> DEFINE m == l - k
  <2>1. m \in Int /\ x - y = Q * m
    BY <1>4, <1>5
  <2> HIDE DEF m
  <2>2. ~(m >= 1)
    <3> SUFFICES ASSUME m >= 1 PROVE FALSE
      OBVIOUS
    <3>1. m \in Nat /\ 1 * Q <= m * Q
      BY <1>3, <2>1, MulMono
    <3> QED
      BY <1>3, <1>5, <2>1, <3>1
  <2>3. ~(m <= -1)
    <3> SUFFICES ASSUME m <= -1 PROVE FALSE
      OBVIOUS
    <3>1. -m \in Nat /\ 1 * Q <= (-m) * Q
      BY <1>3, <2>1, MulMono
    <3>2. (-m) * Q = -(Q * m)
      BY <1>3, <2>1
    <3> QED
      BY <1>3, <1>5, <2>1, <3>1, <3>2
  <2> QED
    BY <2>1, <2>2, <2>3 DEF m
<1> QED
  BY <1>3, <1>4, <1>6

LEMMA IsMod ==
  ASSUME NEW e \in Int
  PROVE  Is(e % Q, e)
<1>1. Q \in Nat \ {0}
  BY Field
<1>2. e % Q \in 0 .. Q - 1 /\ e \div Q \in Int /\ e = Q * (e \div Q) + (e % Q)
  BY <1>1
<1>3. e = (e % Q) + Q * (e \div Q)
  BY <1>1, <1>2
<1> QED
  BY <1>2, <1>3 DEF Is, Elem

LEMMA IsResidue ==
  ASSUME NEW x, NEW e, Is(x, e)
  PROVE  x = e % Q
<1>1. e \in Int
  BY DEF Is
<1> QED
  BY <1>1, IsMod, IsOne

(* Multiples of Q do not matter.                                              *)
LEMMA IsUpTo ==
  ASSUME NEW x, NEW e, Is(x, e), NEW k \in Int, NEW f, f = e + Q * k
  PROVE  Is(x, f)
<1>1. PICK l \in Int : e = x + Q * l
  BY DEF Is
<1>2. Q \in Nat /\ x \in Int /\ e \in Int
  BY Field DEF Is, Elem
<1>3. l + k \in Int /\ f \in Int /\ f = x + Q * (l + k)
  BY <1>1, <1>2
<1> QED
  BY <1>3 DEF Is

LEMMA IsOps ==
  ASSUME NEW x, NEW e, NEW y, NEW f, Is(x, e), Is(y, f)
  PROVE  /\ Is(ElemAdd(x, y), e + f) /\ Is(ElemSub(x, y), e - f)
         /\ Is(ElemNeg(x), -e) /\ Is(ElemMul(x, y), e * f)
<1>1. PICK k \in Int : e = x + Q * k
  BY DEF Is
<1>2. PICK l \in Int : f = y + Q * l
  BY DEF Is
<1>3. Q \in Nat /\ x \in Int /\ y \in Int /\ x \in Elem /\ y \in Elem
  BY Field DEF Is, Elem
<1>4. /\ ElemAdd(x, y) = (x + y) % Q /\ ElemSub(x, y) = (x - y) % Q
      /\ ElemNeg(x) = (-x) % Q /\ ElemMul(x, y) = (x * y) % Q
  BY <1>3, FieldOps
<1>5. /\ Is(ElemAdd(x, y), x + y) /\ Is(ElemSub(x, y), x - y)
      /\ Is(ElemNeg(x), -x) /\ Is(ElemMul(x, y), x * y)
  <2>1. x + y \in Int /\ x - y \in Int /\ -x \in Int /\ x * y \in Int
    BY <1>3
  <2>2. /\ Is((x + y) % Q, x + y) /\ Is((x - y) % Q, x - y)
        /\ Is((-x) % Q, -x) /\ Is((x * y) % Q, x * y)
    BY <2>1, IsMod
  <2> QED
    BY <1>4, <2>2
<1>6. /\ k + l \in Int /\ e + f = (x + y) + Q * (k + l)
      /\ k - l \in Int /\ e - f = (x - y) + Q * (k - l)
      /\ -k \in Int /\ -e = (-x) + Q * (-k)
  BY <1>1, <1>2, <1>3
<1>7. /\ x * l + k * y + Q * (k * l) \in Int
      /\ e * f = x * y + Q * (x * l + k * y + Q * (k * l))
  BY <1>1, <1>2, <1>3
<1>8. Is(ElemAdd(x, y), e + f) /\ Is(ElemSub(x, y), e - f)
  BY <1>5, <1>6, IsUpTo
<1>9. Is(ElemNeg(x), -e)
  BY <1>5, <1>6, IsUpTo
<1>10. Is(ElemMul(x, y), e * f)
  BY <1>5, <1>7, IsUpTo
<1> QED
  BY <1>8, <1>9, <1>10
-----------------------------------------------------------------------------
(* What the layers need of the field.                                         *)
SumsScale(a, b, c, d, x, z) ==
  /\ ElemAdd(ElemAdd(a, ElemMul(x, c)), ElemMul(z, ElemAdd(b, ElemMul(x, d))))
       = ElemAdd(ElemAdd(a, ElemMul(z, b)), ElemMul(x, ElemAdd(c, ElemMul(z, d))))
  /\ ElemSub(ElemAdd(a, ElemMul(x, c)), ElemMul(z, ElemAdd(b, ElemMul(x, d))))
       = ElemAdd(ElemSub(a, ElemMul(z, b)), ElemMul(x, ElemSub(c, ElemMul(z, d))))

LEMMA SumOfMultiples ==
  ASSUME NEW a \in Elem, NEW c \in Elem, NEW b \in Elem, NEW d \in Elem, NEW x \in Elem, NEW z \in Elem
  PROVE  SumsScale(a, b, c, d, x, z)
<1>1. Is(a, a) /\ Is(b, b) /\ Is(c, c) /\ Is(d, d) /\ Is(x, x) /\ Is(z, z)
  BY IsSelf
<1>2. a \in Int /\ b \in Int /\ c \in Int /\ d \in Int /\ x \in Int /\ z \in Int
  BY IsSelf
<1>3. Is(ElemAdd(a, ElemMul(x, c)), a + x * c) /\ Is(ElemAdd(b, ElemMul(x, d)), b + x * d)
  BY <1>1, IsOps
<1>4. Is(ElemMul(z, ElemAdd(b, ElemMul(x, d))), z * (b + x * d))
  BY <1>1, <1>3, IsOps
<1>5. /\ Is(ElemMul(z, b), z * b) /\ Is(ElemMul(z, d), z * d)
  BY <1>1, IsOps
<1>6. /\ Is(ElemAdd(a, ElemMul(z, b)), a + z * b) /\ Is(ElemSub(a, ElemMul(z, b)), a - z * b)
      /\ Is(ElemAdd(c, ElemMul(z, d)), c + z * d) /\ Is(ElemSub(c, ElemMul(z, d)), c - z * d)
  BY <1>1, <1>5, IsOps
<1>7. /\ Is(ElemMul(x, ElemAdd(c, ElemMul(z, d))), x * (c + z * d))
      /\ Is(ElemMul(x, ElemSub(c, ElemMul(z, d))), x * (c - z * d))
  BY <1>1, <1>6, IsOps
<1>8. /\ Is(ElemAdd(ElemAdd(a, ElemMul(x, c)), ElemMul(z, ElemAdd(b, ElemMul(x, d)))),
            (a + x * c) + z * (b + x * d))
      /\ Is(ElemSub(ElemAdd(a, ElemMul(x, c)), ElemMul(z, ElemAdd(b, ElemMul(x, d)))),
            (a + x * c) - z * (b + x * d))
  BY <1>3, <1>4, IsOps
<1>9. /\ Is(ElemAdd(ElemAdd(a, ElemMul(z, b)), ElemMul(x, ElemAdd(c, ElemMul(z, d)))),
            (a + z * b) + x * (c + z * d))
      /\ Is(ElemAdd(ElemSub(a, ElemMul(z, b)), ElemMul(x, ElemSub(c, ElemMul(z, d)))),
            (a - z * b) + x * (c - z * d))
  BY <1>6, <1>7, IsOps
<1>10. /\ (a + x * c) + z * (b + x * d) = (a + z * b) + x * (c + z * d)
       /\ (a + x * c) - z * (b + x * d) = (a - z * b) + x * (c - z * d)
  BY <1>2
<1> QED
  BY <1>8, <1>9, <1>10, IsOne DEF SumsScale

DifferencesScale(a, b, c, d, x, z) ==
  /\ ElemAdd(ElemAdd(a, ElemMul(x, c)), ElemAdd(b, ElemMul(x, d)))
       = ElemAdd(ElemAdd(a, b), ElemMul(x, ElemAdd(c, d)))
  /\ ElemMul(z, ElemSub(ElemAdd(a, ElemMul(x, c)), ElemAdd(b, ElemMul(x, d))))
       = ElemAdd(ElemMul(z, ElemSub(a, b)), ElemMul(x, ElemMul(z, ElemSub(c, d))))

LEMMA DifferenceOfMultiples ==
  ASSUME NEW a \in Elem, NEW c \in Elem, NEW b \in Elem, NEW d \in Elem, NEW x \in Elem, NEW z \in Elem
  PROVE  DifferencesScale(a, b, c, d, x, z)
<1>1. Is(a, a) /\ Is(b, b) /\ Is(c, c) /\ Is(d, d) /\ Is(x, x) /\ Is(z, z)
  BY IsSelf
<1>2. a \in Int /\ b \in Int /\ c \in Int /\ d \in Int /\ x \in Int /\ z \in Int
  BY IsSelf
<1>3. Is(ElemAdd(a, ElemMul(x, c)), a + x * c) /\ Is(ElemAdd(b, ElemMul(x, d)), b + x * d)
  BY <1>1, IsOps
<1>4. /\ Is(ElemAdd(a, b), a + b) /\ Is(ElemAdd(c, d), c + d)
      /\ Is(ElemSub(a, b), a - b) /\ Is(ElemSub(c, d), c - d)
  BY <1>1, IsOps
<1>5. /\ Is(ElemMul(x, ElemAdd(c, d)), x * (c + d)) /\ Is(ElemMul(z, ElemSub(a, b)), z * (a - b))
      /\ Is(ElemMul(z, ElemSub(c, d)), z * (c - d))
  BY <1>1, <1>4, IsOps
<1>6. Is(ElemMul(x, ElemMul(z, ElemSub(c, d))), x * (z * (c - d)))
  BY <1>1, <1>5, IsOps
<1>7. /\ Is(ElemAdd(ElemAdd(a, b), ElemMul(x, ElemAdd(c, d))), (a + b) + x * (c + d))
      /\ Is(ElemAdd(ElemMul(z, ElemSub(a, b)), ElemMul(x, ElemMul(z, ElemSub(c, d)))),
            z * (a - b) + x * (z * (c - d)))
  BY <1>4, <1>5, <1>6, IsOps
<1>8. /\ Is(ElemAdd(ElemAdd(a, ElemMul(x, c)), ElemAdd(b, ElemMul(x, d))), (a + x * c) + (b + x * d))
      /\ Is(ElemSub(ElemAdd(a, ElemMul(x, c)), ElemAdd(b, ElemMul(x, d))), (a + x * c) - (b + x * d))
  BY <1>3, IsOps
<1>9. Is(ElemMul(z, ElemSub(ElemAdd(a, ElemMul(x, c)), ElemAdd(b, ElemMul(x, d)))),
         z * ((a + x * c) - (b + x * d)))
  BY <1>1, <1>8, IsOps
<1>10. /\ (a + x * c) + (b + x * d) = (a + b) + x * (c + d)
       /\ z * ((a + x * c) - (b + x * d)) = z * (a - b) + x * (z * (c - d))
  BY <1>2
<1> QED
  BY <1>7, <1>8, <1>9, <1>10, IsOne DEF DifferencesScale

-----------------------------------------------------------------------------
(* One layer of B blocks of two halves of len, without the count of roots.    *)
fwd(B, len, w) ==
  [j \in Coeff |->
     IF Low(j, len) THEN ElemAdd(w[j], ElemMul(ZETA_POW_BITREV[B + (j \div (2 * len))], w[j + len]))
     ELSE ElemSub(w[j - len], ElemMul(ZETA_POW_BITREV[B + (j \div (2 * len))], w[j]))]

bwd(B, len, w) ==
  [j \in Coeff |->
     IF Low(j, len) THEN ElemAdd(w[j], w[j + len])
     ELSE ElemMul(ElemNeg(ZETA_POW_BITREV[2 * B - 1 - (j \div (2 * len))]), ElemSub(w[j - len], w[j]))]

LEMMA LayerIs ==
  ASSUME NEW len \in Nat \ {0}, NEW B \in Nat \ {0}, N = B * (2 * len), NEW s
  PROVE  /\ s.m = B - 1 => ntt_layer(len, s).w = fwd(B, len, s.w)
         /\ s.m = 2 * B => ntt_inverse_layer(len, s).w = bwd(B, len, s.w)
<1> DEFINE q(j) == j \div (2 * len)
<1>1. \A j \in Coeff : q(j) \in Nat
  <2>1. ASSUME NEW j \in Coeff
        PROVE  q(j) \in 0 .. B - 1
    BY Blocks
  <2> HIDE DEF q
  <2> QED
    BY <2>1
<1>2. ASSUME s.m = B - 1
      PROVE  ntt_layer(len, s).w = fwd(B, len, s.w)
  <2> DEFINE c(j) == IF Low(j, len) THEN ElemAdd(s.w[j], ElemMul(ZETA_POW_BITREV[s.m + 1 + q(j)], s.w[j + len]))
                     ELSE ElemSub(s.w[j - len], ElemMul(ZETA_POW_BITREV[s.m + 1 + q(j)], s.w[j]))
             e(j) == IF Low(j, len) THEN ElemAdd(s.w[j], ElemMul(ZETA_POW_BITREV[B + q(j)], s.w[j + len]))
                     ELSE ElemSub(s.w[j - len], ElemMul(ZETA_POW_BITREV[B + q(j)], s.w[j]))
             m == s.m + N \div (2 * len)
  <2>1. ntt_layer(len, s) = [w |-> [j \in Coeff |-> c(j)], m |-> m]
    BY ArrayIs, Zenon DEF ntt_layer
  <2>2. \A j \in Coeff : s.m + 1 + q(j) = B + q(j)
    <3> HIDE DEF q
    <3> QED
      BY <1>1, <1>2
  <2>3. \A j \in Coeff : c(j) = e(j)
    BY <2>2, Zenon
  <2>4. fwd(B, len, s.w) = [j \in Coeff |-> e(j)]
    BY Zenon DEF fwd
  <2> HIDE DEF c, e, m
  <2>5. ntt_layer(len, s).w = [j \in Coeff |-> c(j)]
    BY <2>1
  <2> QED
    BY <2>3, <2>4, <2>5
<1>3. ASSUME s.m = 2 * B
      PROVE  ntt_inverse_layer(len, s).w = bwd(B, len, s.w)
  <2> DEFINE c(j) == IF Low(j, len) THEN ElemAdd(s.w[j], s.w[j + len])
                     ELSE ElemMul(ElemNeg(ZETA_POW_BITREV[s.m - 1 - q(j)]), ElemSub(s.w[j - len], s.w[j]))
             e(j) == IF Low(j, len) THEN ElemAdd(s.w[j], s.w[j + len])
                     ELSE ElemMul(ElemNeg(ZETA_POW_BITREV[2 * B - 1 - q(j)]), ElemSub(s.w[j - len], s.w[j]))
             m == s.m - N \div (2 * len)
  <2>1. ntt_inverse_layer(len, s) = [w |-> [j \in Coeff |-> c(j)], m |-> m]
    BY ArrayIs, Zenon DEF ntt_inverse_layer
  <2>3. \A j \in Coeff : c(j) = e(j)
    BY <1>3, Zenon
  <2>4. bwd(B, len, s.w) = [j \in Coeff |-> e(j)]
    BY Zenon DEF bwd
  <2> HIDE DEF c, e, m
  <2>5. ntt_inverse_layer(len, s).w = [j \in Coeff |-> c(j)]
    BY <2>1
  <2> QED
    BY <2>3, <2>4, <2>5
<1> QED
  BY <1>2, <1>3

(* The coefficients after each layer.                                         *)
Up(f, u) ==
  /\ u \in [0 .. LOGN -> Polynomial] /\ u[0] = f
  /\ \A n \in 1 .. LOGN : u[n] = fwd(2^(n - 1), 2^(LOGN - n), u[n - 1])
Down(f, d) ==
  /\ d \in [0 .. LOGN -> Polynomial] /\ d[0] = f
  /\ \A n \in 1 .. LOGN : d[n] = bwd(2^(LOGN - n), 2^(n - 1), d[n - 1])

LEMMA UpIs ==
  ASSUME NEW f \in Polynomial
  PROVE  \E u : Up(f, u) /\ ntt(f) = u[LOGN]
<1>1. PICK s : /\ ForwardRun(f, s) /\ ntt(f) = s[LOGN].w
               /\ \A n \in 0 .. LOGN : s[n] \in Forward[n]
  BY NttIs
<1>2. LOGN \in 3 .. 29 /\ 0 \in 0 .. LOGN /\ LOGN \in 0 .. LOGN
  BY Lengths
<1>3. \A n \in 0 .. LOGN : s[n] = IF n = 0 THEN [w |-> f, m |-> 0] ELSE ntt_layer(2^(LOGN - n), s[n - 1])
  BY <1>1, Zenon DEF ForwardRun
<1>4. \A n \in 0 .. LOGN : s[n].w \in Polynomial /\ s[n].m = 2^n - 1
  BY <1>1 DEF Forward
<1> DEFINE u == [n \in 0 .. LOGN |-> s[n].w]
<1>5. u \in [0 .. LOGN -> Polynomial]
  BY <1>4
<1>6. u[0] = f
  <2>1. s[0] = [w |-> f, m |-> 0]
    BY <1>2, <1>3, Zenon
  <2> QED
    BY <1>2, <2>1
<1>7. ASSUME NEW n \in 1 .. LOGN
      PROVE  u[n] = fwd(2^(n - 1), 2^(LOGN - n), u[n - 1])
  <2>1. n \in 0 .. LOGN /\ n - 1 \in 0 .. LOGN /\ n # 0
    BY <1>2
  <2> DEFINE B == 2^(n - 1)
             len == 2^(LOGN - n)
  <2>2. B \in Nat \ {0} /\ len \in Nat \ {0} /\ N = B * (2 * len)
    BY LayerSizes
  <2>3. s[n - 1].m = B - 1
    BY <1>4, <2>1
  <2>4. s[n] = ntt_layer(len, s[n - 1])
    BY <1>3, <2>1, Zenon
  <2> HIDE DEF B, len
  <2>5. s[n].w = fwd(B, len, s[n - 1].w)
    BY <2>2, <2>3, <2>4, LayerIs
  <2>6. u[n] = s[n].w /\ u[n - 1] = s[n - 1].w
    BY <2>1
  <2> QED
    BY <2>5, <2>6, Zenon DEF B, len
<1>8. ntt(f) = u[LOGN]
  BY <1>1, <1>2
<1> HIDE DEF u
<1>9. Up(f, u)
  BY <1>5, <1>6, <1>7, Zenon DEF Up
<1> QED
  BY <1>8, <1>9, Zenon

LEMMA DownIs ==
  ASSUME NEW f \in Polynomial
  PROVE  \E d : Down(f, d) /\ ntt_inverse(f) = PolyScale(INVERSE_N, d[LOGN])
<1>1. PICK s : /\ BackwardRun(f, s) /\ ntt_inverse(f) = PolyScale(INVERSE_N, s[LOGN].w)
               /\ \A n \in 0 .. LOGN : s[n] \in Backward[n]
  BY InverseIs
<1>2. LOGN \in 3 .. 29 /\ 0 \in 0 .. LOGN /\ LOGN \in 0 .. LOGN
  BY Lengths
<1>3. \A n \in 0 .. LOGN : s[n] = IF n = 0 THEN [w |-> f, m |-> N] ELSE ntt_inverse_layer(2^(n - 1), s[n - 1])
  BY <1>1, Zenon DEF BackwardRun
<1>4. \A n \in 0 .. LOGN : s[n].w \in Polynomial /\ s[n].m = 2^(LOGN - n)
  BY <1>1 DEF Backward
<1> DEFINE u == [n \in 0 .. LOGN |-> s[n].w]
<1>5. u \in [0 .. LOGN -> Polynomial]
  BY <1>4
<1>6. u[0] = f
  <2>1. s[0] = [w |-> f, m |-> N]
    BY <1>2, <1>3, Zenon
  <2> QED
    BY <1>2, <2>1
<1>7. ASSUME NEW n \in 1 .. LOGN
      PROVE  u[n] = bwd(2^(LOGN - n), 2^(n - 1), u[n - 1])
  <2>1. n \in 0 .. LOGN /\ n - 1 \in 0 .. LOGN /\ n # 0
    BY <1>2
  <2> DEFINE B == 2^(LOGN - n)
             len == 2^(n - 1)
             k == LOGN - (n - 1)
  <2>2. k \in 1 .. LOGN /\ LOGN - k = n - 1 /\ k - 1 = LOGN - n
    BY <1>2
  <2>3. B \in Nat \ {0} /\ len \in Nat \ {0} /\ N = B * (2 * len) /\ 2^k = 2 * B
    <3> HIDE DEF k
    <3>1. /\ 2^(LOGN - k) \in Nat \ {0} /\ 2^(k - 1) \in Nat \ {0}
          /\ N = 2^(k - 1) * (2 * 2^(LOGN - k)) /\ 2^k = 2 * 2^(k - 1)
      BY <2>2, LayerSizes
    <3> QED
      BY <2>2, <3>1
  <2>4. s[n - 1].m = 2 * B
    BY <1>4, <2>1, <2>3, Zenon
  <2>5. s[n] = ntt_inverse_layer(len, s[n - 1])
    BY <1>3, <2>1, Zenon
  <2> HIDE DEF B, len
  <2>6. s[n].w = bwd(B, len, s[n - 1].w)
    BY <2>3, <2>4, <2>5, LayerIs
  <2>7. u[n] = s[n].w /\ u[n - 1] = s[n - 1].w
    BY <2>1
  <2> QED
    BY <2>6, <2>7, Zenon DEF B, len
<1>8. ntt_inverse(f) = PolyScale(INVERSE_N, u[LOGN])
  BY <1>1, <1>2
<1> HIDE DEF u
<1>9. Down(f, u)
  BY <1>5, <1>6, <1>7, Zenon DEF Down
<1> QED
  BY <1>8, <1>9, Zenon

(* What a layer reads.                                                        *)
LEMMA CellsRead ==
  ASSUME NEW len \in Nat \ {0}, NEW B \in Nat \ {0}, N = B * (2 * len), NEW w \in Polynomial,
         NEW j \in Coeff
  PROVE  LET z == ZETA_POW_BITREV[B + (j \div (2 * len))]
             y == ZETA_POW_BITREV[2 * B - 1 - (j \div (2 * len))]
         IN /\ z \in Elem /\ y \in Elem /\ w[j] \in Elem
            /\ Low(j, len) =>
                 /\ j + len \in Coeff /\ w[j + len] \in Elem
                 /\ fwd(B, len, w)[j] = ElemAdd(w[j], ElemMul(z, w[j + len]))
                 /\ bwd(B, len, w)[j] = ElemAdd(w[j], w[j + len])
            /\ ~Low(j, len) =>
                 /\ j - len \in Coeff /\ w[j - len] \in Elem
                 /\ fwd(B, len, w)[j] = ElemSub(w[j - len], ElemMul(z, w[j]))
                 /\ bwd(B, len, w)[j] = ElemMul(ElemNeg(y), ElemSub(w[j - len], w[j]))
<1> DEFINE q == j \div (2 * len)
           z == ZETA_POW_BITREV[B + q]
           y == ZETA_POW_BITREV[2 * B - 1 - q]
<1>1. /\ q \in 0 .. B - 1
      /\ Low(j, len) => j + len \in Coeff
      /\ ~Low(j, len) => j - len \in Coeff
  BY Blocks
<1>2. \A i \in Coeff : w[i] \in Elem
  BY DEF Polynomial
<1> HIDE DEF q
<1>3. B + q \in Coeff /\ 2 * B - 1 - q \in Coeff
  <2>1. 2 * B <= N
    <3>1. 1 * (2 * B) <= len * (2 * B)
      BY MulMono
    <3>2. N = len * (2 * B)
      OBVIOUS
    <3> QED
      BY <3>1, <3>2
  <2> QED
    BY <1>1, <2>1, Field DEF Coeff
<1>4. z \in Elem /\ y \in Elem
  BY <1>3, RootsTyped
<1>5. fwd(B, len, w)[j] = IF Low(j, len) THEN ElemAdd(w[j], ElemMul(z, w[j + len]))
                          ELSE ElemSub(w[j - len], ElemMul(z, w[j]))
  BY Zenon DEF fwd, z, q
<1>6. bwd(B, len, w)[j] = IF Low(j, len) THEN ElemAdd(w[j], w[j + len])
                          ELSE ElemMul(ElemNeg(y), ElemSub(w[j - len], w[j]))
  BY Zenon DEF bwd, y, q
<1> HIDE DEF z, y
<1>7. /\ Low(j, len) =>
           /\ j + len \in Coeff /\ w[j + len] \in Elem
           /\ fwd(B, len, w)[j] = ElemAdd(w[j], ElemMul(z, w[j + len]))
           /\ bwd(B, len, w)[j] = ElemAdd(w[j], w[j + len])
      /\ ~Low(j, len) =>
           /\ j - len \in Coeff /\ w[j - len] \in Elem
           /\ fwd(B, len, w)[j] = ElemSub(w[j - len], ElemMul(z, w[j]))
           /\ bwd(B, len, w)[j] = ElemMul(ElemNeg(y), ElemSub(w[j - len], w[j]))
  BY <1>1, <1>2, <1>5, <1>6, Zenon
<1> QED
  BY <1>2, <1>4, <1>7, Zenon DEF z, y, q

-----------------------------------------------------------------------------
LEMMA ElemClosed ==
  \A x, y \in Elem : /\ ElemAdd(x, y) \in Elem /\ ElemSub(x, y) \in Elem
                      /\ ElemNeg(x) \in Elem /\ ElemMul(x, y) \in Elem
BY FieldOps

(* f + x g.                                                                   *)
Combined(f, x, g) == [j \in Coeff |-> ElemAdd(f[j], ElemMul(x, g[j]))]

LEMMA CombinedTyped ==
  ASSUME NEW f \in Polynomial, NEW g \in Polynomial, NEW x \in Elem
  PROVE  /\ Combined(f, x, g) \in Polynomial
         /\ \A j \in Coeff : Combined(f, x, g)[j] = ElemAdd(f[j], ElemMul(x, g[j]))
<1>1. ASSUME NEW j \in Coeff
      PROVE  ElemAdd(f[j], ElemMul(x, g[j])) \in Elem
  <2>1. f[j] \in Elem /\ g[j] \in Elem
    BY DEF Polynomial
  <2>2. ElemMul(x, g[j]) \in Elem
    BY <2>1, FieldOps
  <2> QED
    BY <2>1, <2>2, FieldOps
<1> QED
  BY <1>1 DEF Combined, Polynomial

(* Coefficient j of w through a layer forward and back, z and m its roots.    *)
Cell(len, j, w, z, m, fw, bw) ==
  /\ w[j] \in Elem
  /\ Low(j, len) =>
       /\ j + len \in Coeff /\ w[j + len] \in Elem
       /\ fw[j] = ElemAdd(w[j], ElemMul(z, w[j + len]))
       /\ bw[j] = ElemAdd(w[j], w[j + len])
  /\ ~Low(j, len) =>
       /\ j - len \in Coeff /\ w[j - len] \in Elem
       /\ fw[j] = ElemSub(w[j - len], ElemMul(z, w[j]))
       /\ bw[j] = ElemMul(m, ElemSub(w[j - len], w[j]))

RootAt(B, len, j) == ZETA_POW_BITREV[B + (j \div (2 * len))]
BackRootAt(B, len, j) == ElemNeg(ZETA_POW_BITREV[2 * B - 1 - (j \div (2 * len))])

LEMMA CellIs ==
  ASSUME NEW len \in Nat \ {0}, NEW B \in Nat \ {0}, N = B * (2 * len), NEW w \in Polynomial,
         NEW j \in Coeff
  PROVE  /\ RootAt(B, len, j) \in Elem /\ BackRootAt(B, len, j) \in Elem
         /\ Cell(len, j, w, RootAt(B, len, j), BackRootAt(B, len, j), fwd(B, len, w), bwd(B, len, w))
<1> DEFINE z == ZETA_POW_BITREV[B + (j \div (2 * len))]
           y == ZETA_POW_BITREV[2 * B - 1 - (j \div (2 * len))]
<1>1. /\ z \in Elem /\ y \in Elem /\ w[j] \in Elem
      /\ Low(j, len) =>
           /\ j + len \in Coeff /\ w[j + len] \in Elem
           /\ fwd(B, len, w)[j] = ElemAdd(w[j], ElemMul(z, w[j + len]))
           /\ bwd(B, len, w)[j] = ElemAdd(w[j], w[j + len])
      /\ ~Low(j, len) =>
           /\ j - len \in Coeff /\ w[j - len] \in Elem
           /\ fwd(B, len, w)[j] = ElemSub(w[j - len], ElemMul(z, w[j]))
           /\ bwd(B, len, w)[j] = ElemMul(ElemNeg(y), ElemSub(w[j - len], w[j]))
  BY CellsRead
<1>2. RootAt(B, len, j) = z /\ BackRootAt(B, len, j) = ElemNeg(y)
  BY Zenon DEF RootAt, BackRootAt
<1> HIDE DEF z, y
<1>3. ElemNeg(y) \in Elem
  BY <1>1, FieldOps
<1> QED
  BY <1>1, <1>2, <1>3, Zenon DEF Cell

LEMMA LayerTyped ==
  ASSUME NEW len \in Nat \ {0}, NEW B \in Nat \ {0}, N = B * (2 * len), NEW w \in Polynomial
  PROVE  fwd(B, len, w) \in Polynomial /\ bwd(B, len, w) \in Polynomial
<1>1. ASSUME NEW j \in Coeff
      PROVE  fwd(B, len, w)[j] \in Elem /\ bwd(B, len, w)[j] \in Elem
  <2> DEFINE z == RootAt(B, len, j)
             m == BackRootAt(B, len, j)
             fw == fwd(B, len, w)
             bw == bwd(B, len, w)
  <2>1. z \in Elem /\ m \in Elem /\ Cell(len, j, w, z, m, fw, bw)
    BY CellIs, Zenon
  <2> HIDE DEF z, m, fw, bw
  <2>2. CASE Low(j, len)
    <3>1. /\ w[j] \in Elem /\ w[j + len] \in Elem /\ bw[j] = ElemAdd(w[j], w[j + len])
          /\ fw[j] = ElemAdd(w[j], ElemMul(z, w[j + len]))
      BY <2>1, <2>2, Zenon DEF Cell
    <3>2. ElemMul(z, w[j + len]) \in Elem
      BY <2>1, <3>1, FieldOps
    <3>3. fw[j] \in Elem /\ bw[j] \in Elem
      BY <3>1, <3>2, ElemClosed, Zenon
    <3> QED
      BY <3>3 DEF fw, bw
  <2>3. CASE ~Low(j, len)
    <3>1. /\ w[j] \in Elem /\ w[j - len] \in Elem /\ bw[j] = ElemMul(m, ElemSub(w[j - len], w[j]))
          /\ fw[j] = ElemSub(w[j - len], ElemMul(z, w[j]))
      BY <2>1, <2>3, Zenon DEF Cell
    <3>2. ElemMul(z, w[j]) \in Elem /\ ElemSub(w[j - len], w[j]) \in Elem
      BY <2>1, <3>1, FieldOps
    <3>3. fw[j] \in Elem /\ bw[j] \in Elem
      BY <2>1, <3>1, <3>2, ElemClosed, Zenon
    <3> QED
      BY <3>3 DEF fw, bw
  <2> QED
    BY <2>2, <2>3
<1>2. fwd(B, len, w) = [j \in Coeff |-> fwd(B, len, w)[j]]
  BY DEF fwd
<1>3. bwd(B, len, w) = [j \in Coeff |-> bwd(B, len, w)[j]]
  BY DEF bwd
<1> QED
  BY <1>1, <1>2, <1>3 DEF Polynomial

LEMMA LayerCombined ==
  ASSUME NEW len \in Nat \ {0}, NEW B \in Nat \ {0}, N = B * (2 * len),
         NEW f \in Polynomial, NEW g \in Polynomial, NEW x \in Elem
  PROVE  /\ fwd(B, len, Combined(f, x, g)) = Combined(fwd(B, len, f), x, fwd(B, len, g))
         /\ bwd(B, len, Combined(f, x, g)) = Combined(bwd(B, len, f), x, bwd(B, len, g))
<1> DEFINE h == Combined(f, x, g)
           ff == fwd(B, len, f)
           fg == fwd(B, len, g)
           fh == fwd(B, len, h)
           bf == bwd(B, len, f)
           bg == bwd(B, len, g)
           bh == bwd(B, len, h)
<1>1. /\ h \in Polynomial
      /\ \A j \in Coeff : h[j] = ElemAdd(f[j], ElemMul(x, g[j]))
  BY CombinedTyped
<1> HIDE DEF h
<1>2. fh \in Polynomial /\ bh \in Polynomial
  BY <1>1, LayerTyped
<1>3. ASSUME NEW j \in Coeff
      PROVE  /\ fh[j] = ElemAdd(ff[j], ElemMul(x, fg[j]))
             /\ bh[j] = ElemAdd(bf[j], ElemMul(x, bg[j]))
  <2> DEFINE z == RootAt(B, len, j)
             m == BackRootAt(B, len, j)
  <2>1. /\ z \in Elem /\ m \in Elem
        /\ Cell(len, j, f, z, m, ff, bf) /\ Cell(len, j, g, z, m, fg, bg)
        /\ Cell(len, j, h, z, m, fh, bh)
    BY <1>1, CellIs, Zenon
  <2> HIDE DEF z, m, ff, fg, fh, bf, bg, bh
  <2>2. CASE Low(j, len)
    <3> DEFINE a == f[j]
               b == f[j + len]
               c == g[j]
               d == g[j + len]
    <3>1. /\ ff[j] = ElemAdd(a, ElemMul(z, b)) /\ bf[j] = ElemAdd(a, b)
          /\ fg[j] = ElemAdd(c, ElemMul(z, d)) /\ bg[j] = ElemAdd(c, d)
          /\ fh[j] = ElemAdd(h[j], ElemMul(z, h[j + len])) /\ bh[j] = ElemAdd(h[j], h[j + len])
          /\ a \in Elem /\ b \in Elem /\ c \in Elem /\ d \in Elem /\ j + len \in Coeff
      BY <2>1, <2>2, Zenon DEF Cell
    <3>2. h[j] = ElemAdd(a, ElemMul(x, c)) /\ h[j + len] = ElemAdd(b, ElemMul(x, d))
      BY <1>1, <3>1
    <3> HIDE DEF a, b, c, d
    <3>3. a \in Elem /\ b \in Elem /\ c \in Elem /\ d \in Elem /\ x \in Elem /\ z \in Elem /\ m \in Elem
      BY <2>1, <3>1
    <3>4. SumsScale(a, b, c, d, x, z) /\ DifferencesScale(a, b, c, d, x, m)
      BY ONLY <3>3, SumOfMultiples, DifferenceOfMultiples
    <3>5. ElemAdd(ElemAdd(a, ElemMul(x, c)), ElemMul(z, ElemAdd(b, ElemMul(x, d))))
               = ElemAdd(ElemAdd(a, ElemMul(z, b)), ElemMul(x, ElemAdd(c, ElemMul(z, d))))
      BY <3>4, Zenon DEF SumsScale
    <3>6. ElemAdd(ElemAdd(a, ElemMul(x, c)), ElemAdd(b, ElemMul(x, d)))
               = ElemAdd(ElemAdd(a, b), ElemMul(x, ElemAdd(c, d)))
      BY <3>4, Zenon DEF DifferencesScale
    <3> QED
      BY <3>1, <3>2, <3>5, <3>6, Zenon
  <2>3. CASE ~Low(j, len)
    <3> DEFINE a == f[j - len]
               b == f[j]
               c == g[j - len]
               d == g[j]
    <3>1. /\ ff[j] = ElemSub(a, ElemMul(z, b)) /\ bf[j] = ElemMul(m, ElemSub(a, b))
          /\ fg[j] = ElemSub(c, ElemMul(z, d)) /\ bg[j] = ElemMul(m, ElemSub(c, d))
          /\ fh[j] = ElemSub(h[j - len], ElemMul(z, h[j])) /\ bh[j] = ElemMul(m, ElemSub(h[j - len], h[j]))
          /\ a \in Elem /\ b \in Elem /\ c \in Elem /\ d \in Elem /\ j - len \in Coeff
      BY <2>1, <2>3, Zenon DEF Cell
    <3>2. h[j - len] = ElemAdd(a, ElemMul(x, c)) /\ h[j] = ElemAdd(b, ElemMul(x, d))
      BY <1>1, <3>1
    <3> HIDE DEF a, b, c, d
    <3>3. a \in Elem /\ b \in Elem /\ c \in Elem /\ d \in Elem /\ x \in Elem /\ z \in Elem /\ m \in Elem
      BY <2>1, <3>1
    <3>4. SumsScale(a, b, c, d, x, z) /\ DifferencesScale(a, b, c, d, x, m)
      BY ONLY <3>3, SumOfMultiples, DifferenceOfMultiples
    <3>5. ElemSub(ElemAdd(a, ElemMul(x, c)), ElemMul(z, ElemAdd(b, ElemMul(x, d))))
               = ElemAdd(ElemSub(a, ElemMul(z, b)), ElemMul(x, ElemSub(c, ElemMul(z, d))))
      BY <3>4, Zenon DEF SumsScale
    <3>6. ElemMul(m, ElemSub(ElemAdd(a, ElemMul(x, c)), ElemAdd(b, ElemMul(x, d))))
               = ElemAdd(ElemMul(m, ElemSub(a, b)), ElemMul(x, ElemMul(m, ElemSub(c, d))))
      BY <3>4, Zenon DEF DifferencesScale
    <3> QED
      BY <3>1, <3>2, <3>5, <3>6, Zenon
  <2> QED
    BY <2>2, <2>3
<1>4. fh = [j \in Coeff |-> fh[j]] /\ bh = [j \in Coeff |-> bh[j]]
  BY <1>2 DEF Polynomial
<1> HIDE DEF ff, fg, fh, bf, bg, bh
<1>5. fh = Combined(ff, x, fg) /\ bh = Combined(bf, x, bg)
  BY <1>3, <1>4, Zenon DEF Combined
<1> QED
  BY <1>5, Zenon DEF h, ff, fg, fh, bf, bg, bh

-----------------------------------------------------------------------------
LEMMA RunCombined ==
  ASSUME NEW f \in Polynomial, NEW g \in Polynomial, NEW x \in Elem, NEW u, NEW v, NEW w
  PROVE  /\ Up(f, u) /\ Up(g, v) /\ Up(Combined(f, x, g), w)
              => \A n \in 0 .. LOGN : w[n] = Combined(u[n], x, v[n])
         /\ Down(f, u) /\ Down(g, v) /\ Down(Combined(f, x, g), w)
              => \A n \in 0 .. LOGN : w[n] = Combined(u[n], x, v[n])
<1> DEFINE T == {n \in 0 .. LOGN : w[n] = Combined(u[n], x, v[n])}
<1>1. LOGN \in Nat /\ 0 \in 0 .. LOGN
  BY Lengths
<1>2. ASSUME Up(f, u), Up(g, v), Up(Combined(f, x, g), w)
      PROVE  \A n \in 0 .. LOGN : n \in T
  <2>1. 0 \in T
    BY <1>1, <1>2, Zenon DEF Up
  <2>2. ASSUME NEW n \in 1 .. LOGN, n - 1 \in T
        PROVE  n \in T
    <3> DEFINE B == 2^(n - 1)
               len == 2^(LOGN - n)
    <3>1. B \in Nat \ {0} /\ len \in Nat \ {0} /\ N = B * (2 * len)
      BY LayerSizes
    <3>2. n \in 0 .. LOGN /\ n - 1 \in 0 .. LOGN
      BY <1>1
    <3>3. u[n] = fwd(B, len, u[n - 1]) /\ v[n] = fwd(B, len, v[n - 1]) /\ w[n] = fwd(B, len, w[n - 1])
      BY <1>2, Zenon DEF Up
    <3>4. u[n - 1] \in Polynomial /\ v[n - 1] \in Polynomial
      BY <1>2, <3>2 DEF Up
    <3>5. w[n - 1] = Combined(u[n - 1], x, v[n - 1])
      BY <2>2, Zenon
    <3> HIDE DEF B, len
    <3>6. fwd(B, len, Combined(u[n - 1], x, v[n - 1]))
            = Combined(fwd(B, len, u[n - 1]), x, fwd(B, len, v[n - 1]))
      BY <3>1, <3>4, LayerCombined
    <3>7. w[n] = Combined(u[n], x, v[n])
      BY <3>3, <3>5, <3>6, Zenon
    <3> QED
      BY <3>2, <3>7, Zenon
  <2> HIDE DEF T
  <2> QED
    BY <1>1, <2>1, <2>2, UpTo
<1>3. ASSUME Down(f, u), Down(g, v), Down(Combined(f, x, g), w)
      PROVE  \A n \in 0 .. LOGN : n \in T
  <2>1. 0 \in T
    BY <1>1, <1>3, Zenon DEF Down
  <2>2. ASSUME NEW n \in 1 .. LOGN, n - 1 \in T
        PROVE  n \in T
    <3> DEFINE B == 2^(LOGN - n)
               len == 2^(n - 1)
    <3>1. B \in Nat \ {0} /\ len \in Nat \ {0} /\ N = B * (2 * len)
      <4>1. B \in Nat \ {0} /\ len \in Nat \ {0} /\ N = len * (2 * B)
        BY LayerSizes
      <4> HIDE DEF B, len
      <4> QED
        BY <4>1
    <3>2. n \in 0 .. LOGN /\ n - 1 \in 0 .. LOGN
      BY <1>1
    <3>3. u[n] = bwd(B, len, u[n - 1]) /\ v[n] = bwd(B, len, v[n - 1]) /\ w[n] = bwd(B, len, w[n - 1])
      BY <1>3, Zenon DEF Down
    <3>4. u[n - 1] \in Polynomial /\ v[n - 1] \in Polynomial
      BY <1>3, <3>2 DEF Down
    <3>5. w[n - 1] = Combined(u[n - 1], x, v[n - 1])
      BY <2>2, Zenon
    <3> HIDE DEF B, len
    <3>6. bwd(B, len, Combined(u[n - 1], x, v[n - 1]))
            = Combined(bwd(B, len, u[n - 1]), x, bwd(B, len, v[n - 1]))
      BY <3>1, <3>4, LayerCombined
    <3>7. w[n] = Combined(u[n], x, v[n])
      BY <3>3, <3>5, <3>6, Zenon
    <3> QED
      BY <3>2, <3>7, Zenon
  <2> HIDE DEF T
  <2> QED
    BY <1>1, <2>1, <2>2, UpTo
<1> QED
  BY <1>2, <1>3, Zenon

LEMMA ScaleOfMultiple ==
  ASSUME NEW s \in Elem, NEW a \in Elem, NEW x \in Elem, NEW b \in Elem
  PROVE  ElemMul(s, ElemAdd(a, ElemMul(x, b))) = ElemAdd(ElemMul(s, a), ElemMul(x, ElemMul(s, b)))
<1>1. Is(s, s) /\ Is(a, a) /\ Is(x, x) /\ Is(b, b)
  BY IsSelf
<1>2. s \in Int /\ a \in Int /\ x \in Int /\ b \in Int
  BY IsSelf
<1>3. Is(ElemMul(x, b), x * b) /\ Is(ElemMul(s, a), s * a) /\ Is(ElemMul(s, b), s * b)
  BY <1>1, IsOps
<1>4. Is(ElemAdd(a, ElemMul(x, b)), a + x * b) /\ Is(ElemMul(x, ElemMul(s, b)), x * (s * b))
  BY <1>1, <1>3, IsOps
<1>5. Is(ElemMul(s, ElemAdd(a, ElemMul(x, b))), s * (a + x * b))
  BY <1>1, <1>4, IsOps
<1>6. Is(ElemAdd(ElemMul(s, a), ElemMul(x, ElemMul(s, b))), s * a + x * (s * b))
  BY <1>3, <1>4, IsOps
<1>7. s * (a + x * b) = s * a + x * (s * b)
  BY <1>2
<1> QED
  BY <1>5, <1>6, <1>7, IsOne

LEMMA ScaleIs ==
  ASSUME NEW s \in Elem, NEW f \in Polynomial
  PROVE  /\ PolyScale(s, f) = [j \in Coeff |-> ElemMul(s, f[j])]
         /\ PolyScale(s, f) \in Polynomial
<1>1. PolyScale(s, f) = [j \in Coeff |-> ElemMul(s, f[j])]
  BY ArrayIs, Zenon DEF PolyScale
<1> QED
  BY <1>1, PolyOps

LEMMA ScaleCombined ==
  ASSUME NEW s \in Elem, NEW f \in Polynomial, NEW g \in Polynomial, NEW x \in Elem
  PROVE  PolyScale(s, Combined(f, x, g)) = Combined(PolyScale(s, f), x, PolyScale(s, g))
<1> DEFINE h == Combined(f, x, g)
           sf == PolyScale(s, f)
           sg == PolyScale(s, g)
           sh == PolyScale(s, h)
<1>1. h \in Polynomial /\ \A j \in Coeff : h[j] = ElemAdd(f[j], ElemMul(x, g[j]))
  BY CombinedTyped
<1> HIDE DEF h
<1>2. /\ sf = [j \in Coeff |-> ElemMul(s, f[j])] /\ sg = [j \in Coeff |-> ElemMul(s, g[j])]
      /\ sh = [j \in Coeff |-> ElemMul(s, h[j])]
  BY <1>1, ScaleIs
<1> HIDE DEF sf, sg, sh
<1>3. ASSUME NEW j \in Coeff
      PROVE  ElemMul(s, h[j]) = ElemAdd(sf[j], ElemMul(x, sg[j]))
  <2>1. f[j] \in Elem /\ g[j] \in Elem
    BY DEF Polynomial
  <2>2. sf[j] = ElemMul(s, f[j]) /\ sg[j] = ElemMul(s, g[j]) /\ h[j] = ElemAdd(f[j], ElemMul(x, g[j]))
    BY <1>1, <1>2
  <2> DEFINE a == f[j]
             b == g[j]
  <2>3. a \in Elem /\ b \in Elem
    BY <2>1
  <2> HIDE DEF a, b
  <2>4. ElemMul(s, ElemAdd(a, ElemMul(x, b))) = ElemAdd(ElemMul(s, a), ElemMul(x, ElemMul(s, b)))
    BY <2>3, ScaleOfMultiple
  <2> QED
    BY <2>2, <2>4, Zenon DEF a, b
<1>4. sh = Combined(sf, x, sg)
  BY <1>2, <1>3, Zenon DEF Combined
<1> QED
  BY <1>4, Zenon DEF h, sf, sg, sh

(* The transforms are linear.                                                 *)
LEMMA NttCombined ==
  ASSUME NEW f \in Polynomial, NEW g \in Polynomial, NEW x \in Elem
  PROVE  /\ ntt(Combined(f, x, g)) = Combined(ntt(f), x, ntt(g))
         /\ ntt_inverse(Combined(f, x, g)) = Combined(ntt_inverse(f), x, ntt_inverse(g))
<1> DEFINE h == Combined(f, x, g)
<1>1. h \in Polynomial
  BY CombinedTyped
<1>2. LOGN \in 0 .. LOGN /\ INVERSE_N \in Elem
  BY Lengths, NttConstants
<1> HIDE DEF h
<1>3. ntt(h) = Combined(ntt(f), x, ntt(g))
  <2>1. PICK u : Up(f, u) /\ ntt(f) = u[LOGN]
    BY UpIs
  <2>2. PICK v : Up(g, v) /\ ntt(g) = v[LOGN]
    BY UpIs
  <2>3. PICK w : Up(h, w) /\ ntt(h) = w[LOGN]
    BY <1>1, UpIs
  <2>4. \A n \in 0 .. LOGN : w[n] = Combined(u[n], x, v[n])
    BY <2>1, <2>2, <2>3, RunCombined DEF h
  <2> QED
    BY <1>2, <2>1, <2>2, <2>3, <2>4, Zenon
<1>4. ntt_inverse(h) = Combined(ntt_inverse(f), x, ntt_inverse(g))
  <2>1. PICK u : Down(f, u) /\ ntt_inverse(f) = PolyScale(INVERSE_N, u[LOGN])
    BY DownIs
  <2>2. PICK v : Down(g, v) /\ ntt_inverse(g) = PolyScale(INVERSE_N, v[LOGN])
    BY DownIs
  <2>3. PICK w : Down(h, w) /\ ntt_inverse(h) = PolyScale(INVERSE_N, w[LOGN])
    BY <1>1, DownIs
  <2>4. \A n \in 0 .. LOGN : w[n] = Combined(u[n], x, v[n])
    BY <2>1, <2>2, <2>3, RunCombined DEF h
  <2>5. w[LOGN] = Combined(u[LOGN], x, v[LOGN])
    BY <1>2, <2>4, Zenon
  <2>6. u[LOGN] \in Polynomial /\ v[LOGN] \in Polynomial
    BY <1>2, <2>1, <2>2 DEF Down
  <2>7. PolyScale(INVERSE_N, Combined(u[LOGN], x, v[LOGN]))
          = Combined(PolyScale(INVERSE_N, u[LOGN]), x, PolyScale(INVERSE_N, v[LOGN]))
    BY <1>2, <2>6, ScaleCombined
  <2> QED
    BY <2>1, <2>2, <2>3, <2>5, <2>7, Zenon
<1> QED
  BY <1>3, <1>4 DEF h

-----------------------------------------------------------------------------
LEMMA MulAssociates ==
  ASSUME NEW x \in Elem, NEW y \in Elem, NEW z \in Elem
  PROVE  ElemMul(x, ElemMul(y, z)) = ElemMul(ElemMul(x, y), z)
<1>1. Is(x, x) /\ Is(y, y) /\ Is(z, z) /\ x \in Int /\ y \in Int /\ z \in Int
  BY IsSelf
<1>2. Is(ElemMul(x, y), x * y) /\ Is(ElemMul(y, z), y * z)
  BY <1>1, IsOps
<1>3. Is(ElemMul(x, ElemMul(y, z)), x * (y * z)) /\ Is(ElemMul(ElemMul(x, y), z), (x * y) * z)
  BY <1>1, <1>2, IsOps
<1>4. x * (y * z) = (x * y) * z
  BY <1>1
<1> QED
  BY <1>3, <1>4, IsOne

LEMMA MulCommutes ==
  ASSUME NEW x \in Elem, NEW y \in Elem
  PROVE  ElemMul(x, y) = ElemMul(y, x)
<1>1. Is(x, x) /\ Is(y, y) /\ x \in Int /\ y \in Int
  BY IsSelf
<1>2. Is(ElemMul(x, y), x * y) /\ Is(ElemMul(y, x), y * x)
  BY <1>1, IsOps
<1>3. x * y = y * x
  BY <1>1
<1> QED
  BY <1>2, <1>3, IsOne

LEMMA MulUnits ==
  ASSUME NEW x \in Elem
  PROVE  /\ ElemMul(1, x) = x /\ ElemMul(x, 1) = x /\ ElemMul(0, x) = 0 /\ ElemMul(x, 0) = 0
         /\ ElemMul(Q - 1, x) = ElemNeg(x) /\ ElemMul(x, Q - 1) = ElemNeg(x)
         /\ ElemAdd(x, 0) = x /\ ElemAdd(0, x) = x /\ ElemSub(x, 0) = x
<1>1. Is(x, x) /\ x \in Int /\ Is(0, 0) /\ Is(1, 1) /\ Is(Q - 1, -1)
  BY IsSelf, IsSmall
<1>2. /\ Is(ElemMul(1, x), 1 * x) /\ Is(ElemMul(x, 1), x * 1)
      /\ Is(ElemMul(0, x), 0 * x) /\ Is(ElemMul(x, 0), x * 0)
      /\ Is(ElemMul(Q - 1, x), (-1) * x) /\ Is(ElemMul(x, Q - 1), x * (-1))
      /\ Is(ElemNeg(x), -x)
      /\ Is(ElemAdd(x, 0), x + 0) /\ Is(ElemAdd(0, x), 0 + x) /\ Is(ElemSub(x, 0), x - 0)
  BY <1>1, IsOps
<1>3. /\ 1 * x = x /\ x * 1 = x /\ 0 * x = 0 /\ x * 0 = 0 /\ (-1) * x = -x /\ x * (-1) = -x
      /\ x + 0 = x /\ 0 + x = x /\ x - 0 = x
  BY <1>1
<1>4. /\ ElemMul(1, x) = x /\ ElemMul(x, 1) = x /\ ElemMul(0, x) = 0 /\ ElemMul(x, 0) = 0
  BY <1>1, <1>2, <1>3, IsOne
<1>5. ElemMul(Q - 1, x) = ElemNeg(x) /\ ElemMul(x, Q - 1) = ElemNeg(x)
  BY <1>1, <1>2, <1>3, IsOne
<1>6. ElemAdd(x, 0) = x /\ ElemAdd(0, x) = x /\ ElemSub(x, 0) = x
  BY <1>1, <1>2, <1>3, IsOne
<1> QED
  BY <1>4, <1>5, <1>6

LEMMA PowSteps ==
  /\ pow[0] = 1 /\ ZETA \in Elem
  /\ \A j \in Coeff : pow[j] \in Elem
  /\ \A j \in 1 .. N - 1 : pow[j] = ElemMul(pow[j - 1], ZETA)
  /\ ElemMul(pow[N - 1], ZETA) = Q - 1
<1> DEFINE n == N - 1
<1>1. n \in Nat /\ Coeff = 0 .. n /\ n \in 0 .. n /\ ZETA \in Elem /\ ZETA \in Int /\ Q \in Int
  BY Field, NttConstants DEF Coeff, Elem
<1>2. /\ pow[0] = 1 /\ \A j \in Coeff : pow[j] \in Elem
      /\ \A j \in 1 .. n : pow[j] = (pow[j - 1] * ZETA) % Q
      /\ (pow[n] * ZETA + 1) % Q = 0
  BY PowIs, RootConstant
<1> HIDE DEF n
<1>3. ASSUME NEW j \in 1 .. n
      PROVE  pow[j] = ElemMul(pow[j - 1], ZETA)
  <2>1. pow[j - 1] \in Elem
    BY <1>1, <1>2
  <2> DEFINE a == pow[j - 1]
  <2>2. a \in Elem /\ pow[j] = (a * ZETA) % Q
    BY <1>2, <2>1
  <2> HIDE DEF a
  <2>3. ElemMul(a, ZETA) = (a * ZETA) % Q
    BY <1>1, <2>2, FieldOps
  <2> QED
    BY <2>2, <2>3 DEF a
<1>4. ElemMul(pow[n], ZETA) = Q - 1
  <2> DEFINE a == pow[n]
  <2>1. a \in Elem /\ (a * ZETA + 1) % Q = 0
    BY <1>1, <1>2
  <2> HIDE DEF a
  <2>2. a \in Int /\ Is(a, a) /\ Is(ZETA, ZETA) /\ a * ZETA \in Int
    BY <1>1, <2>1, IsSelf
  <2> DEFINE p == a * ZETA
  <2>3. p \in Int /\ (p + 1) % Q = 0
    BY <2>1, <2>2
  <2>4. Is(ElemMul(a, ZETA), p)
    BY <2>2, IsOps
  <2> HIDE DEF p
  <2>5. Is(0, p + 1)
    BY <2>3, IsMod
  <2>6. PICK e \in Int : p + 1 = 0 + Q * e
    BY <2>5 DEF Is
  <2>7. p = -1 + Q * e
    BY <1>1, <2>3, <2>6
  <2>8. Is(Q - 1, p)
    BY <2>7, IsSmall, IsUpTo
  <2>9. ElemMul(a, ZETA) = Q - 1
    BY <2>4, <2>8, IsOne
  <2> QED
    BY <2>9 DEF a
<1> QED
  BY <1>1, <1>2, <1>3, <1>4 DEF n

(* Powers of the root multiply by adding their exponents, and turn at N.      *)
LEMMA PowProduct ==
  ASSUME NEW a \in Coeff, NEW b \in Coeff
  PROVE  a + b \in Coeff => ElemMul(pow[a], pow[b]) = pow[a + b]
<1> DEFINE n == N - 1
           T == {j \in 0 .. n : a + j <= n => ElemMul(pow[a], pow[j]) = pow[a + j]}
<1>1. n \in Nat /\ Coeff = 0 .. n /\ a \in 0 .. n
  BY Field DEF Coeff
<1>2. /\ pow[0] = 1 /\ ZETA \in Elem
      /\ \A j \in 0 .. n : pow[j] \in Elem
      /\ \A j \in 1 .. n : pow[j] = ElemMul(pow[j - 1], ZETA)
  BY <1>1, PowSteps
<1>3. 0 \in T
  <2>1. a + 0 = a /\ ElemMul(pow[a], 1) = pow[a]
    BY <1>1, <1>2, MulUnits
  <2> QED
    BY <1>1, <1>2, <2>1
<1>4. ASSUME NEW j \in 1 .. n, j - 1 \in T
      PROVE  j \in T
  <2> SUFFICES ASSUME a + j <= n PROVE ElemMul(pow[a], pow[j]) = pow[a + j]
    BY <1>1
  <2> DEFINE k == a + (j - 1)
             l == j - 1
  <2>1. a + j \in 1 .. n /\ (a + j) - 1 = k /\ k <= n /\ k \in 0 .. n /\ l \in 0 .. n /\ j \in 0 .. n
    BY <1>1
  <2>2. ElemMul(pow[a], pow[l]) = pow[k]
    BY <1>4, <2>1
  <2>3. pow[a + j] = ElemMul(pow[k], ZETA) /\ pow[j] = ElemMul(pow[l], ZETA)
    BY <1>2, <2>1
  <2> HIDE DEF k, l
  <2>4. pow[a] \in Elem /\ pow[l] \in Elem
    BY <1>1, <1>2, <2>1
  <2>5. ElemMul(pow[a], ElemMul(pow[l], ZETA)) = ElemMul(ElemMul(pow[a], pow[l]), ZETA)
    BY <1>2, <2>4, MulAssociates
  <2> QED
    BY <2>2, <2>3, <2>5, Zenon
<1>5. \A j \in 0 .. n : j \in T
  <2> HIDE DEF T
  <2> QED
    BY <1>1, <1>3, <1>4, UpTo
<1> QED
  BY <1>1, <1>5

LEMMA PowTurns ==
  ASSUME NEW a \in Coeff, NEW b \in Coeff, a + b = N
  PROVE  ElemMul(pow[a], pow[b]) = Q - 1
<1> DEFINE n == N - 1
           l == b - 1
<1>1. Coeff = 0 .. n /\ a \in 0 .. n /\ b \in 1 .. n /\ l \in Coeff /\ a + l = n /\ n \in Coeff
  BY Field DEF Coeff
<1>2. /\ pow[b] = ElemMul(pow[l], ZETA) /\ pow[a] \in Elem /\ pow[l] \in Elem /\ ZETA \in Elem
      /\ ElemMul(pow[n], ZETA) = Q - 1
  BY <1>1, PowSteps
<1>3. ElemMul(pow[a], pow[l]) = pow[n]
  BY <1>1, PowProduct
<1> HIDE DEF n, l
<1>4. ElemMul(pow[a], ElemMul(pow[l], ZETA)) = ElemMul(ElemMul(pow[a], pow[l]), ZETA)
  BY <1>2, MulAssociates
<1> QED
  BY <1>2, <1>3, <1>4, Zenon

-----------------------------------------------------------------------------
LEMMA HalfDiv ==
  ASSUME NEW x \in Nat, NEW w \in Nat \ {0}
  PROVE  (2 * x) \div (2 * w) = x \div w /\ (2 * x + 1) \div (2 * w) = x \div w
<1> DEFINE q == x \div w
           r == x % w
           W == 2 * w
<1>1. x = w * q + r /\ r \in 0 .. w - 1 /\ q \in Nat
  BY DivMod
<1>2. W \in Nat \ {0} /\ W = 2 * w
  OBVIOUS
<1> HIDE DEF q, r, W
<1>3. w * q \in Nat /\ W * q = 2 * (w * q)
  BY <1>1, <1>2
<1>4. /\ 2 * x = W * q + 2 * r /\ 2 * r \in 0 .. W - 1
      /\ 2 * x + 1 = W * q + (2 * r + 1) /\ 2 * r + 1 \in 0 .. W - 1
  BY <1>1, <1>2, <1>3
<1>5. (W * q + 2 * r) \div W = q /\ (W * q + (2 * r + 1)) \div W = q
  BY <1>1, <1>2, <1>4, DivUnique
<1>6. (2 * x) \div W = q /\ (2 * x + 1) \div W = q
  BY <1>4, <1>5
<1> QED
  BY <1>6 DEF W, q

Half == 2^(LOGN - 1)

LEMMA HalfIs ==
  Half \in Nat \ {0} /\ N = 2 * Half /\ Half \in Coeff
<1>1. 1 \in 1 .. LOGN /\ LOGN - 1 \in 0 .. 29 /\ (LOGN - 1) + 1 = LOGN /\ N = 2^LOGN
  BY Lengths
<1>2. Half \in Nat \ {0} /\ N = 2 * Half
  BY <1>1, Powers, Zenon DEF Half
<1> QED
  BY <1>2 DEF Coeff

(* An index doubled is one bit further, and its reversal half as far.         *)
LEMMA BitrevDoubles ==
  ASSUME NEW x \in 0 .. Half - 1
  PROVE  bitrev(x) = 2 * bitrev(2 * x) /\ bitrev(2 * x + 1) = bitrev(2 * x) + Half
<1> DEFINE m == LOGN - 1
<1>1. m \in Nat /\ m + 1 = LOGN /\ LOGN \in 0 .. LOGN /\ m \in 0 .. LOGN /\ m <= 29 /\ x \in Nat /\ Half \in Nat \ {0}
      /\ Half = 2^m
  BY Lengths, HalfIs DEF Half
<1> DEFINE x0 == 2 * x
           x1 == 2 * x + 1
<1>2. x0 \in Nat /\ x1 \in Nat
  BY <1>1
<1>3. PICK r : ReversalRun(x, r) /\ bitrev(x) = r[LOGN] /\ \A b \in 0 .. LOGN : r[b] \in 0 .. 2^b - 1
  BY <1>1, BitrevIs
<1>4. PICK s : ReversalRun(x0, s) /\ bitrev(x0) = s[LOGN] /\ \A b \in 0 .. LOGN : s[b] \in 0 .. 2^b - 1
  BY <1>2, BitrevIs
<1>5. PICK t : ReversalRun(x1, t) /\ bitrev(x1) = t[LOGN] /\ \A b \in 0 .. LOGN : t[b] \in 0 .. 2^b - 1
  BY <1>2, BitrevIs
<1> HIDE DEF x0, x1
<1>6. \A b \in 0 .. LOGN :
        /\ r[b] = IF b = 0 THEN 0 ELSE 2 * r[b - 1] + ((x \div 2^(b - 1)) % 2)
        /\ s[b] = IF b = 0 THEN 0 ELSE 2 * s[b - 1] + ((x0 \div 2^(b - 1)) % 2)
        /\ t[b] = IF b = 0 THEN 0 ELSE 2 * t[b - 1] + ((x1 \div 2^(b - 1)) % 2)
  BY <1>3, <1>4, <1>5, Zenon DEF ReversalRun
<1>7. r[0] = 0 /\ s[0] = 0 /\ t[0] = 0
  BY <1>1, <1>6
<1>8. \A b \in 1 .. LOGN :
        /\ r[b] = 2 * r[b - 1] + ((x \div 2^(b - 1)) % 2)
        /\ s[b] = 2 * s[b - 1] + ((x0 \div 2^(b - 1)) % 2)
        /\ t[b] = 2 * t[b - 1] + ((x1 \div 2^(b - 1)) % 2)
  <2>1. ASSUME NEW b \in 1 .. LOGN
        PROVE  b \in 0 .. LOGN /\ b # 0
    BY <1>1
  <2> QED
    BY <1>6, <2>1, Zenon
<1> HIDE DEF m
<1> DEFINE T == {i \in 0 .. m : s[i + 1] = r[i] /\ t[i + 1] = r[i] + 2^i}
<1>9. 0 \in T
  <2>1. 1 \in 1 .. LOGN /\ 0 + 1 = 1 /\ 1 - 1 = 0 /\ 2^0 = 1
    BY <1>1, PowerTable
  <2>2. s[1] = 2 * s[0] + ((x0 \div 1) % 2) /\ t[1] = 2 * t[0] + ((x1 \div 1) % 2)
    BY <1>8, <2>1
  <2>3. x0 \div 1 = x0 /\ x1 \div 1 = x1 /\ x0 % 2 = 0 /\ x1 % 2 = 1
    BY <1>1 DEF x0, x1
  <2>4. s[1] = 0 /\ t[1] = 1
    BY <1>7, <2>2, <2>3
  <2> QED
    BY <1>1, <1>7, <2>1, <2>4
<1>10. ASSUME NEW i \in 1 .. m, i - 1 \in T
       PROVE  i \in T
  <2>1. i + 1 \in 1 .. LOGN /\ i \in 1 .. LOGN /\ (i + 1) - 1 = i /\ i - 1 \in 0 .. 29 /\ (i - 1) + 1 = i
        /\ i \in 0 .. m /\ i - 1 \in 0 .. LOGN
    BY <1>1
  <2> DEFINE w == 2^(i - 1)
             W == 2^i
  <2>2. w \in Nat \ {0} /\ W = 2 * w
    BY <2>1, Powers, Zenon
  <2>3. /\ s[i + 1] = 2 * s[i] + ((x0 \div W) % 2) /\ t[i + 1] = 2 * t[i] + ((x1 \div W) % 2)
        /\ r[i] = 2 * r[i - 1] + ((x \div w) % 2)
    BY <1>8, <2>1, Zenon
  <2>4. s[i] = r[i - 1] /\ t[i] = r[i - 1] + w
    BY <1>10, <2>1, Zenon
  <2>5. r[i - 1] \in Nat
    <3>1. r[i - 1] \in 0 .. w - 1
      BY <1>3, <2>1
    <3> QED
      BY <3>1, <2>2
  <2> HIDE DEF w, W
  <2>6. x0 \div W = x \div w /\ x1 \div W = x \div w
    BY <1>1, <2>2, HalfDiv DEF x0, x1
  <2> DEFINE d == (x \div w) % 2
  <2>7. d \in Nat
    BY <1>1, <2>2, DivMod
  <2>8. s[i + 1] = 2 * s[i] + d /\ t[i + 1] = 2 * t[i] + d /\ r[i] = 2 * r[i - 1] + d
    BY <2>3, <2>6, Zenon
  <2> HIDE DEF d
  <2>9. s[i + 1] = r[i] /\ t[i + 1] = r[i] + W
    BY <2>2, <2>4, <2>5, <2>7, <2>8
  <2> QED
    BY <2>1, <2>9 DEF W
<1>11. \A i \in 0 .. m : i \in T
  <2> HIDE DEF T
  <2> QED
    BY <1>1, <1>9, <1>10, UpTo
<1>12. s[LOGN] = r[m] /\ t[LOGN] = r[m] + Half
  <2>1. m \in T
    BY <1>1, <1>11
  <2> QED
    BY <1>1, <2>1
<1>13. r[LOGN] = 2 * r[m]
  <2>1. LOGN \in 1 .. LOGN /\ LOGN - 1 = m
    BY <1>1, Lengths
  <2>2. r[LOGN] = 2 * r[m] + ((x \div Half) % 2)
    BY <1>1, <1>8, <2>1
  <2>3. x \div Half = 0
    BY <1>1
  <2>4. r[m] \in Nat
    <3>1. r[m] \in 0 .. Half - 1
      BY <1>1, <1>3
    <3> QED
      BY <3>1, <1>1
  <2> QED
    BY <2>2, <2>3, <2>4
<1> QED
  BY <1>3, <1>4, <1>5, <1>12, <1>13 DEF x0, x1
-----------------------------------------------------------------------------
LEMMA RootIs ==
  ASSUME NEW i \in 1 .. N - 1
  PROVE  /\ ZETA_POW_BITREV[i] = pow[bitrev(i)] /\ bitrev(i) \in Coeff /\ i \in Coeff
         /\ ZETA_POW_BITREV[i] \in Elem
<1>1. i \in Coeff /\ i # 0
  BY Field DEF Coeff
<1>2. ZETA_POW_BITREV = [j \in Coeff |-> IF j = 0 THEN 0 ELSE pow[bitrev(j)]]
  BY ArrayIs, Zenon DEF ZETA_POW_BITREV
<1>3. ZETA_POW_BITREV[i] = pow[bitrev(i)]
  BY <1>1, <1>2
<1> QED
  BY <1>1, <1>3, RootsTyped

LEMMA SquareOfProduct ==
  ASSUME NEW a \in Elem, NEW b \in Elem
  PROVE  ElemMul(ElemMul(a, b), ElemMul(a, b)) = ElemMul(ElemMul(a, a), ElemMul(b, b))
<1>1. Is(a, a) /\ Is(b, b) /\ a \in Int /\ b \in Int
  BY IsSelf
<1>2. Is(ElemMul(a, b), a * b) /\ Is(ElemMul(a, a), a * a) /\ Is(ElemMul(b, b), b * b)
  BY <1>1, IsOps
<1>3. /\ Is(ElemMul(ElemMul(a, b), ElemMul(a, b)), (a * b) * (a * b))
      /\ Is(ElemMul(ElemMul(a, a), ElemMul(b, b)), (a * a) * (b * b))
  BY <1>2, IsOps
<1>4. (a * b) * (a * b) = (a * a) * (b * b)
  BY <1>1
<1> QED
  BY <1>3, <1>4, IsOne

(* A block is taken modulo X^len minus this, i counting the blocks of all     *)
(* layers.                                                                    *)
Modulus(i) ==
  IF i = 1 THEN Q - 1
  ELSE IF i % 2 = 0 THEN ZETA_POW_BITREV[i \div 2] ELSE ElemNeg(ZETA_POW_BITREV[i \div 2])

LEMMA ModulusIs ==
  ASSUME NEW i \in 1 .. N - 1
  PROVE  /\ Modulus(1) = Q - 1
         /\ Modulus(2 * i) = ZETA_POW_BITREV[i] /\ Modulus(2 * i + 1) = ElemNeg(ZETA_POW_BITREV[i])
<1>1. i \in Nat /\ i >= 1
  OBVIOUS
<1>2. /\ 2 * i # 1 /\ 2 * i + 1 # 1 /\ (2 * i) % 2 = 0 /\ (2 * i + 1) % 2 # 0
      /\ (2 * i) \div 2 = i /\ (2 * i + 1) \div 2 = i
  BY <1>1
<1> QED
  BY <1>2 DEF Modulus

LEMMA ModulusTyped ==
  ASSUME NEW i \in 1 .. 2 * N - 1
  PROVE  Modulus(i) \in Elem
<1>1. CASE i = 1
  BY <1>1, Field DEF Modulus, Elem
<1>2. CASE i # 1
  <2> DEFINE h == i \div 2
  <2>1. h \in 1 .. N - 1
    BY <1>2, Field
  <2>2. ZETA_POW_BITREV[h] \in Elem
    BY <2>1, RootIs
  <2>3. ElemNeg(ZETA_POW_BITREV[h]) \in Elem
    BY <2>2, FieldOps
  <2> QED
    BY <1>2, <2>2, <2>3, Zenon DEF Modulus, h
<1> QED
  BY <1>1, <1>2

LEMMA RootSquares ==
  ASSUME NEW i \in 1 .. N - 1
  PROVE  ElemMul(ZETA_POW_BITREV[i], ZETA_POW_BITREV[i]) = Modulus(i)
<1> DEFINE h == i \div 2
           c == bitrev(2 * h)
<1>1. h \in 0 .. Half - 1 /\ i \in Nat /\ N \in Nat /\ Half \in Nat /\ Half + Half = N /\ Half \in Coeff
  BY HalfIs
<1>2. i = 2 * h \/ i = 2 * h + 1
  BY <1>1
<1>3. bitrev(h) = 2 * c /\ bitrev(2 * h + 1) = c + Half
  BY <1>1, BitrevDoubles
<1>4. h \in Coeff /\ 2 * h \in Coeff /\ 2 * h + 1 \in Coeff
  BY <1>1 DEF Coeff
<1> HIDE DEF h
<1>5. c \in Coeff /\ bitrev(h) \in Coeff /\ bitrev(2 * h + 1) \in Coeff
  BY <1>4, RootsTyped
<1> HIDE DEF c
<1>6. c \in Nat /\ c + c = bitrev(h) /\ c + Half \in Coeff /\ c + c \in Coeff
  BY <1>3, <1>5 DEF Coeff
<1>7. /\ ElemMul(pow[c], pow[c]) = pow[c + c] /\ ElemMul(pow[c], pow[Half]) = pow[c + Half]
      /\ ElemMul(pow[Half], pow[Half]) = Q - 1 /\ pow[c] \in Elem /\ pow[Half] \in Elem
  BY <1>1, <1>5, <1>6, PowProduct, PowTurns, PowSteps
<1>8. ElemMul(pow[c + Half], pow[c + Half]) = ElemMul(pow[c + c], Q - 1)
  BY <1>7, SquareOfProduct, Zenon
<1>9. CASE i = 1
  <2>1. h = 0
    BY <1>9 DEF h
  <2>2. bitrev(h) = c
    BY <2>1 DEF c
  <2>3. c = 0
    BY <1>6, <2>2
  <2>4. bitrev(i) = Half /\ ZETA_POW_BITREV[i] = pow[bitrev(i)]
    <3>1. bitrev(2 * h + 1) = 0 + Half
      BY <1>3, <2>3
    <3> QED
      BY <3>1, <2>1, <1>9, <1>1, RootIs
  <2>5. Modulus(i) = Q - 1
    BY <1>9 DEF Modulus
  <2> QED
    BY <1>7, <2>4, <2>5
<1>10. CASE i # 1 /\ i = 2 * h
  <2>1. h \in 1 .. N - 1
    BY <1>1, <1>10 DEF h
  <2>2. Modulus(i) = ZETA_POW_BITREV[h] /\ ZETA_POW_BITREV[h] = pow[bitrev(h)]
    BY <2>1, <1>10, ModulusIs, RootIs
  <2>3. ZETA_POW_BITREV[i] = pow[c]
    BY <1>10, RootIs DEF c
  <2> QED
    BY <1>6, <1>7, <2>2, <2>3, Zenon
<1>11. CASE i # 1 /\ i = 2 * h + 1
  <2>1. h \in 1 .. N - 1
    BY <1>1, <1>11 DEF h
  <2>2. Modulus(i) = ElemNeg(ZETA_POW_BITREV[h]) /\ ZETA_POW_BITREV[h] = pow[bitrev(h)]
    BY <2>1, <1>11, ModulusIs, RootIs
  <2>3. ZETA_POW_BITREV[i] = pow[c + Half]
    BY <1>3, <1>11, RootIs
  <2>4. ElemMul(pow[c + c], Q - 1) = ElemNeg(pow[c + c])
    BY <1>6, PowSteps, MulUnits
  <2> QED
    BY <1>6, <1>8, <2>2, <2>3, <2>4, Zenon
<1> QED
  BY <1>2, <1>9, <1>10, <1>11

-----------------------------------------------------------------------------
(* The roots a layer reads upwards and its inverse downwards.                 *)
LEMMA OppositeReversals ==
  ASSUME NEW n \in 0 .. LOGN - 1, NEW b \in 0 .. 2^n - 1
  PROVE  /\ 2^n + b \in 1 .. N - 1 /\ 2 * 2^n - 1 - b \in 1 .. N - 1
         /\ bitrev(2^n + b) + bitrev(2 * 2^n - 1 - b) = N
<1> DEFINE m == LOGN - 1
           Opposite(B) == \A x \in 0 .. B - 1 : /\ B + x \in 1 .. N - 1 /\ 2 * B - 1 - x \in 1 .. N - 1
                                                /\ bitrev(B + x) + bitrev(2 * B - 1 - x) = N
           T == {j \in 0 .. m : Opposite(2^j)}
<1>1. m \in Nat /\ m <= 28 /\ m \in 0 .. 29 /\ Half = 2^m
  BY Lengths DEF Half
<1>2. Half \in Nat \ {0} /\ N = 2 * Half /\ N \in Nat
  BY HalfIs
<1>3. 0 \in T
  <2>1. 2^0 = 1 /\ 0 \in 0 .. Half - 1
    BY <1>2, PowerTable
  <2>2. bitrev(0) = 2 * bitrev(2 * 0) /\ bitrev(2 * 0 + 1) = bitrev(2 * 0) + Half
    BY <2>1, BitrevDoubles
  <2>3. bitrev(0) \in Nat
    BY <1>2, RootsTyped DEF Coeff
  <2>4. 2 * 0 = 0 /\ 2 * 0 + 1 = 1
    OBVIOUS
  <2>5. bitrev(0) = 0 /\ bitrev(1) = Half
    BY <1>2, <2>2, <2>3, <2>4
  <2>6. Opposite(1)
    <3> SUFFICES ASSUME NEW x \in 0 .. 1 - 1
                 PROVE  /\ 1 + x \in 1 .. N - 1 /\ 2 * 1 - 1 - x \in 1 .. N - 1
                        /\ bitrev(1 + x) + bitrev(2 * 1 - 1 - x) = N
      OBVIOUS
    <3>1. x = 0 /\ 1 + x = 1 /\ 2 * 1 - 1 - x = 1
      OBVIOUS
    <3> QED
      BY <1>2, <2>5, <3>1
  <2>7. 0 \in 0 .. m /\ Opposite(2^0)
    <3> HIDE DEF Opposite
    <3> QED
      BY <1>1, <2>1, <2>6
  <2> QED
    BY <2>7, Zenon
<1>4. ASSUME NEW j \in 1 .. m, j - 1 \in T
      PROVE  j \in T
  <2> DEFINE B == 2^(j - 1)
             C == 2^j
  <2>1. j \in 0 .. m /\ j - 1 \in 0 .. 29 /\ (j - 1) + 1 = j /\ m - j \in Nat /\ j + (m - j) = m /\ j \in Nat
    BY <1>1
  <2>2. B \in Nat \ {0} /\ C = 2 * B /\ C \in Nat \ {0}
    <3>1. j \in 0 .. 29
      BY <1>1
    <3> QED
      BY <2>1, <3>1, Powers, Zenon
  <2>3. C <= Half
    <3> DEFINE p == 2^(m - j)
    <3>1. Half = C * p /\ p \in Nat \ {0}
      <4>1. j + (m - j) <= 29
        BY <1>1, <2>1
      <4>2. 2^(j + (m - j)) = C * p /\ p \in Nat \ {0}
        BY <2>1, <4>1, PowerSum, Zenon
      <4> QED
        BY <1>1, <2>1, <4>2, Zenon
    <3> HIDE DEF C, p
    <3>2. 1 * C <= p * C
      BY <2>2, <3>1, MulMono
    <3> QED
      BY <2>2, <3>1, <3>2
  <2>4. Opposite(B)
    BY <1>4, Zenon
  <2> HIDE DEF B, C
  <2>5. ASSUME NEW x \in 0 .. C - 1
        PROVE  /\ C + x \in 1 .. N - 1 /\ 2 * C - 1 - x \in 1 .. N - 1
               /\ bitrev(C + x) + bitrev(2 * C - 1 - x) = N
    <3> DEFINE h == x \div 2
               u == B + h
               v == 2 * B - 1 - h
    <3>1. h \in 0 .. B - 1 /\ x \in Nat /\ (x = 2 * h \/ x = 2 * h + 1)
      BY <2>2
    <3>2. /\ u \in 1 .. N - 1 /\ v \in 1 .. N - 1 /\ bitrev(u) + bitrev(v) = N
      BY <2>4, <3>1
    <3> HIDE DEF h
    <3>3. u \in 0 .. Half - 1 /\ v \in 0 .. Half - 1 /\ u >= 1 /\ v >= 1
      BY <1>2, <2>2, <2>3, <3>1
    <3>4. /\ x = 2 * h => C + x = 2 * u /\ 2 * C - 1 - x = 2 * v + 1
          /\ x = 2 * h + 1 => C + x = 2 * u + 1 /\ 2 * C - 1 - x = 2 * v
      BY <2>2, <3>1
    <3> HIDE DEF u, v
    <3>5. /\ bitrev(u) = 2 * bitrev(2 * u) /\ bitrev(2 * u + 1) = bitrev(2 * u) + Half
          /\ bitrev(v) = 2 * bitrev(2 * v) /\ bitrev(2 * v + 1) = bitrev(2 * v) + Half
      BY <3>3, BitrevDoubles
    <3>6. 2 * u \in Coeff /\ 2 * v \in Coeff /\ Coeff \subseteq Nat
      BY <1>2, <3>3 DEF Coeff
    <3>7. bitrev(2 * u) \in Nat /\ bitrev(2 * v) \in Nat
      BY <3>6, RootsTyped
    <3>8. /\ bitrev(2 * u) + bitrev(2 * v + 1) = N
          /\ bitrev(2 * u + 1) + bitrev(2 * v) = N
      BY <1>2, <3>2, <3>5, <3>7
    <3>9. /\ 2 * u \in 1 .. N - 1 /\ 2 * v + 1 \in 1 .. N - 1
          /\ 2 * u + 1 \in 1 .. N - 1 /\ 2 * v \in 1 .. N - 1
      BY <1>2, <3>3
    <3> QED
      BY <3>1, <3>4, <3>8, <3>9, Zenon
  <2>6. Opposite(C)
    BY <2>5
  <2> HIDE DEF Opposite
  <2> QED
    BY <2>1, <2>6, Zenon DEF C
<1>5. \A j \in 0 .. m : j \in T
  <2> HIDE DEF T
  <2> QED
    BY <1>1, <1>3, <1>4, UpTo
<1>6. Opposite(2^n)
  <2> HIDE DEF Opposite
  <2> QED
    BY <1>5, Zenon
<1> QED
  BY <1>6, Zenon

LEMMA OppositeRoots ==
  ASSUME NEW n \in 0 .. LOGN - 1, NEW b \in 0 .. 2^n - 1
  PROVE  ElemMul(ZETA_POW_BITREV[2^n + b], ZETA_POW_BITREV[2 * 2^n - 1 - b]) = Q - 1
<1> DEFINE i == 2^n + b
           j == 2 * 2^n - 1 - b
<1>1. i \in 1 .. N - 1 /\ j \in 1 .. N - 1 /\ bitrev(i) + bitrev(j) = N
  BY OppositeReversals
<1> HIDE DEF i, j
<1>2. /\ ZETA_POW_BITREV[i] = pow[bitrev(i)] /\ ZETA_POW_BITREV[j] = pow[bitrev(j)]
      /\ bitrev(i) \in Coeff /\ bitrev(j) \in Coeff
  BY <1>1, RootIs
<1>3. ElemMul(pow[bitrev(i)], pow[bitrev(j)]) = Q - 1
  BY <1>1, <1>2, PowTurns
<1> QED
  BY <1>2, <1>3, Zenon DEF i, j
-----------------------------------------------------------------------------
(* What a layer and its inverse do to a pair of coefficients.                 *)
LEMMA ThereAndBack ==
  ASSUME NEW z \in Elem, NEW y \in Elem, ElemMul(z, y) = Q - 1, NEW a \in Elem, NEW b \in Elem
  PROVE  /\ ElemAdd(ElemAdd(a, ElemMul(z, b)), ElemSub(a, ElemMul(z, b))) = ElemAdd(a, a)
         /\ ElemMul(ElemNeg(y), ElemSub(ElemAdd(a, ElemMul(z, b)), ElemSub(a, ElemMul(z, b)))) = ElemAdd(b, b)
         /\ ElemAdd(ElemAdd(a, b), ElemMul(z, ElemMul(ElemNeg(y), ElemSub(a, b)))) = ElemAdd(a, a)
         /\ ElemSub(ElemAdd(a, b), ElemMul(z, ElemMul(ElemNeg(y), ElemSub(a, b)))) = ElemAdd(b, b)
<1>1. /\ Is(z, z) /\ Is(y, y) /\ Is(a, a) /\ Is(b, b) /\ z \in Int /\ y \in Int /\ a \in Int /\ b \in Int
      /\ Q \in Int
  BY IsSelf, Field
<1>2. PICK k \in Int : z * y = -1 + Q * k
  <2>1. Is(Q - 1, z * y)
    BY <1>1, IsOps
  <2>2. PICK l \in Int : z * y = (Q - 1) + Q * l
    BY <2>1 DEF Is
  <2>3. l + 1 \in Int /\ z * y = -1 + Q * (l + 1)
    BY <1>1, <2>2
  <2> QED
    BY <2>3
<1>3. /\ Is(ElemAdd(a, a), a + a) /\ Is(ElemAdd(b, b), b + b) /\ Is(ElemAdd(a, b), a + b)
      /\ Is(ElemSub(a, b), a - b) /\ Is(ElemNeg(y), -y) /\ Is(ElemMul(z, b), z * b)
  BY <1>1, IsOps
<1>4. Is(ElemAdd(a, ElemMul(z, b)), a + z * b) /\ Is(ElemSub(a, ElemMul(z, b)), a - z * b)
  BY <1>1, <1>3, IsOps
<1>5. /\ Is(ElemAdd(ElemAdd(a, ElemMul(z, b)), ElemSub(a, ElemMul(z, b))), (a + z * b) + (a - z * b))
      /\ Is(ElemSub(ElemAdd(a, ElemMul(z, b)), ElemSub(a, ElemMul(z, b))), (a + z * b) - (a - z * b))
  BY <1>4, IsOps
<1>6. Is(ElemMul(ElemNeg(y), ElemSub(ElemAdd(a, ElemMul(z, b)), ElemSub(a, ElemMul(z, b)))),
         (-y) * ((a + z * b) - (a - z * b)))
  BY <1>3, <1>5, IsOps
<1>7. Is(ElemMul(ElemNeg(y), ElemSub(a, b)), (-y) * (a - b))
  BY <1>3, IsOps
<1>8. Is(ElemMul(z, ElemMul(ElemNeg(y), ElemSub(a, b))), z * ((-y) * (a - b)))
  BY <1>1, <1>7, IsOps
<1>9. /\ Is(ElemAdd(ElemAdd(a, b), ElemMul(z, ElemMul(ElemNeg(y), ElemSub(a, b)))), (a + b) + z * ((-y) * (a - b)))
      /\ Is(ElemSub(ElemAdd(a, b), ElemMul(z, ElemMul(ElemNeg(y), ElemSub(a, b)))), (a + b) - z * ((-y) * (a - b)))
  BY <1>3, <1>8, IsOps
<1>10. (a + z * b) + (a - z * b) = a + a
  <2>1. z * b \in Int
    BY <1>1
  <2> QED
    BY <1>1, <2>1
<1> DEFINE p == z * y
<1>11. p \in Int /\ p = -1 + Q * k
  BY <1>1, <1>2
<1>12. /\ (-y) * ((a + z * b) - (a - z * b)) = -(2 * (p * b))
       /\ z * ((-y) * (a - b)) = -(p * (a - b))
  BY <1>1
<1> HIDE DEF p
<1>13. /\ p * b = -b + Q * (k * b) /\ p * (a - b) = (b - a) + Q * (k * (a - b))
       /\ k * b \in Int /\ k * (a - b) \in Int /\ p * b \in Int /\ p * (a - b) \in Int
  BY <1>1, <1>2, <1>11
<1> DEFINE s == k * b
           t == k * (a - b)
           P == p * b
           R == p * (a - b)
<1>14. /\ s \in Int /\ t \in Int /\ P \in Int /\ R \in Int
       /\ P = -b + Q * s /\ R = (b - a) + Q * t
       /\ (-y) * ((a + z * b) - (a - z * b)) = -(2 * P) /\ z * ((-y) * (a - b)) = -R
  BY <1>12, <1>13
<1> HIDE DEF s, t, P, R
<1>15. /\ b + b = -(2 * P) + Q * (2 * s)
       /\ a + a = ((a + b) + (-R)) + Q * t
       /\ b + b = ((a + b) - (-R)) + Q * (-t)
  BY <1>1, <1>14
<1>16. 2 * s \in Int /\ -t \in Int
  BY <1>14
<1>17. Is(ElemMul(ElemNeg(y), ElemSub(ElemAdd(a, ElemMul(z, b)), ElemSub(a, ElemMul(z, b)))), b + b)
  BY <1>6, <1>14, <1>15, <1>16, IsUpTo
<1>18. /\ Is(ElemAdd(ElemAdd(a, b), ElemMul(z, ElemMul(ElemNeg(y), ElemSub(a, b)))), a + a)
       /\ Is(ElemSub(ElemAdd(a, b), ElemMul(z, ElemMul(ElemNeg(y), ElemSub(a, b)))), b + b)
  BY <1>9, <1>14, <1>15, <1>16, IsUpTo
<1> QED
  BY <1>3, <1>5, <1>10, <1>17, <1>18, IsOne

-----------------------------------------------------------------------------
(* The two coefficients a root is for.                                        *)
LEMMA Partner ==
  ASSUME NEW len \in Nat \ {0}, NEW j \in Nat
  PROVE  /\ Low(j, len) => /\ ~Low(j + len, len) /\ (j + len) \div (2 * len) = j \div (2 * len)
                           /\ (j + len) - len = j
         /\ ~Low(j, len) => /\ Low(j - len, len) /\ (j - len) \div (2 * len) = j \div (2 * len)
                            /\ (j - len) + len = j /\ j - len \in Nat
<1> DEFINE M == 2 * len
           q == j \div M
           r == j % M
<1>1. M \in Nat \ {0} /\ len \in Nat /\ M = 2 * len
  OBVIOUS
<1>2. Low(j, len) <=> r < len
  BY DEF Low
<1> HIDE DEF M
<1>3. j = M * q + r /\ r \in 0 .. M - 1 /\ q \in Nat
  BY <1>1, DivMod
<1> HIDE DEF q, r
<1>4. M * q \in Nat
  BY <1>1, <1>3
<1>5. ASSUME r < len
      PROVE  (j + len) % M >= len /\ (j + len) \div M = q
  <2>1. j + len = M * q + (r + len) /\ r + len \in 0 .. M - 1
    BY <1>1, <1>3, <1>4, <1>5
  <2>2. (M * q + (r + len)) \div M = q /\ (M * q + (r + len)) % M = r + len
    BY <1>1, <1>3, <2>1, DivUnique
  <2> QED
    BY <1>1, <1>3, <2>1, <2>2
<1>6. ASSUME ~(r < len)
      PROVE  (j - len) % M < len /\ (j - len) \div M = q /\ j - len \in Nat
  <2>1. j - len = M * q + (r - len) /\ r - len \in 0 .. M - 1
    BY <1>1, <1>3, <1>4, <1>6
  <2>2. (M * q + (r - len)) \div M = q /\ (M * q + (r - len)) % M = r - len
    BY <1>1, <1>3, <2>1, DivUnique
  <2> QED
    BY <1>1, <1>3, <1>4, <2>1, <2>2
<1>7. Low(j + len, len) <=> (j + len) % M < len
  BY DEF Low, M
<1>8. Low(j - len, len) <=> (j - len) % M < len
  BY DEF Low, M
<1>9. /\ ~((j + len) % M >= len /\ (j + len) % M < len)
  <2>1. (j + len) % M \in Int
    BY <1>1
  <2> QED
    BY <1>1, <2>1
<1>10. (j + len) - len = j /\ (j - len) + len = j
  BY <1>1
<1> QED
  BY <1>2, <1>5, <1>6, <1>7, <1>8, <1>9, <1>10, Zenon DEF M, q

Twice(w) == [j \in Coeff |-> ElemAdd(w[j], w[j])]

LEMMA LayerInverse ==
  ASSUME NEW n \in 1 .. LOGN, NEW w \in Polynomial
  PROVE  /\ bwd(2^(n - 1), 2^(LOGN - n), fwd(2^(n - 1), 2^(LOGN - n), w)) = Twice(w)
         /\ fwd(2^(n - 1), 2^(LOGN - n), bwd(2^(n - 1), 2^(LOGN - n), w)) = Twice(w)
<1> DEFINE B == 2^(n - 1)
           len == 2^(LOGN - n)
           fw == fwd(B, len, w)
           bw == bwd(B, len, w)
           bf == bwd(B, len, fw)
           fb == fwd(B, len, bw)
           ff == fwd(B, len, fw)
           bb == bwd(B, len, bw)
<1>1. B \in Nat \ {0} /\ len \in Nat \ {0} /\ N = B * (2 * len) /\ n - 1 \in 0 .. LOGN - 1
  <2>1. n - 1 \in 0 .. LOGN - 1
    BY Lengths
  <2>2. B \in Nat \ {0} /\ len \in Nat \ {0} /\ N = B * (2 * len)
    BY LayerSizes, Zenon
  <2> QED
    BY <2>1, <2>2, Zenon
<1>2. \A b \in 0 .. B - 1 : ElemMul(ZETA_POW_BITREV[B + b], ZETA_POW_BITREV[2 * B - 1 - b]) = Q - 1
  BY <1>1, OppositeRoots
<1>3. \A b \in 0 .. B - 1 : /\ ZETA_POW_BITREV[B + b] \in Elem /\ ZETA_POW_BITREV[2 * B - 1 - b] \in Elem
  BY <1>1, OppositeReversals, RootIs
<1> HIDE DEF B, len
<1>4. fw \in Polynomial /\ bw \in Polynomial
  BY <1>1, LayerTyped
<1> HIDE DEF fw, bw
<1>5. bf \in Polynomial /\ fb \in Polynomial
  BY <1>1, <1>4, LayerTyped
<1>6. ASSUME NEW j \in Coeff
      PROVE  bf[j] = ElemAdd(w[j], w[j]) /\ fb[j] = ElemAdd(w[j], w[j])
  <2> DEFINE q == j \div (2 * len)
             z == ZETA_POW_BITREV[B + q]
             y == ZETA_POW_BITREV[2 * B - 1 - q]
             m == ElemNeg(y)
  <2>1. q \in 0 .. B - 1 /\ Low(j, len) \in BOOLEAN
    BY <1>1, Blocks
  <2>2. z \in Elem /\ y \in Elem /\ ElemMul(z, y) = Q - 1
    BY <1>2, <1>3, <2>1, Zenon
  <2>3. j \in Nat
    BY Field DEF Coeff
  <2>4. RootAt(B, len, j) = z /\ BackRootAt(B, len, j) = m
    BY Zenon DEF RootAt, BackRootAt
  <2>5. /\ Cell(len, j, w, z, m, fw, bw) /\ Cell(len, j, fw, z, m, ff, bf)
        /\ Cell(len, j, bw, z, m, fb, bb)
    BY <1>1, <1>4, <2>4, CellIs, Zenon DEF fw, bw
  <2>6. ASSUME NEW i \in Coeff, i \div (2 * len) = q
        PROVE  Cell(len, i, w, z, m, fw, bw)
    <3>1. RootAt(B, len, i) = z /\ BackRootAt(B, len, i) = m
      BY <2>6, Zenon DEF RootAt, BackRootAt
    <3> QED
      BY <1>1, <3>1, CellIs, Zenon DEF fw, bw
  <2>7. CASE Low(j, len)
    <3> DEFINE i == j + len
               a == w[j]
               b == w[i]
    <3>1. i \in Coeff /\ ~Low(i, len) /\ i - len = j /\ i \div (2 * len) = q
      BY <1>1, <2>3, <2>5, <2>7, Partner, Zenon DEF Cell
    <3>2. Cell(len, i, w, z, m, fw, bw)
      BY <2>6, <3>1, Zenon
    <3>3. /\ a \in Elem /\ b \in Elem
          /\ fw[j] = ElemAdd(a, ElemMul(z, b)) /\ bw[j] = ElemAdd(a, b)
          /\ bf[j] = ElemAdd(fw[j], fw[i]) /\ fb[j] = ElemAdd(bw[j], ElemMul(z, bw[i]))
      BY <2>5, <2>7, Zenon DEF Cell
    <3>4. fw[i] = ElemSub(a, ElemMul(z, b)) /\ bw[i] = ElemMul(m, ElemSub(a, b))
      BY <3>1, <3>2, Zenon DEF Cell
    <3> HIDE DEF z, y, i, a, b
    <3>5. /\ ElemAdd(ElemAdd(a, ElemMul(z, b)), ElemSub(a, ElemMul(z, b))) = ElemAdd(a, a)
          /\ ElemAdd(ElemAdd(a, b), ElemMul(z, ElemMul(m, ElemSub(a, b)))) = ElemAdd(a, a)
      BY ONLY <2>2, <3>3, ThereAndBack, SMTT(60)
    <3> QED
      BY <3>3, <3>4, <3>5, Zenon DEF a
  <2>8. CASE ~Low(j, len)
    <3> DEFINE i == j - len
               a == w[i]
               b == w[j]
    <3>1. i \in Coeff /\ Low(i, len) /\ i + len = j /\ i \div (2 * len) = q
      BY <1>1, <2>3, <2>5, <2>8, Partner, Zenon DEF Cell
    <3>2. Cell(len, i, w, z, m, fw, bw)
      BY <2>6, <3>1, Zenon
    <3>3. /\ a \in Elem /\ b \in Elem
          /\ fw[j] = ElemSub(a, ElemMul(z, b)) /\ bw[j] = ElemMul(m, ElemSub(a, b))
          /\ bf[j] = ElemMul(m, ElemSub(fw[i], fw[j])) /\ fb[j] = ElemSub(bw[i], ElemMul(z, bw[j]))
      BY <2>5, <2>8, Zenon DEF Cell
    <3>4. fw[i] = ElemAdd(a, ElemMul(z, b)) /\ bw[i] = ElemAdd(a, b)
      BY <3>1, <3>2, Zenon DEF Cell
    <3> HIDE DEF z, y, i, a, b
    <3>5. /\ ElemMul(m, ElemSub(ElemAdd(a, ElemMul(z, b)), ElemSub(a, ElemMul(z, b)))) = ElemAdd(b, b)
          /\ ElemSub(ElemAdd(a, b), ElemMul(z, ElemMul(m, ElemSub(a, b)))) = ElemAdd(b, b)
      BY ONLY <2>2, <3>3, ThereAndBack, SMTT(60)
    <3> QED
      BY <3>3, <3>4, <3>5, Zenon DEF b
  <2> QED
    BY <2>7, <2>8
<1>7. bf = [j \in Coeff |-> bf[j]] /\ fb = [j \in Coeff |-> fb[j]]
  BY <1>5 DEF Polynomial
<1> HIDE DEF bf, fb
<1>8. bf = Twice(w) /\ fb = Twice(w)
  BY <1>6, <1>7, Zenon DEF Twice
<1> QED
  BY <1>8, Zenon DEF bf, fb, fw, bw, B, len

-----------------------------------------------------------------------------
LEMMA ZeroIs ==
  /\ ZeroPoly \in Polynomial /\ 0 \in Elem /\ \A j \in Coeff : ZeroPoly[j] = 0
  /\ ZeroPoly = [j \in Coeff |-> 0]
BY ZeroTyped, Field DEF ZeroPoly, Elem

LEMMA ScaleIsCombined ==
  ASSUME NEW x \in Elem, NEW f \in Polynomial
  PROVE  PolyScale(x, f) = Combined(ZeroPoly, x, f)
<1>1. ASSUME NEW j \in Coeff
      PROVE  ElemAdd(ZeroPoly[j], ElemMul(x, f[j])) = ElemMul(x, f[j])
  <2>1. f[j] \in Elem /\ ZeroPoly[j] = 0
    BY ZeroIs DEF Polynomial
  <2>2. ElemMul(x, f[j]) \in Elem
    BY <2>1, FieldOps
  <2>3. ElemAdd(0, ElemMul(x, f[j])) = ElemMul(x, f[j])
    BY <2>2, MulUnits
  <2> QED
    BY <2>1, <2>3, Zenon
<1>2. PolyScale(x, f) = [j \in Coeff |-> ElemMul(x, f[j])]
  BY ScaleIs
<1> QED
  BY <1>1, <1>2, Zenon DEF Combined

LEMMA LayerZero ==
  ASSUME NEW len \in Nat \ {0}, NEW B \in Nat \ {0}, N = B * (2 * len)
  PROVE  fwd(B, len, ZeroPoly) = ZeroPoly /\ bwd(B, len, ZeroPoly) = ZeroPoly
<1> DEFINE fw == fwd(B, len, ZeroPoly)
           bw == bwd(B, len, ZeroPoly)
<1>1. fw \in Polynomial /\ bw \in Polynomial
  BY ZeroIs, LayerTyped
<1>2. ASSUME NEW j \in Coeff
      PROVE  fw[j] = 0 /\ bw[j] = 0
  <2> DEFINE z == RootAt(B, len, j)
             m == BackRootAt(B, len, j)
  <2>1. z \in Elem /\ m \in Elem /\ Cell(len, j, ZeroPoly, z, m, fw, bw)
    BY ZeroIs, CellIs, Zenon
  <2> HIDE DEF z, m, fw, bw
  <2>2. ElemMul(z, 0) = 0 /\ ElemMul(m, 0) = 0 /\ ElemAdd(0, 0) = 0 /\ ElemSub(0, 0) = 0
    BY <2>1, ZeroIs, MulUnits
  <2>3. CASE Low(j, len)
    <3>1. /\ j + len \in Coeff /\ fw[j] = ElemAdd(ZeroPoly[j], ElemMul(z, ZeroPoly[j + len]))
          /\ bw[j] = ElemAdd(ZeroPoly[j], ZeroPoly[j + len])
      BY <2>1, <2>3, Zenon DEF Cell
    <3>2. ZeroPoly[j] = 0 /\ ZeroPoly[j + len] = 0
      BY <3>1, ZeroIs
    <3> QED
      BY <2>2, <3>1, <3>2, Zenon
  <2>4. CASE ~Low(j, len)
    <3>1. /\ j - len \in Coeff /\ fw[j] = ElemSub(ZeroPoly[j - len], ElemMul(z, ZeroPoly[j]))
          /\ bw[j] = ElemMul(m, ElemSub(ZeroPoly[j - len], ZeroPoly[j]))
      BY <2>1, <2>4, Zenon DEF Cell
    <3>2. ZeroPoly[j] = 0 /\ ZeroPoly[j - len] = 0
      BY <3>1, ZeroIs
    <3> QED
      BY <2>2, <3>1, <3>2, Zenon
  <2> QED
    BY <2>3, <2>4
<1>3. fw = [j \in Coeff |-> fw[j]] /\ bw = [j \in Coeff |-> bw[j]]
  BY <1>1 DEF Polynomial
<1> HIDE DEF fw, bw
<1>4. fw = ZeroPoly /\ bw = ZeroPoly
  BY <1>2, <1>3, ZeroIs, Zenon
<1> QED
  BY <1>4 DEF fw, bw

LEMMA LayerScale ==
  ASSUME NEW len \in Nat \ {0}, NEW B \in Nat \ {0}, N = B * (2 * len),
         NEW x \in Elem, NEW f \in Polynomial
  PROVE  /\ fwd(B, len, PolyScale(x, f)) = PolyScale(x, fwd(B, len, f))
         /\ bwd(B, len, PolyScale(x, f)) = PolyScale(x, bwd(B, len, f))
<1> DEFINE fw == fwd(B, len, f)
           bw == bwd(B, len, f)
<1>1. fw \in Polynomial /\ bw \in Polynomial /\ ZeroPoly \in Polynomial
  BY ZeroIs, LayerTyped
<1>2. /\ fwd(B, len, Combined(ZeroPoly, x, f)) = Combined(fwd(B, len, ZeroPoly), x, fw)
      /\ bwd(B, len, Combined(ZeroPoly, x, f)) = Combined(bwd(B, len, ZeroPoly), x, bw)
  BY <1>1, LayerCombined
<1>3. fwd(B, len, ZeroPoly) = ZeroPoly /\ bwd(B, len, ZeroPoly) = ZeroPoly
  BY LayerZero
<1> HIDE DEF fw, bw
<1>4. PolyScale(x, f) = Combined(ZeroPoly, x, f)
  BY ScaleIsCombined
<1>5. PolyScale(x, fw) = Combined(ZeroPoly, x, fw) /\ PolyScale(x, bw) = Combined(ZeroPoly, x, bw)
  BY <1>1, ScaleIsCombined
<1> QED
  BY <1>2, <1>3, <1>4, <1>5, Zenon DEF fw, bw

LEMMA ScaleScale ==
  ASSUME NEW x \in Elem, NEW y \in Elem, NEW f \in Polynomial
  PROVE  /\ PolyScale(x, PolyScale(y, f)) = PolyScale(ElemMul(x, y), f)
         /\ PolyScale(x, Twice(f)) = PolyScale(ElemAdd(x, x), f)
         /\ PolyScale(1, f) = f
<1> DEFINE g == PolyScale(y, f)
           t == Twice(f)
<1>1. \A j \in Coeff : f[j] \in Elem
  BY DEF Polynomial
<1>2. g \in Polynomial /\ g = [j \in Coeff |-> ElemMul(y, f[j])]
  BY ScaleIs
<1>3. t \in Polynomial /\ t = [j \in Coeff |-> ElemAdd(f[j], f[j])]
  BY <1>1, FieldOps DEF Twice, Polynomial
<1>4. ElemMul(x, y) \in Elem /\ ElemAdd(x, x) \in Elem /\ 1 \in Elem
  <2>1. 1 \in Elem
    BY Field DEF Elem
  <2> QED
    BY <2>1, FieldOps
<1>5. /\ PolyScale(x, g) = [j \in Coeff |-> ElemMul(x, g[j])]
      /\ PolyScale(x, t) = [j \in Coeff |-> ElemMul(x, t[j])]
      /\ PolyScale(ElemMul(x, y), f) = [j \in Coeff |-> ElemMul(ElemMul(x, y), f[j])]
      /\ PolyScale(ElemAdd(x, x), f) = [j \in Coeff |-> ElemMul(ElemAdd(x, x), f[j])]
      /\ PolyScale(1, f) = [j \in Coeff |-> ElemMul(1, f[j])]
  <2> HIDE DEF g, t
  <2> QED
    BY <1>2, <1>3, <1>4, ScaleIs, Zenon
<1>6. \A j \in Coeff : g[j] = ElemMul(y, f[j]) /\ t[j] = ElemAdd(f[j], f[j])
  <2> HIDE DEF g, t
  <2> QED
    BY <1>2, <1>3, Zenon
<1> HIDE DEF g, t
<1>7. ASSUME NEW j \in Coeff
      PROVE  /\ ElemMul(x, g[j]) = ElemMul(ElemMul(x, y), f[j])
             /\ ElemMul(x, t[j]) = ElemMul(ElemAdd(x, x), f[j])
             /\ ElemMul(1, f[j]) = f[j]
  <2> DEFINE a == f[j]
  <2>1. a \in Elem /\ g[j] = ElemMul(y, a) /\ t[j] = ElemAdd(a, a)
    BY <1>1, <1>6
  <2> HIDE DEF a
  <2>2. ElemMul(x, ElemMul(y, a)) = ElemMul(ElemMul(x, y), a) /\ ElemMul(1, a) = a
    BY <2>1, MulAssociates, MulUnits
  <2>3. ElemMul(x, ElemAdd(a, a)) = ElemMul(ElemAdd(x, x), a)
    <3>1. Is(x, x) /\ Is(a, a) /\ x \in Int /\ a \in Int
      BY <2>1, IsSelf
    <3>2. Is(ElemAdd(a, a), a + a) /\ Is(ElemAdd(x, x), x + x)
      BY <3>1, IsOps
    <3>3. Is(ElemMul(x, ElemAdd(a, a)), x * (a + a)) /\ Is(ElemMul(ElemAdd(x, x), a), (x + x) * a)
      BY <3>1, <3>2, IsOps
    <3>4. x * (a + a) = (x + x) * a
      BY <3>1
    <3> QED
      BY <3>3, <3>4, IsOne
  <2> QED
    BY <2>1, <2>2, <2>3, Zenon DEF a
<1>8. f = [j \in Coeff |-> f[j]]
  BY DEF Polynomial
<1> QED
  BY <1>5, <1>7, <1>8, Zenon DEF g, t

-----------------------------------------------------------------------------
(* What k layers there and back multiply by.                                  *)
Doublings(k) == 2^k % Q

LEMMA DoublingsAre ==
  /\ Doublings(0) = 1 /\ \A k \in 0 .. LOGN : Doublings(k) \in Elem
  /\ \A k \in 1 .. LOGN : ElemAdd(Doublings(k - 1), Doublings(k - 1)) = Doublings(k)
  /\ ElemMul(INVERSE_N, Doublings(LOGN)) = 1
<1>1. Q \in Nat /\ Q > 2 /\ LOGN \in 3 .. 29 /\ N = 2^LOGN /\ N \in Nat \ {0}
  BY Lengths, Field
<1>2. Doublings(0) = 1
  <2>1. 2^0 = 1 /\ 1 % Q = 1
    BY <1>1, PowerTable, SmallMod
  <2> QED
    BY <2>1 DEF Doublings
<1>3. ASSUME NEW k \in 0 .. LOGN
      PROVE  Doublings(k) \in Elem /\ Is(Doublings(k), 2^k)
  <2>1. 2^k \in Int
    BY Lengths
  <2>2. Is(2^k % Q, 2^k)
    <3> DEFINE p == 2^k
    <3> HIDE DEF p
    <3>1. p \in Int => Is(p % Q, p)
      BY IsMod
    <3> QED
      BY <2>1, <3>1 DEF p
  <2> QED
    BY <2>2, Zenon DEF Is, Doublings
<1>4. ASSUME NEW k \in 1 .. LOGN
      PROVE  ElemAdd(Doublings(k - 1), Doublings(k - 1)) = Doublings(k)
  <2> DEFINE a == Doublings(k - 1)
             b == Doublings(k)
             p == 2^(k - 1)
             r == 2^k
  <2>1. k - 1 \in 0 .. LOGN /\ k \in 0 .. LOGN
    BY <1>1
  <2>2. Is(a, p) /\ Is(b, r)
    BY <1>3, <2>1, Zenon
  <2>3. p \in Nat \ {0} /\ r = 2 * p
    BY LayerSizes, Zenon
  <2> HIDE DEF a, b, p, r
  <2>4. Is(ElemAdd(a, a), p + p) /\ p + p = r
    BY <2>2, <2>3, IsOps
  <2>5. ElemAdd(a, a) = b
    BY <2>2, <2>4, IsOne
  <2> QED
    BY <2>5 DEF a, b
<1>5. ElemMul(INVERSE_N, Doublings(LOGN)) = 1
  <2> DEFINE d == Doublings(LOGN)
  <2>1. LOGN \in 0 .. LOGN
    BY <1>1
  <2>2. Is(d, N)
    BY <1>1, <1>3, <2>1, Zenon
  <2> HIDE DEF d
  <2>3. INVERSE_N \in Elem /\ (INVERSE_N * N) % Q = 1
    BY NttConstants
  <2>4. Is(INVERSE_N, INVERSE_N) /\ INVERSE_N \in Int
    BY <2>3, IsSelf
  <2>5. Is(ElemMul(INVERSE_N, d), INVERSE_N * N)
    BY <2>2, <2>4, IsOps
  <2>6. INVERSE_N * N \in Int
    BY <1>1, <2>4
  <2>7. ElemMul(INVERSE_N, d) = (INVERSE_N * N) % Q
    BY <2>5, IsResidue
  <2> QED
    BY <2>3, <2>7 DEF d
<1> QED
  BY <1>2, <1>3, <1>4, <1>5

LEMMA InverseOfNtt ==
  ASSUME NEW f \in Polynomial
  PROVE  ntt_inverse(ntt(f)) = f
<1>1. PICK u : Up(f, u) /\ ntt(f) = u[LOGN]
  BY UpIs
<1>2. ntt(f) \in Polynomial
  BY NttTyped
<1>3. PICK d : Down(ntt(f), d) /\ ntt_inverse(ntt(f)) = PolyScale(INVERSE_N, d[LOGN])
  BY <1>2, DownIs
<1>4. LOGN \in 3 .. 29 /\ LOGN \in Nat /\ LOGN \in 0 .. LOGN /\ 0 \in 0 .. LOGN
  BY Lengths
<1> DEFINE T == {k \in 0 .. LOGN : d[k] = PolyScale(Doublings(k), u[LOGN - k])}
<1>5. 0 \in T
  <2>1. LOGN - 0 = LOGN
    BY <1>4
  <2>2. d[0] = u[LOGN] /\ u[LOGN] \in Polynomial
    BY <1>1, <1>2, <1>3, Zenon DEF Down
  <2>3. PolyScale(Doublings(0), u[LOGN]) = u[LOGN]
    BY <2>2, DoublingsAre, ScaleScale, ZeroIs, Zenon
  <2> QED
    BY <1>4, <2>1, <2>2, <2>3, Zenon
<1>6. ASSUME NEW k \in 1 .. LOGN, k - 1 \in T
      PROVE  k \in T
  <2> DEFINE n == LOGN - (k - 1)
             B == 2^(LOGN - k)
             len == 2^(k - 1)
             x == Doublings(k - 1)
             w == u[LOGN - k]
  <2>1. n \in 1 .. LOGN /\ n - 1 = LOGN - k /\ LOGN - n = k - 1 /\ k - 1 \in 0 .. LOGN /\ k \in 0 .. LOGN
        /\ LOGN - k \in 0 .. LOGN
    BY <1>4
  <2>2. w \in Polynomial /\ u[n] = fwd(2^(n - 1), 2^(LOGN - n), u[n - 1])
    BY <1>1, <2>1 DEF Up
  <2>3. u[n] = fwd(B, len, w)
    BY <2>1, <2>2, Zenon
  <2>4. d[k] = bwd(B, len, d[k - 1])
    BY <1>3, Zenon DEF Down
  <2>5. d[k - 1] = PolyScale(x, u[n])
    BY <1>6, Zenon
  <2>6. bwd(B, len, fwd(B, len, w)) = Twice(w)
    <3> HIDE DEF n, w
    <3>1. bwd(2^(n - 1), 2^(LOGN - n), fwd(2^(n - 1), 2^(LOGN - n), w)) = Twice(w)
      BY <2>1, <2>2, LayerInverse, Zenon
    <3> QED
      BY <2>1, <3>1, Zenon
  <2>7. B \in Nat \ {0} /\ len \in Nat \ {0} /\ N = B * (2 * len)
    <3> HIDE DEF n
    <3>1. 2^(n - 1) \in Nat \ {0} /\ 2^(LOGN - n) \in Nat \ {0} /\ N = 2^(n - 1) * (2 * 2^(LOGN - n))
      BY <2>1, LayerSizes, Zenon
    <3> QED
      BY <2>1, <3>1, Zenon
  <2>8. x \in Elem /\ ElemAdd(x, x) = Doublings(k)
    BY <2>1, DoublingsAre
  <2> HIDE DEF n, B, len, x, w
  <2>9. fwd(B, len, w) \in Polynomial
    BY <2>2, <2>7, LayerTyped
  <2>10. bwd(B, len, PolyScale(x, fwd(B, len, w))) = PolyScale(x, bwd(B, len, fwd(B, len, w)))
    BY <2>7, <2>8, <2>9, LayerScale
  <2>11. PolyScale(x, Twice(w)) = PolyScale(ElemAdd(x, x), w)
    BY <2>2, <2>8, ScaleScale
  <2>12. d[k] = PolyScale(Doublings(k), w)
    BY <2>3, <2>4, <2>5, <2>6, <2>8, <2>10, <2>11, Zenon
  <2> QED
    BY <2>1, <2>12, Zenon DEF w
<1>7. \A k \in 0 .. LOGN : k \in T
  <2> HIDE DEF T
  <2> QED
    BY <1>4, <1>5, <1>6, UpTo
<1>8. d[LOGN] = PolyScale(Doublings(LOGN), f)
  <2>1. LOGN - LOGN = 0 /\ u[0] = f
    BY <1>1, <1>4 DEF Up
  <2>2. LOGN \in T
    BY <1>4, <1>7, Zenon
  <2> QED
    BY <2>1, <2>2, Zenon
<1>9. Doublings(LOGN) \in Elem /\ INVERSE_N \in Elem
  BY <1>4, DoublingsAre, NttConstants
<1>10. PolyScale(INVERSE_N, PolyScale(Doublings(LOGN), f)) = PolyScale(ElemMul(INVERSE_N, Doublings(LOGN)), f)
  BY <1>9, ScaleScale
<1>11. PolyScale(1, f) = f
  BY ScaleScale, ZeroIs
<1> QED
  BY <1>3, <1>8, <1>10, <1>11, DoublingsAre, Zenon

LEMMA NttOfInverse ==
  ASSUME NEW f \in Polynomial
  PROVE  ntt(ntt_inverse(f)) = f
<1>1. PICK d : Down(f, d) /\ ntt_inverse(f) = PolyScale(INVERSE_N, d[LOGN])
  BY DownIs
<1>2. ntt_inverse(f) \in Polynomial
  BY NttTyped
<1>3. PICK u : Up(ntt_inverse(f), u) /\ ntt(ntt_inverse(f)) = u[LOGN]
  BY <1>2, UpIs
<1>4. LOGN \in 3 .. 29 /\ LOGN \in Nat /\ LOGN \in 0 .. LOGN /\ 0 \in 0 .. LOGN
  BY Lengths
<1> DEFINE c(k) == ElemMul(INVERSE_N, Doublings(k))
           T == {k \in 0 .. LOGN : u[k] = PolyScale(c(k), d[LOGN - k])}
<1>5. /\ INVERSE_N \in Elem /\ \A k \in 0 .. LOGN : c(k) \in Elem
      /\ c(0) = INVERSE_N /\ c(LOGN) = 1
  <2>1. INVERSE_N \in Elem
    BY NttConstants
  <2>2. ASSUME NEW k \in 0 .. LOGN
        PROVE  c(k) \in Elem
    <3>1. Doublings(k) \in Elem
      BY DoublingsAre
    <3> QED
      BY <2>1, <3>1, FieldOps
  <2>3. c(0) = INVERSE_N
    BY <2>1, DoublingsAre, MulUnits
  <2>4. c(LOGN) = 1
    BY DoublingsAre
  <2> QED
    BY <2>1, <2>2, <2>3, <2>4
<1>6. ASSUME NEW k \in 1 .. LOGN
      PROVE  ElemAdd(c(k - 1), c(k - 1)) = c(k)
  <2> DEFINE a == Doublings(k - 1)
             i == INVERSE_N
  <2>1. k - 1 \in 0 .. LOGN
    BY <1>4
  <2>2. a \in Elem /\ i \in Elem /\ ElemAdd(a, a) = Doublings(k)
    BY <1>5, <2>1, DoublingsAre
  <2> HIDE DEF a, i
  <2>3. ElemAdd(ElemMul(i, a), ElemMul(i, a)) = ElemMul(i, ElemAdd(a, a))
    <3>1. Is(i, i) /\ Is(a, a) /\ i \in Int /\ a \in Int
      BY <2>2, IsSelf
    <3>2. Is(ElemMul(i, a), i * a) /\ Is(ElemAdd(a, a), a + a)
      BY <3>1, IsOps
    <3>3. Is(ElemAdd(ElemMul(i, a), ElemMul(i, a)), i * a + i * a) /\ Is(ElemMul(i, ElemAdd(a, a)), i * (a + a))
      BY <3>1, <3>2, IsOps
    <3>4. i * a + i * a = i * (a + a)
      BY <3>1
    <3> QED
      BY <3>3, <3>4, IsOne
  <2> QED
    BY <2>2, <2>3, Zenon DEF a, i
<1> HIDE DEF c
<1>7. 0 \in T
  <2>1. LOGN - 0 = LOGN
    BY <1>4
  <2>2. u[0] = PolyScale(INVERSE_N, d[LOGN])
    BY <1>1, <1>3, Zenon DEF Up
  <2> QED
    BY <1>4, <1>5, <2>1, <2>2, Zenon
<1>8. ASSUME NEW k \in 1 .. LOGN, k - 1 \in T
      PROVE  k \in T
  <2> DEFINE n == LOGN - (k - 1)
             B == 2^(k - 1)
             len == 2^(LOGN - k)
             x == c(k - 1)
             w == d[LOGN - k]
  <2>1. n \in 1 .. LOGN /\ n - 1 = LOGN - k /\ LOGN - n = k - 1 /\ k - 1 \in 0 .. LOGN /\ k \in 0 .. LOGN
        /\ LOGN - k \in 0 .. LOGN
    BY <1>4
  <2>2. w \in Polynomial /\ d[n] = bwd(2^(LOGN - n), 2^(n - 1), d[n - 1])
    BY <1>1, <2>1 DEF Down
  <2>3. d[n] = bwd(B, len, w)
    BY <2>1, <2>2, Zenon
  <2>4. u[k] = fwd(B, len, u[k - 1])
    BY <1>3, Zenon DEF Up
  <2>5. u[k - 1] = PolyScale(x, d[n])
    BY <1>8, Zenon
  <2>6. fwd(B, len, bwd(B, len, w)) = Twice(w)
    BY <2>2, LayerInverse, Zenon
  <2>7. B \in Nat \ {0} /\ len \in Nat \ {0} /\ N = B * (2 * len)
    BY LayerSizes, Zenon
  <2>8. x \in Elem /\ ElemAdd(x, x) = c(k)
    BY <1>5, <1>6, <2>1
  <2> HIDE DEF n, B, len, x, w
  <2>9. bwd(B, len, w) \in Polynomial
    BY <2>2, <2>7, LayerTyped
  <2>10. fwd(B, len, PolyScale(x, bwd(B, len, w))) = PolyScale(x, fwd(B, len, bwd(B, len, w)))
    BY <2>7, <2>8, <2>9, LayerScale
  <2>11. PolyScale(x, Twice(w)) = PolyScale(ElemAdd(x, x), w)
    BY <2>2, <2>8, ScaleScale
  <2>12. u[k] = PolyScale(c(k), w)
    BY <2>3, <2>4, <2>5, <2>6, <2>8, <2>10, <2>11, Zenon
  <2> QED
    BY <2>1, <2>12, Zenon DEF w
<1>9. \A k \in 0 .. LOGN : k \in T
  <2> HIDE DEF T
  <2> QED
    BY <1>4, <1>7, <1>8, UpTo
<1>10. u[LOGN] = PolyScale(1, f)
  <2>1. LOGN - LOGN = 0 /\ d[0] = f
    BY <1>1, <1>4 DEF Down
  <2>2. LOGN \in T
    BY <1>4, <1>9, Zenon
  <2> QED
    BY <1>5, <2>1, <2>2, Zenon
<1>11. PolyScale(1, f) = f
  BY ScaleScale, ZeroIs
<1> QED
  BY <1>3, <1>10, <1>11, Zenon

-----------------------------------------------------------------------------
(* i is the place s of block q.                                               *)
SitsAt(len, q, s, i) ==
  /\ i \in Coeff /\ i \div (2 * len) = q /\ i % (2 * len) = s /\ (Low(i, len) <=> s < len)
  /\ s < len => i % len = s /\ i \div len = 2 * q
  /\ s >= len => i % len = s - len /\ i \div len = 2 * q + 1

LEMMA InBlock ==
  ASSUME NEW len \in Nat \ {0}, NEW B \in Nat \ {0}, N = B * (2 * len),
         NEW q \in 0 .. B - 1, NEW s \in 0 .. 2 * len - 1
  PROVE  SitsAt(len, q, s, (2 * len) * q + s)
<1> DEFINE M == 2 * len
           b == len * q
           i == (2 * len) * q + s
<1>1. M \in Nat \ {0} /\ len \in Nat /\ M = 2 * len /\ q \in Nat /\ s \in Nat
  OBVIOUS
<1>2. b \in Nat /\ M * q = 2 * b /\ b = len * q
  BY <1>1
<1>3. M * q + M <= N
  <2>1. (q + 1) * M <= B * M
    BY <1>1, MulMono
  <2>2. (q + 1) * M = M * q + M /\ B * M = N
    BY <1>1
  <2> QED
    BY <2>1, <2>2
<1>4. i \in Coeff
  <2>1. M * q + M <= N /\ M * q = 2 * b /\ i = M * q + s
    BY <1>2, <1>3
  <2> HIDE DEF M, b
  <2> QED
    BY <1>1, <1>2, <2>1, Field DEF Coeff
<1>5. i \div M = q /\ i % M = s
  BY <1>1, DivUnique
<1>6. Low(i, len) <=> s < len
  BY <1>5 DEF Low
<1>7. ASSUME s < len
      PROVE  i % len = s /\ i \div len = 2 * q
  <2>1. i = len * (2 * q) + s /\ s \in 0 .. len - 1 /\ 2 * q \in Nat
    BY <1>1, <1>7
  <2> QED
    BY <2>1, DivUnique
<1>8. ASSUME s >= len
      PROVE  i % len = s - len /\ i \div len = 2 * q + 1
  <2>1. len * (2 * q + 1) = 2 * b + len
    BY <1>1, <1>2
  <2>2. i = 2 * b + s
    BY <1>1, <1>2
  <2>3. i = len * (2 * q + 1) + (s - len) /\ s - len \in 0 .. len - 1 /\ 2 * q + 1 \in Nat
    <3> DEFINE e == len * (2 * q + 1)
    <3> HIDE DEF b
    <3>1. e = 2 * b + len
      BY <2>1
    <3> HIDE DEF e
    <3>2. i = e + (s - len)
      BY <1>1, <1>2, <2>2, <3>1
    <3>3. s - len \in 0 .. len - 1 /\ 2 * q + 1 \in Nat
      BY <1>1, <1>8
    <3> QED
      BY <3>2, <3>3 DEF e
  <2> DEFINE d == 2 * q + 1
             r == s - len
  <2>4. i = len * d + r /\ r \in 0 .. len - 1 /\ d \in Nat
    BY <2>3
  <2> HIDE DEF d, r
  <2>5. i % len = r /\ i \div len = d
    BY <2>4, DivUnique
  <2> QED
    BY <2>5 DEF d, r
<1> QED
  BY <1>4, <1>5, <1>6, <1>7, <1>8, Zenon DEF SitsAt

(* w times X in B blocks of L coefficients, each modulo its X^L - Modulus.    *)
Shifted(B, len, w) ==
  [j \in Coeff |-> IF j % len = 0 THEN ElemMul(Modulus(B + (j \div len)), w[j + len - 1]) ELSE w[j - 1]]

LEMMA ShiftedTyped ==
  ASSUME NEW len \in Nat \ {0}, NEW B \in Nat \ {0}, N = B * len, NEW w \in Polynomial
  PROVE  Shifted(B, len, w) \in Polynomial
<1>1. ASSUME NEW j \in Coeff
      PROVE  Shifted(B, len, w)[j] \in Elem
  <2> DEFINE q == j \div len
             r == j % len
  <2>1. j \in Nat /\ j <= N - 1 /\ N \in Nat
    BY Field DEF Coeff
  <2>2. j = len * q + r /\ r \in 0 .. len - 1 /\ q \in Nat
    BY <2>1, DivMod
  <2>3. Shifted(B, len, w)[j] = IF r = 0 THEN ElemMul(Modulus(B + q), w[j + len - 1]) ELSE w[j - 1]
    BY DEF Shifted
  <2> HIDE DEF q, r
  <2>4. q <= B - 1
    <3>1. CASE B <= q
      <4>1. B * len <= q * len /\ q * len = len * q /\ len * q \in Nat
        BY <2>2, <3>1, MulMono
      <4> QED
        BY <2>1, <2>2, <4>1
    <3> QED
      BY <2>2, <3>1
  <2>5. CASE r = 0
    <3>1. (q + 1) * len <= B * len /\ (q + 1) * len = len * q + len
      BY <2>2, <2>4, MulMono
    <3>2. j + len - 1 \in Coeff
      BY <2>1, <2>2, <2>5, <3>1 DEF Coeff
    <3>3. B <= N
      <4>1. 1 * B <= len * B /\ len * B = B * len
        BY MulMono
      <4> QED
        BY <4>1
    <3>4. B + q \in 1 .. 2 * N - 1
      BY <2>1, <2>2, <2>4, <3>3
    <3>5. Modulus(B + q) \in Elem
      BY <3>4, ModulusTyped
    <3>6. w[j + len - 1] \in Elem
      BY <3>2 DEF Polynomial
    <3>7. ElemMul(Modulus(B + q), w[j + len - 1]) \in Elem
      BY <3>5, <3>6, ElemClosed, Zenon
    <3> QED
      BY <2>3, <2>5, <3>7
  <2>6. CASE r # 0
    <3>1. len * q \in Nat
      BY <2>2
    <3>2. j - 1 \in Coeff
      BY <2>1, <2>2, <2>6, <3>1 DEF Coeff
    <3>3. w[j - 1] \in Elem
      BY <3>2 DEF Polynomial
    <3> QED
      BY <2>3, <2>6, <3>3
  <2> QED
    BY <2>5, <2>6
<1>2. Shifted(B, len, w) = [j \in Coeff |-> Shifted(B, len, w)[j]]
  BY DEF Shifted
<1> QED
  BY <1>1, <1>2 DEF Polynomial

LEMMA TurnedSum ==
  ASSUME NEW z \in Elem, NEW a \in Elem, NEW b \in Elem
  PROVE  /\ ElemAdd(ElemMul(ElemMul(z, z), a), ElemMul(z, b)) = ElemMul(z, ElemAdd(b, ElemMul(z, a)))
         /\ ElemSub(ElemMul(ElemMul(z, z), a), ElemMul(z, b)) = ElemMul(ElemNeg(z), ElemSub(b, ElemMul(z, a)))
<1>1. Is(z, z) /\ Is(a, a) /\ Is(b, b) /\ z \in Int /\ a \in Int /\ b \in Int
  BY IsSelf
<1>2. Is(ElemMul(z, z), z * z) /\ Is(ElemMul(z, b), z * b) /\ Is(ElemMul(z, a), z * a) /\ Is(ElemNeg(z), -z)
  BY <1>1, IsOps
<1>3. /\ Is(ElemMul(ElemMul(z, z), a), (z * z) * a)
      /\ Is(ElemAdd(b, ElemMul(z, a)), b + z * a) /\ Is(ElemSub(b, ElemMul(z, a)), b - z * a)
  BY <1>1, <1>2, IsOps
<1>4. /\ Is(ElemAdd(ElemMul(ElemMul(z, z), a), ElemMul(z, b)), (z * z) * a + z * b)
      /\ Is(ElemSub(ElemMul(ElemMul(z, z), a), ElemMul(z, b)), (z * z) * a - z * b)
  BY <1>2, <1>3, IsOps
<1>5. /\ Is(ElemMul(z, ElemAdd(b, ElemMul(z, a))), z * (b + z * a))
      /\ Is(ElemMul(ElemNeg(z), ElemSub(b, ElemMul(z, a))), (-z) * (b - z * a))
  BY <1>1, <1>2, <1>3, IsOps
<1>6. (z * z) * a + z * b = z * (b + z * a) /\ (z * z) * a - z * b = (-z) * (b - z * a)
  BY <1>1
<1> QED
  BY <1>4, <1>5, <1>6, IsOne

-----------------------------------------------------------------------------
(* A layer takes the product with X of its blocks to that of the halves.      *)
LEMMA ShiftCommutes ==
  ASSUME NEW len \in Nat \ {0}, NEW B \in Nat \ {0}, N = B * (2 * len), NEW w \in Polynomial
  PROVE  fwd(B, len, Shifted(B, 2 * len, w)) = Shifted(2 * B, len, fwd(B, len, w))
<1> DEFINE M == 2 * len
           x == Shifted(B, M, w)
           fw == fwd(B, len, w)
           fx == fwd(B, len, x)
           y == Shifted(2 * B, len, fw)
           bw == bwd(B, len, w)
           bx == bwd(B, len, x)
<1>1. M \in Nat \ {0} /\ len \in Nat /\ len < M /\ M = len + len /\ N \in Nat /\ Coeff = 0 .. N - 1
  BY Field DEF Coeff
<1>2. x \in Polynomial /\ fw \in Polynomial
  BY ShiftedTyped, LayerTyped
<1>3. fx \in Polynomial
  BY <1>2, LayerTyped
<1>4. 2 * B \in Nat \ {0} /\ N = (2 * B) * len
  OBVIOUS
<1>5. y \in Polynomial
  BY <1>2, <1>4, ShiftedTyped
<1>6. ASSUME NEW j \in Coeff
      PROVE  fx[j] = y[j]
  <2> DEFINE q == j \div M
             r == j % M
             z == ZETA_POW_BITREV[B + q]
             m == ElemNeg(ZETA_POW_BITREV[2 * B - 1 - q])
             at(s) == M * q + s
  <2>1. q \in 0 .. B - 1 /\ r \in 0 .. M - 1 /\ j = at(r)
    <3>1. j \in Nat
      BY <1>1
    <3>2. r \in 0 .. M - 1 /\ j = at(r)
      BY <1>1, <3>1, DivMod
    <3>3. q \in 0 .. B - 1
      BY Blocks
    <3> QED
      BY <3>2, <3>3
  <2>2. B + q \in 1 .. N - 1
    <3>1. B + B <= N
      <4>1. 1 * (2 * B) <= len * (2 * B) /\ N = len * (2 * B)
        BY MulMono
      <4> QED
        BY <4>1
    <3> HIDE DEF q
    <3> QED
      BY <1>1, <2>1, <3>1
  <2> HIDE DEF r
  <2>3. z \in Elem /\ ElemMul(z, z) = Modulus(B + q)
    BY <2>2, RootSquares, RootIs, Zenon
  <2>4. ASSUME NEW s \in 0 .. M - 1
        PROVE  /\ at(s) \in Coeff /\ (Low(at(s), len) <=> s < len)
               /\ Cell(len, at(s), w, z, m, fw, bw) /\ Cell(len, at(s), x, z, m, fx, bx)
               /\ s = 0 => x[at(s)] = ElemMul(Modulus(B + q), w[at(s) + M - 1])
               /\ s # 0 => x[at(s)] = w[at(s) - 1]
               /\ s = 0 => y[at(s)] = ElemMul(z, fw[at(s) + len - 1])
               /\ s = len => y[at(s)] = ElemMul(ElemNeg(z), fw[at(s) + len - 1])
               /\ s # 0 /\ s # len => y[at(s)] = fw[at(s) - 1]
    <3> DEFINE i == at(s)
    <3>1. i = (2 * len) * q + s /\ s \in 0 .. 2 * len - 1
      OBVIOUS
    <3> HIDE DEF q, i
    <3>2. /\ i \in Coeff /\ i \div M = q /\ i % M = s /\ (Low(i, len) <=> s < len)
          /\ s < len => i % len = s /\ i \div len = 2 * q
          /\ s >= len => i % len = s - len /\ i \div len = 2 * q + 1
      <4>1. q \in 0 .. B - 1
        BY <2>1
      <4>2. SitsAt(len, q, s, (2 * len) * q + s)
        BY <3>1, <4>1, InBlock
      <4>3. SitsAt(len, q, s, i)
        BY <3>1, <4>2, Zenon
      <4> QED
        BY <4>3, Zenon DEF SitsAt
    <3>3. RootAt(B, len, i) = z /\ BackRootAt(B, len, i) = m
      BY <3>2, Zenon DEF RootAt, BackRootAt
    <3>4. Cell(len, i, w, z, m, fw, bw) /\ Cell(len, i, x, z, m, fx, bx)
      <4> HIDE DEF M, z, m, x
      <4> QED
        BY <1>2, <3>2, <3>3, CellIs, Zenon DEF x
    <3>5. x[i] = IF i % M = 0 THEN ElemMul(Modulus(B + (i \div M)), w[i + M - 1]) ELSE w[i - 1]
      BY <3>2, Zenon DEF Shifted
    <3>6. y[i] = IF i % len = 0 THEN ElemMul(Modulus(2 * B + (i \div len)), fw[i + len - 1]) ELSE fw[i - 1]
      <4> HIDE DEF fw
      <4> QED
        BY <3>2, Zenon DEF Shifted
    <3>7. s = 0 => x[i] = ElemMul(Modulus(B + q), w[i + M - 1])
      BY <3>2, <3>5, Zenon
    <3>8. s # 0 => x[i] = w[i - 1]
      BY <3>2, <3>5, Zenon
    <3>9. Modulus(2 * (B + q)) = z /\ Modulus(2 * (B + q) + 1) = ElemNeg(z)
      BY <2>2, ModulusIs, Zenon
    <3>10. 2 * B + 2 * q = 2 * (B + q) /\ 2 * B + (2 * q + 1) = 2 * (B + q) + 1
      BY <2>1
    <3> HIDE DEF x, y, z, fw
    <3>11. ASSUME s = 0
           PROVE  y[i] = ElemMul(z, fw[i + len - 1])
      <4>1. i % len = 0 /\ i \div len = 2 * q
        BY <1>1, <3>2, <3>11
      <4> QED
        BY <3>6, <3>9, <3>10, <4>1, Zenon
    <3>12. ASSUME s = len
           PROVE  y[i] = ElemMul(ElemNeg(z), fw[i + len - 1])
      <4>1. i % len = 0 /\ i \div len = 2 * q + 1
        BY <1>1, <3>2, <3>12
      <4> QED
        BY <3>6, <3>9, <3>10, <4>1, Zenon
    <3>13. ASSUME s # 0, s # len
           PROVE  y[i] = fw[i - 1]
      <4>1. i % len # 0
        BY <1>1, <3>2, <3>13
      <4> QED
        BY <3>6, <4>1, Zenon
    <3> QED
      BY <3>2, <3>4, <3>7, <3>8, <3>11, <3>12, <3>13, Zenon DEF i
  <2>5. \A s \in 0 .. M - 1 :
           /\ at(s) \in Int /\ at(s) + M - 1 = at(s + M - 1) /\ at(s) + len - 1 = at(s + len - 1)
           /\ at(s) - 1 = at(s - 1) /\ at(s) + len = at(s + len) /\ at(s) - len = at(s - len)
    <3>1. M * q \in Int
      BY <1>1, <2>1
    <3> DEFINE b == M * q
    <3>2. b \in Int /\ \A s \in Int : at(s) = b + s
      BY <3>1
    <3> HIDE DEF b, M, at
    <3> SUFFICES ASSUME NEW s \in 0 .. M - 1
                 PROVE  /\ at(s) \in Int /\ at(s) + M - 1 = at(s + M - 1) /\ at(s) + len - 1 = at(s + len - 1)
                        /\ at(s) - 1 = at(s - 1) /\ at(s) + len = at(s + len) /\ at(s) - len = at(s - len)
      BY Zenon
    <3>3. s \in Int /\ s + M - 1 \in Int /\ s + len - 1 \in Int
          /\ s - 1 \in Int /\ s + len \in Int /\ s - len \in Int /\ M \in Int /\ len \in Int
      BY <1>1
    <3>4. /\ at(s) = b + s /\ at(s + M - 1) = b + (s + M - 1) /\ at(s + len - 1) = b + (s + len - 1)
          /\ at(s - 1) = b + (s - 1) /\ at(s + len) = b + (s + len) /\ at(s - len) = b + (s - len)
      BY <3>2, <3>3, Zenon
    <3> QED
      BY <3>2, <3>3, <3>4
  <2> HIDE DEF q, z, m, at, x, y, fw, fx, bw, bx, M
  <2> DEFINE W(s) == w[at(s)]
             X(s) == x[at(s)]
             F(s) == fw[at(s)]
             Fx(s) == fx[at(s)]
             Y(s) == y[at(s)]
  <2>6. ASSUME NEW s \in 0 .. len - 1
        PROVE  /\ W(s) \in Elem /\ W(s + len) \in Elem
               /\ F(s) = ElemAdd(W(s), ElemMul(z, W(s + len)))
               /\ F(s + len) = ElemSub(W(s), ElemMul(z, W(s + len)))
               /\ Fx(s) = ElemAdd(X(s), ElemMul(z, X(s + len)))
               /\ Fx(s + len) = ElemSub(X(s), ElemMul(z, X(s + len)))
    <3>1. s \in 0 .. M - 1 /\ s + len \in 0 .. M - 1 /\ s < len /\ ~(s + len < len) /\ (s + len) - len = s
      BY <1>1
    <3>2. Low(at(s), len) /\ ~Low(at(s + len), len)
      BY <2>4, <3>1
    <3>3. at(s) + len = at(s + len) /\ at(s + len) - len = at(s)
      BY <2>5, <3>1
    <3>4. /\ Cell(len, at(s), w, z, m, fw, bw) /\ Cell(len, at(s), x, z, m, fx, bx)
          /\ Cell(len, at(s + len), w, z, m, fw, bw) /\ Cell(len, at(s + len), x, z, m, fx, bx)
      BY <2>4, <3>1
    <3> QED
      BY <3>2, <3>3, <3>4, Zenon DEF Cell
  <2>7. ASSUME NEW s \in 0 .. M - 1
        PROVE  /\ s = 0 => X(s) = ElemMul(Modulus(B + q), W(M - 1)) /\ Y(s) = ElemMul(z, F(len - 1))
               /\ s # 0 => X(s) = W(s - 1)
               /\ s = len => Y(s) = ElemMul(ElemNeg(z), F(M - 1))
               /\ s # 0 /\ s # len => Y(s) = F(s - 1)
    <3>1. at(s) + M - 1 = at(s + M - 1) /\ at(s) + len - 1 = at(s + len - 1) /\ at(s) - 1 = at(s - 1)
      BY <2>5
    <3>2. s = 0 => s + M - 1 = M - 1 /\ s + len - 1 = len - 1
      BY <1>1
    <3>3. s = len => s + len - 1 = M - 1
      BY <1>1
    <3> QED
      BY <2>4, <3>1, <3>2, <3>3, Zenon
  <2> HIDE DEF W, X, F, Fx, Y
  <2>8. CASE r = 0
    <3>1. 0 \in 0 .. len - 1 /\ 0 + len = len /\ len - 1 \in 0 .. len - 1 /\ (len - 1) + len = M - 1
          /\ 0 \in 0 .. M - 1 /\ len \in 0 .. M - 1 /\ len # 0
      BY <1>1
    <3>2. Fx(0) = ElemAdd(X(0), ElemMul(z, X(len)))
      BY <2>6, <3>1
    <3>3. X(0) = ElemMul(Modulus(B + q), W(M - 1)) /\ Y(0) = ElemMul(z, F(len - 1)) /\ X(len) = W(len - 1)
      BY <2>7, <3>1
    <3>4. /\ F(len - 1) = ElemAdd(W(len - 1), ElemMul(z, W(M - 1)))
          /\ W(len - 1) \in Elem /\ W(M - 1) \in Elem
      BY <2>6, <3>1
    <3> DEFINE a == W(M - 1)
               b == W(len - 1)
    <3>5. a \in Elem /\ b \in Elem
      BY <3>4
    <3> HIDE DEF a, b
    <3>6. ElemAdd(ElemMul(ElemMul(z, z), a), ElemMul(z, b)) = ElemMul(z, ElemAdd(b, ElemMul(z, a)))
      BY <2>3, <3>5, TurnedSum
    <3>7. Fx(0) = Y(0)
      BY <2>3, <3>2, <3>3, <3>4, <3>6, Zenon DEF a, b
    <3> QED
      BY <2>1, <2>8, <3>7, Zenon DEF Fx, Y
  <2>9. CASE r # 0 /\ r < len
    <3>1. r \in 0 .. len - 1 /\ r - 1 \in 0 .. len - 1 /\ (r + len) - 1 = (r - 1) + len
          /\ r \in 0 .. M - 1 /\ r + len \in 0 .. M - 1 /\ r + len # 0 /\ r # len
      BY <1>1, <2>1, <2>9
    <3>2. Fx(r) = ElemAdd(X(r), ElemMul(z, X(r + len)))
      BY <2>6, <3>1
    <3>3. X(r) = W(r - 1) /\ Y(r) = F(r - 1) /\ X(r + len) = W((r - 1) + len)
      BY <2>7, <2>9, <3>1
    <3>4. F(r - 1) = ElemAdd(W(r - 1), ElemMul(z, W((r - 1) + len)))
      BY <2>6, <3>1
    <3>5. Fx(r) = Y(r)
      BY <3>2, <3>3, <3>4, Zenon
    <3> QED
      BY <2>1, <3>5, Zenon DEF Fx, Y
  <2>10. CASE r = len
    <3>1. 0 \in 0 .. len - 1 /\ 0 + len = len /\ len - 1 \in 0 .. len - 1 /\ (len - 1) + len = M - 1
          /\ 0 \in 0 .. M - 1 /\ len \in 0 .. M - 1 /\ len # 0
      BY <1>1
    <3>2. Fx(len) = ElemSub(X(0), ElemMul(z, X(len)))
      BY <2>6, <3>1
    <3>3. /\ X(0) = ElemMul(Modulus(B + q), W(M - 1)) /\ Y(len) = ElemMul(ElemNeg(z), F(M - 1))
          /\ X(len) = W(len - 1)
      BY <2>7, <3>1
    <3>4. /\ F(M - 1) = ElemSub(W(len - 1), ElemMul(z, W(M - 1)))
          /\ W(len - 1) \in Elem /\ W(M - 1) \in Elem
      BY <2>6, <3>1
    <3> DEFINE a == W(M - 1)
               b == W(len - 1)
    <3>5. a \in Elem /\ b \in Elem
      BY <3>4
    <3> HIDE DEF a, b
    <3>6. ElemSub(ElemMul(ElemMul(z, z), a), ElemMul(z, b)) = ElemMul(ElemNeg(z), ElemSub(b, ElemMul(z, a)))
      BY <2>3, <3>5, TurnedSum
    <3>7. Fx(len) = Y(len)
      BY <2>3, <3>2, <3>3, <3>4, <3>6, Zenon DEF a, b
    <3> QED
      BY <2>1, <2>10, <3>7, Zenon DEF Fx, Y
  <2>11. CASE r # len /\ ~(r < len)
    <3> DEFINE s == r - len
    <3>1. s \in 0 .. len - 1 /\ s - 1 \in 0 .. len - 1 /\ s # 0 /\ s + len = r /\ (s - 1) + len = r - 1
          /\ s \in 0 .. M - 1 /\ r \in 0 .. M - 1 /\ r # 0
      BY <1>1, <2>1, <2>11
    <3> HIDE DEF s
    <3>2. Fx(r) = ElemSub(X(s), ElemMul(z, X(r)))
      BY <2>6, <3>1
    <3>3. X(s) = W(s - 1) /\ Y(r) = F(r - 1) /\ X(r) = W(r - 1)
      BY <2>7, <2>11, <3>1
    <3>4. F(r - 1) = ElemSub(W(s - 1), ElemMul(z, W(r - 1)))
      BY <2>6, <3>1
    <3>5. Fx(r) = Y(r)
      BY <3>2, <3>3, <3>4, Zenon
    <3> QED
      BY <2>1, <3>5, Zenon DEF Fx, Y
  <2> QED
    BY <2>8, <2>9, <2>10, <2>11
<1>7. fx = [j \in Coeff |-> fx[j]] /\ y = [j \in Coeff |-> y[j]]
  BY <1>3, <1>5 DEF Polynomial
<1> HIDE DEF fx, y
<1>8. fx = y
  BY <1>6, <1>7, Zenon
<1> QED
  BY <1>8, Zenon DEF fx, y, x, fw, M

-----------------------------------------------------------------------------
(* The modulus of coefficient j once every block is one coefficient.          *)
Point(j) == Modulus(N + j)

LEMMA PointTyped ==
  ASSUME NEW j \in Coeff
  PROVE  Point(j) \in Elem
<1>1. N + j \in 1 .. 2 * N - 1
  BY Field DEF Coeff
<1> QED
  BY <1>1, ModulusTyped DEF Point

(* The sizes of the blocks between two layers.                                *)
LEMMA BlockSizes ==
  ASSUME NEW n \in 0 .. LOGN
  PROVE  2^n \in Nat \ {0} /\ 2^(LOGN - n) \in Nat \ {0} /\ N = 2^n * 2^(LOGN - n)
BY Lengths

LEMMA NttOfShift ==
  ASSUME NEW g \in Polynomial
  PROVE  \A j \in Coeff : ntt(Shifted(1, N, g))[j] = ElemMul(Point(j), ntt(g)[j])
<1> DEFINE h == Shifted(1, N, g)
<1>1. LOGN \in Nat /\ 0 \in 0 .. LOGN /\ LOGN \in 0 .. LOGN /\ N \in Nat \ {0} /\ N = 2^LOGN /\ 2^0 = 1
      /\ LOGN - 0 = LOGN /\ LOGN - LOGN = 0
  BY Lengths, PowerTable
<1>2. h \in Polynomial
  <2>1. 1 \in Nat \ {0} /\ N = 1 * N
    BY <1>1
  <2> QED
    BY <1>1, <2>1, ShiftedTyped
<1>3. PICK u : Up(g, u) /\ ntt(g) = u[LOGN]
  BY UpIs
<1>4. PICK v : Up(h, v) /\ ntt(h) = v[LOGN]
  BY <1>2, UpIs
<1> DEFINE T == {n \in 0 .. LOGN : v[n] = Shifted(2^n, 2^(LOGN - n), u[n])}
<1>5. 0 \in T
  <2>1. v[0] = h /\ u[0] = g
    BY <1>3, <1>4, Zenon DEF Up
  <2> QED
    BY <1>1, <2>1, Zenon
<1>6. ASSUME NEW n \in 1 .. LOGN, n - 1 \in T
      PROVE  n \in T
  <2> DEFINE B == 2^(n - 1)
             len == 2^(LOGN - n)
             w == u[n - 1]
  <2>1. n \in 0 .. LOGN /\ n - 1 \in 0 .. LOGN /\ LOGN - n \in 0 .. 29 /\ (LOGN - n) + 1 = LOGN - (n - 1)
    BY Lengths
  <2>2. B \in Nat \ {0} /\ len \in Nat \ {0} /\ N = B * (2 * len) /\ 2^n = 2 * B
    BY LayerSizes, Zenon
  <2>3. 2^(LOGN - (n - 1)) = 2 * len
    BY <2>1, Powers, Zenon
  <2>4. w \in Polynomial
    BY <1>3, <2>1 DEF Up
  <2>5. u[n] = fwd(B, len, w) /\ v[n] = fwd(B, len, v[n - 1])
    BY <1>3, <1>4, Zenon DEF Up
  <2>6. v[n - 1] = Shifted(B, 2 * len, w)
    BY <1>6, <2>3, Zenon
  <2> HIDE DEF B, len, w
  <2>7. fwd(B, len, Shifted(B, 2 * len, w)) = Shifted(2 * B, len, fwd(B, len, w))
    BY <2>2, <2>4, ShiftCommutes
  <2>8. v[n] = Shifted(2 * B, len, u[n])
    BY <2>5, <2>6, <2>7, Zenon
  <2> QED
    BY <2>1, <2>2, <2>8, Zenon DEF len
<1>7. \A n \in 0 .. LOGN : n \in T
  <2> HIDE DEF T
  <2> QED
    BY <1>1, <1>5, <1>6, UpTo
<1>8. ntt(h) = Shifted(N, 1, ntt(g))
  <2>1. LOGN \in T
    BY <1>1, <1>7, Zenon
  <2> QED
    BY <1>1, <1>3, <1>4, <2>1, Zenon
<1>9. ASSUME NEW j \in Coeff
      PROVE  Shifted(N, 1, ntt(g))[j] = ElemMul(Point(j), ntt(g)[j])
  <2>1. j \in Int /\ j % 1 = 0 /\ j \div 1 = j /\ j + 1 - 1 = j
    BY Field DEF Coeff
  <2>2. Shifted(N, 1, ntt(g))[j] =
          IF j % 1 = 0 THEN ElemMul(Modulus(N + (j \div 1)), ntt(g)[j + 1 - 1]) ELSE ntt(g)[j - 1]
    BY Zenon DEF Shifted
  <2> QED
    BY <2>1, <2>2, Zenon DEF Point
<1> QED
  BY <1>8, <1>9, Zenon
-----------------------------------------------------------------------------
(* A one at the head of each block of len.                                    *)
Comb(len) == [j \in Coeff |-> IF j % len = 0 THEN 1 ELSE 0]

LEMMA CombLayer ==
  ASSUME NEW len \in Nat \ {0}, NEW B \in Nat \ {0}, N = B * (2 * len)
  PROVE  fwd(B, len, Comb(2 * len)) = Comb(len) /\ Comb(2 * len) \in Polynomial
<1> DEFINE c == Comb(2 * len)
           d == Comb(len)
           fw == fwd(B, len, c)
           bw == bwd(B, len, c)
<1>1. 0 \in Elem /\ 1 \in Elem
  BY Field DEF Elem
<1>2. c \in Polynomial /\ d \in Polynomial
  BY <1>1 DEF Comb, Polynomial
<1>3. fw \in Polynomial
  BY <1>2, LayerTyped
<1>4. ASSUME NEW j \in Coeff
      PROVE  fw[j] = d[j]
  <2> DEFINE M == 2 * len
             q == j \div M
             r == j % M
             z == RootAt(B, len, j)
             m == BackRootAt(B, len, j)
  <2>1. z \in Elem /\ m \in Elem /\ Cell(len, j, c, z, m, fw, bw)
    BY <1>2, CellIs, Zenon
  <2>2. q \in 0 .. B - 1 /\ r \in 0 .. 2 * len - 1 /\ j = (2 * len) * q + r /\ j \in Nat
    <3>1. j \in Nat
      BY Field DEF Coeff
    <3>2. r \in 0 .. M - 1 /\ j = M * q + r
      <4>1. M \in Nat \ {0}
        OBVIOUS
      <4> HIDE DEF M
      <4> QED
        BY <3>1, <4>1, DivMod
    <3>3. q \in 0 .. B - 1
      BY Blocks
    <3> QED
      BY <3>1, <3>2, <3>3
  <2> HIDE DEF q, r, z, m
  <2>3. SitsAt(len, q, r, j)
    BY <2>2, InBlock
  <2>4. /\ Low(j, len) <=> r < len
        /\ j % M = r
        /\ r < len => j % len = r
        /\ r >= len => j % len = r - len
    BY <2>3, Zenon DEF SitsAt
  <2>5. c[j] = IF j % M = 0 THEN 1 ELSE 0
    BY Zenon DEF Comb
  <2>6. d[j] = IF j % len = 0 THEN 1 ELSE 0
    BY Zenon DEF Comb
  <2>7. ElemMul(z, 0) = 0
    BY <2>1, MulUnits
  <2>8. \A x \in Elem : ElemAdd(x, 0) = x /\ ElemSub(x, 0) = x
    BY MulUnits
  <2> HIDE DEF c, d, fw, bw
  <2>9. CASE r < len
    <3>1. /\ j + len \in Coeff /\ fw[j] = ElemAdd(c[j], ElemMul(z, c[j + len])) /\ c[j] \in Elem
      BY <2>1, <2>4, <2>9, Zenon DEF Cell
    <3>2. r + len \in 0 .. 2 * len - 1 /\ j + len = (2 * len) * q + (r + len) /\ r + len # 0
      <4> DEFINE b == (2 * len) * q
      <4>1. b \in Int
        BY <2>2
      <4>2. j = b + r
        BY <2>2
      <4> HIDE DEF b
      <4>3. j + len = b + (r + len)
        BY <2>2, <4>1, <4>2
      <4> QED
        BY <2>2, <2>9, <4>3 DEF b
    <3> DEFINE t == r + len
    <3>3. SitsAt(len, q, t, j + len)
      <4>1. t \in 0 .. 2 * len - 1 /\ j + len = (2 * len) * q + t
        BY <3>2
      <4> HIDE DEF t
      <4>2. SitsAt(len, q, t, (2 * len) * q + t)
        BY <2>2, <4>1, InBlock
      <4> QED
        BY <4>1, <4>2, Zenon
    <3>4. (j + len) % M = r + len
      BY <3>3, Zenon DEF SitsAt
    <3>5. c[j + len] = 0
      <4>1. c[j + len] = IF (j + len) % M = 0 THEN 1 ELSE 0
        BY <3>1, Zenon DEF Comb, c
      <4> QED
        BY <3>2, <3>4, <4>1, Zenon
    <3>6. fw[j] = c[j]
      BY <2>7, <2>8, <3>1, <3>5, Zenon
    <3>7. j % M = j % len
      BY <2>4, <2>9, Zenon
    <3> QED
      BY <2>5, <2>6, <3>6, <3>7, Zenon
  <2>10. CASE ~(r < len)
    <3>0. r >= len
      BY <2>2, <2>10
    <3>1. /\ j - len \in Coeff /\ fw[j] = ElemSub(c[j - len], ElemMul(z, c[j])) /\ c[j - len] \in Elem
      BY <2>1, <2>4, <2>10, Zenon DEF Cell
    <3> DEFINE t == r - len
    <3>2. t \in 0 .. 2 * len - 1 /\ j - len = (2 * len) * q + t /\ r # 0
      <4> DEFINE b == (2 * len) * q
      <4>1. b \in Int
        BY <2>2
      <4>2. j = b + r
        BY <2>2
      <4> HIDE DEF b
      <4>3. j - len = b + t
        BY <2>2, <4>1, <4>2
      <4> QED
        BY <2>2, <3>0, <4>3 DEF b
    <3>3. SitsAt(len, q, t, j - len)
      <4> HIDE DEF t
      <4>2. SitsAt(len, q, t, (2 * len) * q + t)
        BY <2>2, <3>2, InBlock
      <4> QED
        BY <3>2, <4>2, Zenon
    <3>4. (j - len) % M = r - len
      BY <3>3, Zenon DEF SitsAt
    <3>5. c[j] = 0
      BY <2>4, <2>5, <3>2, Zenon
    <3>6. fw[j] = c[j - len]
      BY <2>7, <2>8, <3>1, <3>5, Zenon
    <3>7. (j - len) % M = j % len
      BY <2>4, <3>0, <3>4, Zenon
    <3>8. c[j - len] = IF (j - len) % M = 0 THEN 1 ELSE 0
      BY <3>1, Zenon DEF Comb, c
    <3> QED
      BY <2>6, <3>6, <3>7, <3>8, Zenon
  <2> QED
    BY <2>9, <2>10
<1>5. fw = [j \in Coeff |-> fw[j]] /\ d = [j \in Coeff |-> d[j]]
  BY <1>2, <1>3 DEF Polynomial
<1> HIDE DEF fw, d, c
<1>6. fw = d
  BY <1>4, <1>5, Zenon
<1> QED
  BY <1>2, <1>6, Zenon DEF fw, d, c

One == [j \in Coeff |-> IF j = 0 THEN 1 ELSE 0]

LEMMA NttOfOne ==
  /\ One \in Polynomial /\ \A j \in Coeff : ntt(One)[j] = 1
<1>1. LOGN \in Nat /\ 0 \in 0 .. LOGN /\ LOGN \in 0 .. LOGN /\ N \in Nat \ {0} /\ N = 2^LOGN /\ 2^0 = 1
      /\ LOGN - 0 = LOGN /\ LOGN - LOGN = 0
  BY Lengths, PowerTable
<1>2. One \in Polynomial
  <2>1. 0 \in Elem /\ 1 \in Elem
    BY Field DEF Elem
  <2> QED
    BY <2>1 DEF One, Polynomial
<1>3. One = Comb(N)
  <2>1. ASSUME NEW j \in Coeff
        PROVE  j % N = j
    BY <1>1, SmallMod DEF Coeff
  <2> QED
    BY <2>1, Zenon DEF One, Comb
<1>4. PICK u : Up(One, u) /\ ntt(One) = u[LOGN]
  BY <1>2, UpIs
<1> DEFINE T == {n \in 0 .. LOGN : u[n] = Comb(2^(LOGN - n))}
<1>5. 0 \in T
  <2>1. u[0] = One
    BY <1>4, Zenon DEF Up
  <2> QED
    BY <1>1, <1>3, <2>1, Zenon
<1>6. ASSUME NEW n \in 1 .. LOGN, n - 1 \in T
      PROVE  n \in T
  <2> DEFINE B == 2^(n - 1)
             len == 2^(LOGN - n)
  <2>1. n \in 0 .. LOGN /\ n - 1 \in 0 .. LOGN /\ LOGN - n \in 0 .. 29 /\ (LOGN - n) + 1 = LOGN - (n - 1)
    BY Lengths
  <2>2. B \in Nat \ {0} /\ len \in Nat \ {0} /\ N = B * (2 * len)
    BY LayerSizes, Zenon
  <2>3. 2^(LOGN - (n - 1)) = 2 * len
    BY <2>1, Powers, Zenon
  <2>4. u[n] = fwd(B, len, u[n - 1])
    BY <1>4, Zenon DEF Up
  <2>5. u[n - 1] = Comb(2 * len)
    BY <1>6, <2>3, Zenon
  <2> HIDE DEF B, len
  <2>6. fwd(B, len, Comb(2 * len)) = Comb(len)
    BY <2>2, CombLayer
  <2> QED
    BY <2>1, <2>4, <2>5, <2>6, Zenon DEF len
<1>7. \A n \in 0 .. LOGN : n \in T
  <2> HIDE DEF T
  <2> QED
    BY <1>1, <1>5, <1>6, UpTo
<1>8. ntt(One) = Comb(1)
  <2>1. LOGN \in T
    BY <1>1, <1>7, Zenon
  <2> QED
    BY <1>1, <1>4, <2>1, Zenon
<1>9. ASSUME NEW j \in Coeff
      PROVE  Comb(1)[j] = 1
  <2>1. j % 1 = 0
    BY Field DEF Coeff
  <2> QED
    BY <2>1 DEF Comb
<1> QED
  BY <1>2, <1>8, <1>9

-----------------------------------------------------------------------------
(* The sum of coefficient k of a product.                                     *)
ConvTerm(f, g, i, k) == IF i <= k THEN f[i] * g[k - i] ELSE -(f[i] * g[N + k - i])
ConvSums(f, g, k, s) ==
  s = [n \in 0 .. N |-> IF n = 0 THEN 0 ELSE s[n - 1] + ConvTerm(f, g, n - 1, k)]

LEMMA ConvTermTyped ==
  ASSUME NEW f \in Polynomial, NEW g \in Polynomial, NEW k \in Coeff, NEW i \in Coeff
  PROVE  /\ f[i] \in Elem /\ f[i] \in Int /\ ConvTerm(f, g, i, k) \in Int
         /\ i <= k => k - i \in Coeff /\ g[k - i] \in Elem
         /\ ~(i <= k) => N + k - i \in Coeff /\ g[N + k - i] \in Elem
<1>1. Coeff = 0 .. N - 1 /\ N \in Nat /\ Elem \subseteq Int
  BY Field DEF Coeff, Elem
<1>2. \A j \in Coeff : f[j] \in Elem /\ g[j] \in Elem
  BY DEF Polynomial
<1>3. CASE i <= k
  <2>1. k - i \in Coeff
    BY <1>1, <1>3
  <2>2. f[i] \in Int /\ g[k - i] \in Int
    BY <1>1, <1>2, <2>1
  <2>3. f[i] * g[k - i] \in Int
    BY <2>2
  <2>4. ConvTerm(f, g, i, k) = f[i] * g[k - i]
    BY <1>3, Zenon DEF ConvTerm
  <2> QED
    BY <1>2, <1>3, <2>1, <2>2, <2>3, <2>4
<1>4. CASE ~(i <= k)
  <2>1. N + k - i \in Coeff
    BY <1>1, <1>4
  <2>2. f[i] \in Int /\ g[N + k - i] \in Int
    BY <1>1, <1>2, <2>1
  <2>3. -(f[i] * g[N + k - i]) \in Int
    BY <2>2
  <2>4. ConvTerm(f, g, i, k) = -(f[i] * g[N + k - i])
    BY <1>4, Zenon DEF ConvTerm
  <2> QED
    BY <1>2, <1>4, <2>1, <2>2, <2>3, <2>4
<1> QED
  BY <1>3, <1>4

(* g times X^i modulo X^N + 1.                                                *)
Rotation(g, i) == [k \in Coeff |-> IF i <= k THEN g[k - i] ELSE ElemNeg(g[N + k - i])]

LEMMA RotationIs ==
  ASSUME NEW g \in Polynomial
  PROVE  /\ Rotation(g, 0) = g
         /\ \A i \in Coeff : Rotation(g, i) \in Polynomial
         /\ \A i \in 1 .. N - 1 : Rotation(g, i) = Shifted(1, N, Rotation(g, i - 1))
<1>1. Coeff = 0 .. N - 1 /\ N \in Nat \ {0} /\ Coeff \subseteq Int
  BY Field DEF Coeff
<1>2. \A j \in Coeff : g[j] \in Elem
  BY DEF Polynomial
<1>3. Rotation(g, 0) = g
  <2>1. ASSUME NEW k \in Coeff
        PROVE  0 <= k /\ k - 0 = k
    BY <1>1
  <2>2. g = [k \in Coeff |-> g[k]]
    BY DEF Polynomial
  <2> QED
    BY <2>1, <2>2, Zenon DEF Rotation
<1>4. ASSUME NEW i \in Coeff
      PROVE  Rotation(g, i) \in Polynomial
  <2>1. ASSUME NEW k \in Coeff
        PROVE  (IF i <= k THEN g[k - i] ELSE ElemNeg(g[N + k - i])) \in Elem
    <3>1. i <= k => g[k - i] \in Elem
      BY ConvTermTyped
    <3>2. ~(i <= k) => g[N + k - i] \in Elem
      BY ConvTermTyped
    <3> QED
      BY <3>1, <3>2, ElemClosed
  <2> QED
    BY <2>1 DEF Rotation, Polynomial
<1>5. ASSUME NEW i \in 1 .. N - 1
      PROVE  Rotation(g, i) = Shifted(1, N, Rotation(g, i - 1))
  <2> DEFINE h == Rotation(g, i - 1)
  <2>1. ASSUME NEW k \in Coeff
        PROVE  (IF i <= k THEN g[k - i] ELSE ElemNeg(g[N + k - i]))
                 = IF k % N = 0 THEN ElemMul(Modulus(1 + (k \div N)), h[k + N - 1]) ELSE h[k - 1]
    <3>1. k % N = k /\ k \div N = 0 /\ 1 + 0 = 1
      BY <1>1
    <3>2. CASE k = 0
      <4>1. /\ ~(i <= k) /\ N + k - i = N - i /\ k + N - 1 = N - 1 /\ N - 1 \in Coeff /\ i - 1 <= N - 1
            /\ (N - 1) - (i - 1) = N - i /\ N - i \in Coeff
        BY <1>1, <3>2
      <4>2. h[N - 1] = g[N - i]
        BY <4>1, Zenon DEF Rotation
      <4>3. Modulus(1) = Q - 1 /\ ElemMul(Q - 1, g[N - i]) = ElemNeg(g[N - i])
        <5>1. g[N - i] \in Elem
          BY <1>2, <4>1
        <5> QED
          BY <5>1, MulUnits DEF Modulus
      <4> QED
        BY <3>1, <3>2, <4>1, <4>2, <4>3, Zenon
    <3>3. CASE k # 0
      <4>1. /\ k - 1 \in Coeff /\ (i <= k <=> i - 1 <= k - 1) /\ (k - 1) - (i - 1) = k - i
            /\ N + (k - 1) - (i - 1) = N + k - i
        BY <1>1, <3>3
      <4>2. h[k - 1] = IF i - 1 <= k - 1 THEN g[(k - 1) - (i - 1)] ELSE ElemNeg(g[N + (k - 1) - (i - 1)])
        BY <4>1, Zenon DEF Rotation
      <4> HIDE DEF h
      <4> QED
        BY <3>1, <3>3, <4>1, <4>2, Zenon
    <3> QED
      BY <3>2, <3>3
  <2> HIDE DEF h
  <2>2. Rotation(g, i) = Shifted(1, N, h)
    BY <2>1, Zenon DEF Rotation, Shifted
  <2> QED
    BY <2>2 DEF h
<1> QED
  BY <1>3, <1>4, <1>5

-----------------------------------------------------------------------------
LEMMA NttOfZero ==
  ntt(ZeroPoly) = ZeroPoly /\ ntt_inverse(ZeroPoly) = ZeroPoly
<1> DEFINE z == ZeroPoly
           m == Q - 1
           u == ntt(z)
           v == ntt_inverse(z)
<1>1. z \in Polynomial /\ m \in Elem /\ \A j \in Coeff : z[j] = 0
  BY ZeroIs, IsSmall DEF Is
<1>2. u \in Polynomial /\ v \in Polynomial
  BY <1>1, NttTyped
<1> HIDE DEF m
<1>3. ntt(Combined(z, m, z)) = Combined(u, m, u) /\ ntt_inverse(Combined(z, m, z)) = Combined(v, m, v)
  BY <1>1, NttCombined
<1>4. ASSUME NEW f \in Polynomial
      PROVE  Combined(f, m, f) = z
  <2>1. ASSUME NEW j \in Coeff
        PROVE  ElemAdd(f[j], ElemMul(m, f[j])) = 0
    <3> DEFINE a == f[j]
    <3>1. a \in Elem
      BY DEF Polynomial
    <3> HIDE DEF a
    <3>2. Is(a, a) /\ a \in Int /\ Is(m, -1)
      BY <3>1, IsSelf, IsSmall DEF m
    <3>3. Is(ElemMul(m, a), (-1) * a)
      BY <3>2, IsOps
    <3>4. Is(ElemAdd(a, ElemMul(m, a)), a + (-1) * a)
      BY <3>2, <3>3, IsOps
    <3>5. a + (-1) * a = 0
      BY <3>2
    <3>6. ElemAdd(a, ElemMul(m, a)) = 0
      BY <3>4, <3>5, IsSmall, IsOne
    <3> QED
      BY <3>6 DEF a
  <2> QED
    BY <2>1, ZeroIs, Zenon DEF Combined
<1> HIDE DEF z, u, v
<1>5. Combined(z, m, z) = z /\ Combined(u, m, u) = z /\ Combined(v, m, v) = z
  BY <1>1, <1>2, <1>4
<1>6. ntt(z) = z /\ ntt_inverse(z) = z
  BY <1>3, <1>5, Zenon
<1> QED
  BY <1>6, Zenon DEF z

LEMMA MultiplyIs ==
  ASSUME NEW f, NEW g
  PROVE  /\ multiply_ntt(f, g) = [j \in Coeff |-> ElemMul(f[j], g[j])]
         /\ NttAdd(f, g) = [j \in Coeff |-> ElemAdd(f[j], g[j])]
BY ArrayIs, Zenon DEF multiply_ntt, NttAdd

(* The transform of a rotation is that of its rotation of one, times g's.     *)
LEMMA NttOfRotation ==
  ASSUME NEW g \in Polynomial, NEW i \in Coeff
  PROVE  \A j \in Coeff : ntt(Rotation(g, i))[j] = ElemMul(ntt(Rotation(One, i))[j], ntt(g)[j])
<1> DEFINE n == N - 1
           R(k) == Rotation(g, k)
           E(k) == Rotation(One, k)
           T == {k \in 0 .. n : \A j \in Coeff : ntt(R(k))[j] = ElemMul(ntt(E(k))[j], ntt(g)[j])}
<1>1. n \in Nat /\ Coeff = 0 .. n /\ One \in Polynomial
  BY Field, NttOfOne DEF Coeff
<1>2. ASSUME NEW k \in 0 .. n
      PROVE  R(k) \in Polynomial /\ E(k) \in Polynomial /\ ntt(R(k)) \in Polynomial /\ ntt(E(k)) \in Polynomial
  BY <1>1, RotationIs, NttTyped
<1>3. ntt(g) \in Polynomial
  BY NttTyped
<1>4. 0 \in T
  <2>1. R(0) = g /\ E(0) = One
    BY <1>1, RotationIs
  <2>2. ASSUME NEW j \in Coeff
        PROVE  ntt(g)[j] = ElemMul(ntt(One)[j], ntt(g)[j])
    <3>1. ntt(g)[j] \in Elem /\ ntt(One)[j] = 1
      BY <1>3, NttOfOne DEF Polynomial
    <3>2. ElemMul(1, ntt(g)[j]) = ntt(g)[j]
      BY <3>1, MulUnits
    <3> QED
      BY <3>1, <3>2, Zenon
  <2>3. 0 \in 0 .. n
    BY <1>1
  <2> HIDE DEF R, E
  <2> QED
    BY <2>1, <2>2, <2>3, Zenon
<1>5. ASSUME NEW k \in 1 .. n, k - 1 \in T
      PROVE  k \in T
  <2>1. k \in 0 .. n /\ k - 1 \in 0 .. n
    BY <1>1
  <2>2. R(k) = Shifted(1, N, R(k - 1)) /\ E(k) = Shifted(1, N, E(k - 1))
    BY <1>1, RotationIs
  <2> DEFINE r == R(k - 1)
             e == E(k - 1)
  <2>3. r \in Polynomial /\ e \in Polynomial /\ ntt(e) \in Polynomial
    BY <1>2, <2>1
  <2>4. \A j \in Coeff : ntt(r)[j] = ElemMul(ntt(e)[j], ntt(g)[j])
    BY <1>5, Zenon
  <2> HIDE DEF r, e
  <2>5. ASSUME NEW j \in Coeff
        PROVE  ntt(Shifted(1, N, r))[j] = ElemMul(ntt(Shifted(1, N, e))[j], ntt(g)[j])
    <3> DEFINE p == Point(j)
               a == ntt(e)[j]
               b == ntt(g)[j]
    <3>1. ntt(Shifted(1, N, r))[j] = ElemMul(p, ntt(r)[j]) /\ ntt(Shifted(1, N, e))[j] = ElemMul(p, a)
      BY <2>3, NttOfShift
    <3>2. p \in Elem /\ a \in Elem /\ b \in Elem
      BY <1>3, <2>3, PointTyped DEF Polynomial
    <3>3. ntt(r)[j] = ElemMul(a, b)
      BY <2>4
    <3> HIDE DEF p, a, b
    <3>4. ElemMul(p, ElemMul(a, b)) = ElemMul(ElemMul(p, a), b)
      BY <3>2, MulAssociates
    <3> QED
      BY <3>1, <3>3, <3>4, Zenon DEF b
  <2>6. \A j \in Coeff : ntt(R(k))[j] = ElemMul(ntt(E(k))[j], ntt(g)[j])
    <3> HIDE DEF R, E
    <3> QED
      BY <2>2, <2>5, Zenon DEF r, e
  <2> HIDE DEF R, E
  <2> QED
    BY <2>1, <2>6, Zenon
<1>6. \A k \in 0 .. n : k \in T
  <2> HIDE DEF T
  <2> QED
    BY <1>1, <1>4, <1>5, UpTo
<1> QED
  BY <1>1, <1>6, Zenon

-----------------------------------------------------------------------------
Vector(S) == [S -> Polynomial]
=============================================================================
