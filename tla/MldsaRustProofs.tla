-------------------------- MODULE MldsaRustProofs ---------------------------
(***************************************************************************)
(* The holder and the verifier of MldsaRust, for any parameter set the      *)
(* assumptions allow, and any keys and requests.                            *)
(***************************************************************************)
EXTENDS MldsaRust, MldsaApiProofs, SequenceTheorems, FiniteSetTheorems,
        WellFoundedInduction, TLAPS

(* decompose on every residue: what DivisionExact says of those of a pass.    *)
LEMMA DecomposeExact ==
  ASSUME NEW x \in Elem
  PROVE  DecomposedExactly(x, high_bits(x), signed(low_bits(x)))
<1>1. PICK t, u : InBucket(x, t, u)
  BY BucketOf
<1>2. t \in 0 .. Buckets /\ u \in 1 - Gamma2 .. Gamma2 /\ x = TwoGamma2 * t + u
  BY <1>1 DEF InBucket
<1>3. TwoGamma2 * t \in Nat /\ x \in Nat /\ x <= Q - 1
  BY <1>2, Gammas DEF Elem
<1>4. Gamma2 < Q - (Q \div 2) /\ Gamma2 <= Q \div 2 /\ Q \div 2 \in Nat
  BY Gammas
<1>5. CASE t = Buckets
  <2>1. high_bits(x) = 0 /\ low_bits(x) = Q + u - 1
    BY <1>1, <1>5, HighLow
  <2>2. u <= 0 /\ x = Q - 1 + u
    BY <1>2, <1>3, <1>5, Gammas
  <2>3. signed(low_bits(x)) = u - 1
    BY <1>2, <1>4, <2>1, <2>2, Gammas DEF signed
  <2>4. TwoGamma2 * 0 = 0
    BY Gammas
  <2>5. 0 * TwoGamma2 + (u - 1) - x = -Q
    BY <1>2, <2>2, Gammas
  <2>6. (-Q) % Q = 0
    BY Gammas
  <2> QED
    BY <1>2, <2>1, <2>2, <2>3, <2>5, <2>6, Gammas DEF DecomposedExactly, Buckets
<1>6. CASE t # Buckets
  <2>1. high_bits(x) = t /\ low_bits(x) = IF u < 0 THEN Q + u ELSE u
    BY <1>1, <1>6, HighLow
  <2>2. signed(low_bits(x)) = u
    BY <1>2, <1>4, <2>1, Gammas DEF signed
  <2>3. t * TwoGamma2 + u - x = 0
    BY <1>2, Gammas
  <2>4. 0 % Q = 0
    BY Gammas
  <2>5. t \in 0 .. Buckets - 1
    BY <1>2, <1>6, Gammas
  <2> QED
    BY <1>2, <2>1, <2>2, <2>3, <2>4, <2>5, Gammas DEF DecomposedExactly, Buckets
<1> QED
  BY <1>5, <1>6

(* power2round on every residue.                                              *)
LEMMA Power2RoundExact ==
  ASSUME NEW x \in Elem
  PROVE  SplitExactly(x, power2round(x)[1], signed(power2round(x)[2]))
<1> DEFINE M == 2^D
           q == x \div M
           r == x % M
           m == (Q - 1) \div M
<1>1. M \in Nat \ {0} /\ M < Q /\ (Q - 1) % M = 0 /\ Q \in Nat /\ RoundingModulus(M)
  BY Moduli, Gammas DEF RoundingModulus
<1>2. Pow2DMinus1 \in Nat /\ M = 2 * Pow2DMinus1
  <2>1. D - 1 \in 0 .. 29 /\ (D - 1) + 1 = D
    BY RoundingConstants
  <2>2. 2^D = 2 * 2^(D - 1) /\ 2^(D - 1) \in Nat
    BY <2>1, Powers
  <2> QED
    BY <2>2 DEF Pow2DMinus1
<1>3. x \in Nat /\ x <= Q - 1
  BY <1>1 DEF Elem
<1>4. q \in Nat /\ r \in 0 .. M - 1 /\ x = M * q + r
  BY <1>1, <1>3, DivMod
<1>5. m \in Nat /\ Q - 1 = M * m
  <2>1. Q - 1 \in Nat
    BY <1>1
  <2>2. m \in Nat /\ Q - 1 = M * m + ((Q - 1) % M)
    BY <1>1, <2>1, DivMod
  <2>3. M * m \in Nat
    BY <1>1, <2>2
  <2> QED
    BY <1>1, <2>1, <2>2, <2>3
<1>6. mod_plus_minus(M, x) = IF r > M \div 2 THEN Q + r - M ELSE r
  BY <1>1, ModPlusMinus
<1> HIDE DEF M, q, r, m
<1>7. M \div 2 = Pow2DMinus1 /\ Q \div 2 \in Nat
      /\ Pow2DMinus1 <= Q \div 2 /\ Pow2DMinus1 < Q - (Q \div 2)
  BY <1>1, <1>2
<1>8. M * q \in Nat
  BY <1>1, <1>4
<1>9. CASE r <= Pow2DMinus1
  <2>1. mod_plus_minus(M, x) = r
    BY <1>4, <1>6, <1>7, <1>9, <1>2
  <2>2. ElemSub(x, r) = M * q
    BY <1>1, <1>3, <1>4, <1>8 DEF ElemSub, small_reduce
  <2>3. (M * q) \div M = q
    <3>1. 0 \in 0 .. M - 1 /\ M * q + 0 = M * q
      BY <1>1, <1>8
    <3> QED
      BY <1>1, <1>4, <3>1, DivUnique
  <2>4. power2round(x) = << q, r >>
    BY <2>1, <2>2, <2>3 DEF power2round, rounded, M
  <2>5. signed(r) = r
    BY <1>1, <1>4, <1>7, <1>9, <1>2 DEF signed
  <2>6. q * M + r = x
    BY <1>1, <1>4, <1>8
  <2>7. r \in 1 - Pow2DMinus1 .. Pow2DMinus1
    BY <1>1, <1>2, <1>4, <1>9
  <2> QED
    BY <2>4, <2>5, <2>6, <2>7 DEF SplitExactly, M
<1>10. CASE ~(r <= Pow2DMinus1)
  <2>1. mod_plus_minus(M, x) = Q + r - M
    BY <1>4, <1>6, <1>7, <1>10, <1>2
  <2>2. M * (q + 1) = M * q + M
    BY <1>1, <1>4
  <2>3. M * (q + 1) <= Q - 1
    <3>1. CASE m <= q
      <4>1. M * m <= M * q
        BY <1>1, <1>4, <1>5, <3>1, MulMono
      <4> QED
        BY <4>1, <1>1, <1>2, <1>3, <1>4, <1>5, <1>8, <1>10
    <3>2. CASE q + 1 <= m
      <4>1. M * (q + 1) <= M * m
        BY <1>1, <1>4, <1>5, <3>2, MulMono
      <4> QED
        BY <4>1, <1>5
    <3> QED
      BY <3>1, <3>2, <1>4, <1>5
  <2>4. ElemSub(x, Q + r - M) = M * (q + 1)
    BY <1>1, <1>3, <1>4, <1>8, <2>2, <2>3 DEF ElemSub, small_reduce
  <2>5. (M * (q + 1)) \div M = q + 1
    <3>1. 0 \in 0 .. M - 1 /\ M * (q + 1) + 0 = M * (q + 1) /\ q + 1 \in Nat
      BY <1>1, <1>4, <1>8, <2>2
    <3> QED
      BY <1>1, <3>1, DivUnique
  <2>6. power2round(x) = << q + 1, Q + r - M >>
    BY <2>1, <2>4, <2>5 DEF power2round, rounded, M
  <2>7. signed(Q + r - M) = r - M
    BY <1>1, <1>2, <1>4, <1>7, <1>10 DEF signed
  <2>8. (q + 1) * M + (r - M) = x
    BY <1>1, <1>4, <1>8
  <2>9. r - M \in 1 - Pow2DMinus1 .. Pow2DMinus1
    BY <1>1, <1>2, <1>4, <1>10
  <2> QED
    BY <2>6, <2>7, <2>8, <2>9 DEF SplitExactly, M
<1> QED
  BY <1>9, <1>10, <1>2, <1>4
(* For all bytes that could be a hint's, decoder and reference agree, and the *)
(* hint decoded packs to the bytes it was decoded from.                       *)
LEMMA OneEncoding ==
  ASSUME NEW x, HintBytes(x)
  PROVE  CanonicalOr(x, bit_unpack(x))
<1>1. CASE WellCut(x) /\ RowsAscend(x)
  <2>1. bit_unpack(x) # NoHint /\ \A k \in Rows : ones(bit_unpack(x)[k]) = RowOf(x, k)
    BY <1>1, UnpackIs, Zenon
  <2>2. bit_pack(bit_unpack(x)) = x
    BY <1>1, <2>1, PacksBack
  <2>3. qseal_hint_canonical(x)
    BY <1>1, ReferenceAccepts, Zenon
  <2> QED
    BY <2>1, <2>2, <2>3, Zenon DEF CanonicalOr
<1>2. CASE ~(WellCut(x) /\ RowsAscend(x))
  <2>1. bit_unpack(x) = NoHint
    BY <1>2, UnpackIs, Zenon
  <2>2. ~qseal_hint_canonical(x)
    BY <1>2, ReferenceAccepts, Zenon
  <2> QED
    BY <2>1, <2>2, Zenon DEF CanonicalOr
<1> QED
  BY <1>1, <1>2, Zenon
-----------------------------------------------------------------------------
(* The two parts of a coefficient of t, and the residue they stand for.       *)
LEMMA Power2Parts ==
  ASSUME NEW x \in Elem
  PROVE  LET t1 == power2round(x)[1]
             t0 == power2round(x)[2]
         IN /\ InRange(Pow2DMinus1 - 1, Pow2DMinus1, t0)
            /\ t1 \in Nat /\ t1 * 2^D <= Q - 1
            /\ t1 * 2^D + t0 \in {x, x + Q}
<1> DEFINE t1 == power2round(x)[1]
           t0 == power2round(x)[2]
           M == 2^D
           r == x % M
           m == (Q - 1) \div M
<1>1. RoundingModulus(M) /\ M \in Nat \ {0} /\ M < Q /\ (Q - 1) % M = 0 /\ Q \in Nat /\ Q > 2
  BY Moduli, Field DEF RoundingModulus
<1>2. t1 * M + signed(t0) = x /\ signed(t0) \in 1 - Pow2DMinus1 .. Pow2DMinus1
  BY Power2RoundExact DEF SplitExactly
<1>3. M = 2 * Pow2DMinus1 /\ Pow2DMinus1 \in Nat \ {0}
  BY T0Range
<1>4. x \in Nat /\ x <= Q - 1
  BY <1>1 DEF Elem
<1>5. power2round(x) = << ElemSub(x, t0) \div M, t0 >> /\ t0 = mod_plus_minus(M, x)
  BY DEF power2round, rounded
<1>6. r \in 0 .. M - 1
  BY <1>1, <1>4, DivMod
<1>7. t0 \in Elem
  <2>1. t0 = IF r > M \div 2 THEN Q + r - M ELSE r
    BY <1>1, <1>5, ModPlusMinus
  <2> HIDE DEF t0, r, M
  <2>2. M \div 2 \in Nat
    BY <1>1
  <2> QED
    BY <1>1, <1>6, <2>1, <2>2 DEF Elem
<1>8. t1 \in Nat
  <2>2. t1 = ElemSub(x, t0) \div M
    BY <1>5
  <2> HIDE DEF t1, t0, M
  <2>3. ElemSub(x, t0) \in Elem
    BY <1>7, FieldOps
  <2>1. ElemSub(x, t0) \in Nat
    BY <1>1, <2>3 DEF Elem
  <2> QED
    BY <1>1, <2>1, <2>2, DivMod
<1>9. m \in Nat /\ Q - 1 = M * m
  <2>1. Q - 1 \in Nat
    BY <1>1
  <2> HIDE DEF M
  <2>2. m \in Nat /\ Q - 1 = M * m + ((Q - 1) % M)
    BY <1>1, <2>1, DivMod
  <2>3. M * m \in Nat
    BY <1>1, <2>2
  <2> QED
    BY <1>1, <2>1, <2>2, <2>3
<1> HIDE DEF t1, t0, M, r, m
<1>10. signed(t0) = (IF t0 > Q \div 2 THEN t0 - Q ELSE t0) /\ Q \div 2 \in Nat /\ t0 \in 0 .. Q - 1
  BY <1>1, <1>7 DEF signed, Elem
<1>11. InRange(Pow2DMinus1 - 1, Pow2DMinus1, t0)
  BY <1>1, <1>2, <1>3, <1>7, <1>10 DEF InRange
<1>12. t1 * M \in Nat
  BY <1>1, <1>8
<1>13. t1 * M + t0 \in {x, x + Q}
  BY <1>1, <1>2, <1>4, <1>10, <1>12
<1>14. t1 * M <= Q - 1
  <2>1. CASE t1 <= m
    <3>1. t1 * M <= m * M /\ m * M = M * m
      BY <1>1, <1>8, <1>9, <2>1, MulMono
    <3> QED
      BY <1>9, <3>1
  <2>2. CASE m + 1 <= t1
    <3>1. (m + 1) * M <= t1 * M /\ (m + 1) * M = M * m + M
      BY <1>1, <1>8, <1>9, <2>2, MulMono
    <3> QED
      BY <1>1, <1>2, <1>3, <1>4, <1>9, <1>12, <3>1
  <2> QED
    BY <1>8, <1>9, <2>1, <2>2
<1> QED
  BY <1>8, <1>11, <1>13, <1>14 DEF t1, t0, M

LEMMA RoundedVector ==
  ASSUME NEW t \in [Rows -> Polynomial]
  PROVE  /\ VecPower2Round(t)[1] = [r \in Rows |-> [i \in Coeff |-> power2round(t[r][i])[1]]]
         /\ VecPower2Round(t)[2] = [r \in Rows |-> [i \in Coeff |-> power2round(t[r][i])[2]]]
         /\ VecWithin(Rows, Pow2DMinus1 - 1, Pow2DMinus1, VecPower2Round(t)[2])
<1> DEFINE row(k, r) == [i \in Coeff |-> power2round(t[r][i])[k]]
<1>1. DOMAIN t = Rows
  OBVIOUS
<1>2. \A k, r : Array(row(k, r)) = row(k, r)
  BY ArrayIs, Zenon
<1>3. /\ VecPower2Round(t)[1] = [r \in Rows |-> Array(row(1, r))]
      /\ VecPower2Round(t)[2] = [r \in Rows |-> Array(row(2, r))]
  <2>1. VecPower2Round(t) = << VecMap(LAMBDA x : power2round(x)[1], t),
                               VecMap(LAMBDA x : power2round(x)[2], t) >>
    BY Zenon DEF VecPower2Round
  <2>2. /\ VecMap(LAMBDA x : power2round(x)[1], t) = [r \in Rows |-> Array(row(1, r))]
        /\ VecMap(LAMBDA x : power2round(x)[2], t) = [r \in Rows |-> Array(row(2, r))]
    BY <1>1, ArrayIs, Zenon DEF VecMap
  <2> HIDE DEF row
  <2> QED
    BY <2>1, <2>2
<1>4. /\ VecPower2Round(t)[1] = [r \in Rows |-> row(1, r)]
      /\ VecPower2Round(t)[2] = [r \in Rows |-> row(2, r)]
  <2> HIDE DEF row
  <2> QED
    BY <1>2, <1>3
<1>5. ASSUME NEW r \in Rows, NEW i \in Coeff
      PROVE  /\ power2round(t[r][i])[2] \in Elem
             /\ InRange(Pow2DMinus1 - 1, Pow2DMinus1, power2round(t[r][i])[2])
  <2>1. t[r][i] \in Elem
    BY VectorCell
  <2>2. InRange(Pow2DMinus1 - 1, Pow2DMinus1, power2round(t[r][i])[2])
    BY <2>1, Power2Parts
  <2> QED
    BY <2>2 DEF InRange
<1>6. VecWithin(Rows, Pow2DMinus1 - 1, Pow2DMinus1, VecPower2Round(t)[2])
  BY <1>4, <1>5 DEF VecWithin, Polynomial
<1> QED
  BY <1>4, <1>6

LEMMA ShortWithin ==
  ASSUME NEW S, NEW v, Short(S, Eta, v)
  PROVE  VecWithin(S, Eta, Eta, v)
<1>1. v \in [S -> Polynomial] /\ \A r \in S, i \in Coeff : infinity_norm(v[r][i]) <= Eta
  BY DEF Short
<1>2. \A r \in S, i \in Coeff : v[r][i] \in 0 .. Q - 1
  BY <1>1 DEF Polynomial, Elem
<1>3. Q \in Nat /\ Eta \in {2, 4}
  BY Field, ParameterSet
<1>4. \A r \in S, i \in Coeff : InRange(Eta, Eta, v[r][i])
  BY <1>1, <1>2, <1>3 DEF infinity_norm, InRange, Elem
<1> QED
  BY <1>1, <1>4 DEF VecWithin

FromExpanded(k) ==
  /\ \E enc \in ExpandedKeys : ExpandedUnpackable(enc) /\ k.esk = from_expanded(enc)
  /\ k.vk = verifying_key(k.esk)

KeyMade ==
  key # NoKey => IF key.from = "expanded" THEN FromExpanded(key) ELSE FromSeed(key)

(* A call is for a request and with a key, and its pass is of its mu.         *)
CallMade ==
  call # NoCall =>
    /\ key # NoKey
    /\ {"pass", "mu", "request"} \subseteq DOMAIN call
    /\ call.request \in SignRequests
    /\ Started(key, call.request) # Refused
    /\ Started(key, call.request).mu = call.mu
    /\ call.pass # NoPass =>
         \E seed, kappa : PassOf(key.esk, call.mu, seed, kappa, call.pass)

LEMMA SeedHeld ==
  ASSUME KeyMade, NEW xi \in Seq(Byte), Len(xi) = B32, NEW from, from # "expanded",
         HoldPair(from, from_seed(xi))
  PROVE  KeyMade'
<1> DEFINE sk == from_seed(xi)
<1>1. sk.seed = xi
  BY SeedKept
<1>2. CASE key' = [from |-> from, esk |-> sk.expanded_key, seed |-> sk.seed, vk |-> sk.verifying_key]
  <2> HIDE DEF sk
  <2>1. /\ key'.from = from /\ key'.esk = sk.expanded_key /\ key'.seed = xi
        /\ key'.vk = sk.verifying_key
    BY <1>1, <1>2
  <2>2. FromSeed(key')
    BY <2>1, Zenon DEF FromSeed, sk
  <2> QED
    BY <2>1, <2>2, Zenon DEF KeyMade, FromSeed
<1>3. CASE UNCHANGED key
  BY <1>3, Zenon DEF KeyMade, FromSeed, FromExpanded
<1>4. UNCHANGED key \/ Hold(from, sk.expanded_key, sk.seed, sk.verifying_key)
  BY DEF HoldPair, Refuse
<1> QED
  BY <1>2, <1>3, <1>4 DEF Hold

LEMMA ExpandedHeld ==
  ASSUME KeyMade, NEW enc \in ExpandedKeys, ImportExpanded(enc)
  PROVE  KeyMade'
<1> DEFINE esk == from_expanded(enc)
<1>1. CASE UNCHANGED key
  BY <1>1, Zenon DEF KeyMade, FromSeed, FromExpanded
<1>2. UNCHANGED key \/ (ExpandedUnpackable(enc) /\ HoldExpanded(esk))
  BY DEF ImportExpanded, Panic
<1>3. CASE ExpandedUnpackable(enc) /\ HoldExpanded(esk)
  <2> HIDE DEF esk
  <2>1. key' = [from |-> "expanded", esk |-> esk, seed |-> << >>, vk |-> verifying_key(esk)]
    BY <1>3, Zenon DEF HoldExpanded, Hold
  <2>2. key'.from = "expanded" /\ key'.esk = esk /\ key'.vk = verifying_key(esk)
    BY <2>1
  <2>3. FromExpanded(key')
    BY <1>3, <2>2, Zenon DEF FromExpanded, esk
  <2> QED
    BY <2>2, <2>3, Zenon DEF KeyMade, FromExpanded
<1> QED
  BY <1>1, <1>2, <1>3

LEMMA KeyStep ==
  ASSUME KeyMade, [Next]_vars
  PROVE  KeyMade'
<1>1. ASSUME UNCHANGED key
      PROVE  KeyMade'
  BY <1>1, Zenon DEF KeyMade, FromSeed, FromExpanded
<1>2. CASE Obtain
  <2>1. ASSUME NEW seed \in Seeds, Generate(seed)
        PROVE  KeyMade'
    <3>1. B32 \in Nat /\ seed \in [1 .. B32 -> Byte]
      BY ParameterSet, KeysWellFormed
    <3>2. seed \in Seq(Byte) /\ Len(seed) = B32
      BY <3>1
    <3> QED
      BY <2>1, <3>2, SeedHeld DEF Generate
  <2>2. ASSUME GenerateFails
        PROVE  KeyMade'
    BY <1>1, <2>2 DEF GenerateFails, Refuse
  <2>3. ASSUME NEW info \in Pkcs8Documents, ImportPkcs8(info)
        PROVE  KeyMade'
    <3>1. CASE Len(info.value) = B32 /\ from_pkcs8(info) = from_seed(info.value)
      <4>1. HoldPair("pkcs8", from_seed(info.value))
        BY <2>3, <3>1, Zenon DEF ImportPkcs8
      <4> QED
        <5>1. info.value \in Seq(Byte)
          BY KeysWellFormed
        <5> QED
          BY <3>1, <4>1, <5>1, SeedHeld
    <3>2. CASE from_pkcs8(info) = Refused
      BY <1>1, <2>3, <3>2 DEF ImportPkcs8, HoldPair, Refuse
    <3> QED
      BY <3>1, <3>2, Zenon DEF from_pkcs8
  <2>4. ASSUME NEW enc \in ExpandedKeys, ImportExpanded(enc)
        PROVE  KeyMade'
    BY <2>4, ExpandedHeld
  <2> QED
    BY <1>2, <2>1, <2>2, <2>3, <2>4, Zenon DEF Obtain
<1>3. ASSUME NEW q, Begin(q)
      PROVE  UNCHANGED key
  BY <1>3 DEF Begin, Enter, Refuse
<1>4. Pass \/ Exhausted \/ ArriveShort => UNCHANGED key
  BY DEF Pass, Exhausted, Panic, ArriveShort
<1>5. \A a : Arrive(a) => UNCHANGED key
  BY DEF Arrive
<1>6. \A q, own : Verify(q, own) => UNCHANGED key
  BY DEF Verify
<1>7. UNCHANGED vars => UNCHANGED key
  BY DEF vars
<1> QED
  BY <1>1, <1>2, <1>3, <1>4, <1>5, <1>6, <1>7, Zenon DEF Next

LEMMA KeyInvariant == Spec => []KeyMade
<1>1. Init => KeyMade
  BY DEF Init, KeyMade
<1>2. KeyMade /\ [Next]_vars => KeyMade'
  BY KeyStep
<1> QED
  BY <1>1, <1>2, PTL DEF Spec
-----------------------------------------------------------------------------
LEMMA CallEntered ==
  ASSUME CallMade, NEW q \in SignRequests, Begin(q)
  PROVE  CallMade'
<1> DEFINE start == Started(key, q)
<1>1. Enter(q, start) /\ key # NoKey
  BY DEF Begin
<1>2. start = Started(key, q)
  OBVIOUS
<1> HIDE DEF start
<1>3. UNCHANGED key
  BY <1>1 DEF Enter, Refuse
<1>4. CASE start = Refused
  <2>1. UNCHANGED call
    BY <1>1, <1>4 DEF Enter, Refuse
  <2> QED
    BY <1>3, <2>1, Zenon DEF CallMade
<1>5. CASE start # Refused
  <2>1. call' = [request |-> q, mu |-> start.mu, seed |-> rhopp(key.esk, start),
                 kappa |-> 0, pass |-> NoPass]
    BY <1>1, <1>5, Zenon DEF Enter
  <2>2. /\ {"pass", "mu", "request"} \subseteq DOMAIN call'
        /\ call'.request = q /\ call'.mu = start.mu /\ call'.pass = NoPass
    BY <2>1
  <2> QED
    BY <1>1, <1>2, <1>3, <1>5, <2>2, Zenon DEF CallMade
<1> QED
  BY <1>4, <1>5

LEMMA CallPassed ==
  ASSUME CallMade, Pass
  PROVE  CallMade'
<1> DEFINE p == signing_pass(key.esk, call.mu, call.seed, call.kappa)
<1>1. call # NoCall /\ {"pass", "mu", "request"} \subseteq DOMAIN call
  BY DEF Pass, Signing, CallMade
<1>2. call' = [call EXCEPT !.pass = p, !.kappa = @ + L] /\ UNCHANGED key
  BY DEF Pass
<1>3. PassOf(key.esk, call.mu, call.seed, call.kappa, p)
  BY PassIs
<1> HIDE DEF p
<1>4. /\ {"pass", "mu", "request"} \subseteq DOMAIN call'
      /\ call'.pass = p /\ call'.mu = call.mu /\ call'.request = call.request
  BY <1>1, <1>2
<1> QED
  BY <1>1, <1>2, <1>3, <1>4, Zenon DEF CallMade

LEMMA CallStep ==
  ASSUME CallMade, [Next]_vars
  PROVE  CallMade'
<1>1. ASSUME UNCHANGED << key, call >>
      PROVE  CallMade'
  BY <1>1, Zenon DEF CallMade
<1>2. ASSUME UNCHANGED call, key = NoKey
      PROVE  CallMade'
  BY <1>2, Zenon DEF CallMade
<1>3. Obtain => UNCHANGED call /\ key = NoKey
  <2>1. Refuse \/ Panic => UNCHANGED call
    BY DEF Refuse, Panic
  <2>2. \A from, esk, seed, vk : Hold(from, esk, seed, vk) => UNCHANGED call
    BY DEF Hold
  <2>3. \A from, sk : HoldPair(from, sk) => UNCHANGED call
    BY <2>1, <2>2, Zenon DEF HoldPair
  <2>4. \A enc : ImportExpanded(enc) => UNCHANGED call
    BY <2>1, <2>2, Zenon DEF ImportExpanded, HoldExpanded
  <2> QED
    BY <2>1, <2>3, <2>4, Zenon DEF Obtain, Generate, GenerateFails, ImportPkcs8
<1>4. Exhausted \/ ArriveShort => UNCHANGED << key, call >>
  BY DEF Exhausted, Panic, ArriveShort
<1>5. \A a : Arrive(a) => UNCHANGED << key, call >>
  BY DEF Arrive
<1>6. \A q, own : Verify(q, own) => UNCHANGED << key, call >>
  BY DEF Verify
<1>7. UNCHANGED vars => UNCHANGED << key, call >>
  BY DEF vars
<1> QED
  BY <1>1, <1>2, <1>3, <1>4, <1>5, <1>6, <1>7, CallEntered, CallPassed, Zenon DEF Next

LEMMA CallInvariant == Spec => []CallMade
<1>1. Init => CallMade
  BY DEF Init, CallMade
<1>2. CallMade /\ [Next]_vars => CallMade'
  BY CallStep
<1> QED
  BY <1>1, <1>2, PTL DEF Spec

-----------------------------------------------------------------------------
LEMMA SeedKeyTyped ==
  ASSUME KeyMade, Sampled, key # NoKey, key.from # "expanded"
  PROVE  KeyShape(key.esk)
<1>1. key.esk = from_seed(key.seed).expanded_key
  BY Zenon DEF KeyMade, FromSeed
<1>2. PICK rho, seed, s1, s2 :
        Secrets(key.seed, rho, seed, expand_a(rho), s1, s2, from_seed(key.seed))
  BY SeedExpands, Zenon
<1> DEFINE A == expand_a(rho)
           t == VecAdd(Product(A, ntt_vec(s1)), s2)
           tr == squeeze_new(absorb(H, encode_internal(rho, VecPower2Round(t)[1])), B64)
           esk == ExpandedSigningKey(rho, seed, tr, s1, s2, VecPower2Round(t)[2], A)
<1>3. key.esk = esk
  <2>1. from_seed(key.seed) = signing_key(key.seed, esk)
    BY <1>2, Zenon DEF Secrets
  <2> HIDE DEF esk
  <2> QED
    BY <1>1, <2>1 DEF signing_key
<1>12. esk = ExpandedSigningKey(rho, seed, tr, s1, s2, VecPower2Round(t)[2], A)
  OBVIOUS
<1> HIDE DEF esk, A, tr
<1>4. /\ esk.s1 = s1 /\ esk.s2 = s2 /\ esk.t0 = VecPower2Round(t)[2] /\ esk.A_hat = A
      /\ esk.s1_hat = ntt_vec(esk.s1) /\ esk.s2_hat = ntt_vec(esk.s2)
      /\ esk.t0_hat = ntt_vec(esk.t0)
  BY <1>12, Zenon DEF ExpandedSigningKey
<1>5. A \in Matrix /\ Short(Columns, Eta, s1) /\ Short(Rows, Eta, s2)
  BY <1>3, <1>4, Zenon DEF Sampled, Matrix
<1>6. s1 \in [Columns -> Polynomial] /\ s2 \in [Rows -> Polynomial]
  BY <1>5, Zenon DEF Short
<1>7. ntt_vec(s1) \in [Columns -> Polynomial]
  BY <1>6, ZeroTyped, NttConstants, VectorOps
<1>8. Product(A, ntt_vec(s1)) \in [Rows -> Polynomial]
  BY <1>5, <1>7, ProductTyped, Zenon
<1>9. t \in [Rows -> Polynomial]
  BY <1>6, <1>8, ZeroTyped, NttConstants, VectorOps
<1> HIDE DEF t
<1>10. VecWithin(Rows, Pow2DMinus1 - 1, Pow2DMinus1, VecPower2Round(t)[2])
  BY <1>9, RoundedVector, Zenon
<1>11. VecWithin(Columns, Eta, Eta, s1) /\ VecWithin(Rows, Eta, Eta, s2)
  BY <1>5, ShortWithin, Zenon
<1> QED
  BY <1>3, <1>4, <1>5, <1>10, <1>11, Zenon DEF KeyShape

LEMMA KeyTyped ==
  ASSUME KeyMade, Sampled, key # NoKey
  PROVE  KeyShape(key.esk)
<1>1. CASE key.from = "expanded"
  <2>1. PICK enc \in ExpandedKeys : ExpandedUnpackable(enc) /\ key.esk = from_expanded(enc)
    BY <1>1, Zenon DEF KeyMade, FromExpanded
  <2>2. key.esk.A_hat \in Matrix
    BY Zenon DEF Sampled, Matrix
  <2>3. from_expanded(enc).A_hat \in Matrix
    BY <2>1, <2>2, Zenon
  <2>4. KeyShape(from_expanded(enc))
    BY <2>1, <2>3, ExpandedKeyTyped, Zenon
  <2> QED
    BY <2>1, <2>4, Zenon
<1> QED
  BY <1>1, SeedKeyTyped, Zenon

LEMMA PassResidues ==
  ASSUME KeyMade, CallMade, Sampled
  PROVE  Residues
<1> SUFFICES ASSUME Passed
             PROVE  {call.pass.w, call.pass.w_cs2, call.pass.ct0} \subseteq [Rows -> Polynomial]
  BY DEF Residues
<1>1. key # NoKey
  BY DEF Passed, CallMade
<1>2. PICK seed, kappa : PassOf(key.esk, call.mu, seed, kappa, call.pass)
  BY Zenon DEF Passed, CallMade
<1>3. KeyShape(key.esk) /\ call.pass.c \in Polynomial
  BY <1>1, KeyTyped, Zenon DEF Sampled
<1>4. /\ call.pass.w \in [Rows -> Polynomial] /\ call.pass.w_cs2 \in [Rows -> Polynomial]
      /\ call.pass.ct0 \in [Rows -> Polynomial]
  BY <1>2, <1>3, PassTyped, Zenon
<1> QED
  BY <1>4, Zenon

LEMMA Assertions ==
  ASSUME KeyMade, CallMade, Sampled
  PROVE  AssertionsHold
<1>1. Residues
  BY PassResidues
<1>2. Fresh => ExpandedPackable(key.esk)
  BY KeyTyped, KeyPackable, Zenon DEF Fresh
<1>3. ASSUME Released
      PROVE  /\ packable_vec(L, Gamma1 - 1, Gamma1, call.pass.signature.z)
             /\ hamming_weight(call.pass.signature.h) <= Omega
  <2>1. call # NoCall /\ call.pass.accepted /\ key # NoKey
    BY <1>3 DEF Released, CallMade
  <2>2. call.pass # NoPass
    <3>1. NoPass.accepted = FALSE
      BY DEF NoPass
    <3> QED
      BY <2>1, <3>1, Zenon
  <2>3. PICK seed, kappa : PassOf(key.esk, call.mu, seed, kappa, call.pass)
    BY <2>1, <2>2, Zenon DEF CallMade
  <2>4. KeyShape(key.esk) /\ call.pass.c \in Polynomial
    BY <2>1, <2>2, KeyTyped, Zenon DEF Sampled, Passed
  <2>5. /\ VecWithin(Columns, Gamma1 - 1, Gamma1, call.pass.signature.z)
        /\ hamming_weight(call.pass.signature.h) <= Omega
    BY <2>1, <2>3, <2>4, PassWithin, Zenon
  <2>6. packable_vec(L, Gamma1 - 1, Gamma1, call.pass.signature.z)
    BY <2>5, MaskRange, PackableOf, Zenon DEF Columns
  <2> QED
    BY <2>5, <2>6
<1>4. \A bytes : unpackable_vec(L, Gamma1 - 1, Gamma1, bytes)
  <2>1. L \in Nat /\ PackedRange(Gamma1 - 1, Gamma1)
    BY ParameterSet, MaskRange
  <2>2. (Gamma1 - 1) + Gamma1 + 1 = 2^RangeEncodingBits(Gamma1 - 1, Gamma1)
    BY MaskRange
  <2> QED
    BY <2>1, <2>2, UnpackedVector, Zenon
<1> QED
  BY <1>1, <1>2, <1>3, <1>4, Zenon DEF AssertionsHold

(* What verifying_key rounds t to is what its encoding gives back.            *)
LEMMA HighBack ==
  ASSUME NEW t \in [Rows -> Polynomial], NEW t1, t1 = VecPower2Round(t)[1]
  PROVE  /\ IsArray(K * EncodedPolynomialSize(BitlenQMinusD), encode_t1(t1))
         /\ decode_t1(encode_t1(t1)) = t1
         /\ t1 \in [Rows -> Polynomial]
<1>1. t1 = [r \in Rows |-> [i \in Coeff |-> power2round(t[r][i])[1]]]
  BY RoundedVector
<1>2. ASSUME NEW r \in Rows, NEW i \in Coeff
      PROVE  power2round(t[r][i])[1] \in Elem /\ power2round(t[r][i])[1] < 2^BitlenQMinusD
  <2> DEFINE h == power2round(t[r][i])[1]
  <2>1. t[r][i] \in Elem
    BY VectorCell
  <2>2. h \in Nat /\ h * 2^D <= Q - 1
    BY <2>1, Power2Parts
  <2> HIDE DEF h
  <2>3. h \in Elem /\ h < 2^BitlenQMinusD
    BY <2>2, HighFits, Zenon
  <2> QED
    BY <2>3 DEF h
<1>3. t1 \in [Rows -> Polynomial]
  BY <1>1, <1>2 DEF Polynomial
<1>4. \A r \in Rows, i \in Coeff : t1[r][i] < 2^BitlenQMinusD
  <2> DEFINE x == 2^BitlenQMinusD
  <2>1. \A r \in Rows, i \in Coeff : power2round(t[r][i])[1] < x
    BY <1>2, Zenon
  <2> HIDE DEF x
  <2>2. \A r \in Rows, i \in Coeff : t1[r][i] < x
    BY <1>1, <2>1
  <2> QED
    BY <2>2, Zenon DEF x
<1>5. K \in Nat \ {0} /\ BitlenQMinusD \in 1 .. 29 /\ BitlenQMinusD - 1 <= ilog2(Q)
  BY KeySizes, HighFits, Zenon
<1>6. /\ t1 \in [0 .. K - 1 -> Polynomial]
      /\ \A r \in 0 .. K - 1, i \in Coeff : t1[r][i] < 2^BitlenQMinusD
  BY <1>3, <1>4, Zenon DEF Rows
<1>7. /\ IsArray(K * EncodedPolynomialSize(BitlenQMinusD), encode_vec(K, BitlenQMinusD, t1))
      /\ decode_vec(K, BitlenQMinusD, encode_vec(K, BitlenQMinusD, t1)) = t1
  <2> HIDE DEF Rows
  <2> QED
    BY <1>5, <1>6, EncodedVectorBack, Zenon
<1> QED
  BY <1>3, <1>7, Zenon DEF encode_t1, decode_t1

(* An encoded verifying key gives back its parts.                             *)
LEMMA VkApart ==
  ASSUME NEW rho, IsArray(B32, rho), NEW t \in [Rows -> Polynomial], NEW t1,
         t1 = VecPower2Round(t)[1]
  PROVE  LET enc == encode_internal(rho, t1)
         IN /\ IsArray(VerifyingKeySize, enc)
            /\ split_vk(enc)[1] = rho /\ decode_t1(split_vk(enc)[2]) = t1
<1> DEFINE enc == encode_internal(rho, t1)
           b == encode_t1(t1)
           n == K * EncodedPolynomialSize(BitlenQMinusD)
<1>1. IsArray(n, b) /\ decode_t1(b) = t1
  BY HighBack, Zenon
<1>2. enc = rho \o b
  BY Zenon DEF encode_internal, concat_vk
<1>3. B32 \in Nat /\ n \in Nat
  <2>1. BitlenQMinusD \in 1 .. 29
    BY HighFits, Zenon
  <2>2. EncodedPolynomialSize(BitlenQMinusD) \in Nat /\ K \in Nat /\ B32 \in Nat
    BY <2>1, SizeOf, KeySizes
  <2> DEFINE z == EncodedPolynomialSize(BitlenQMinusD)
  <2>3. z \in Nat /\ n = K * z
    BY <2>2, Zenon
  <2> HIDE DEF z, n
  <2> QED
    BY <2>2, <2>3
<1>4. VerifyingKeySize = B32 + n
  BY Zenon DEF VerifyingKeySize
<1> HIDE DEF enc, b, n
<1>5. Splits(rho, B32, b, n)
  BY <1>1, <1>3, SplitsIs
<1>6. 0 \in Nat /\ 0 + B32 <= B32 /\ 0 + 1 = 1 /\ 0 + B32 = B32
  BY <1>3
<1>7. /\ IsArray(B32 + n, enc) /\ Slice(enc, B32, n) = b
      /\ Slice(enc, 0, B32) = Slice(rho, 0, B32)
  BY <1>2, <1>3, <1>5, <1>6, Zenon DEF Splits
<1>8. Slice(rho, 0, B32) = rho
  BY <1>3, WholeSlice
<1>9. SubSeq(enc, 1, B32) = rho /\ SubSeq(enc, B32 + 1, VerifyingKeySize) = b
  <2>1. Slice(enc, 0, B32) = SubSeq(enc, 0 + 1, 0 + B32)
        /\ Slice(enc, B32, n) = SubSeq(enc, B32 + 1, B32 + n)
    BY Zenon DEF Slice
  <2> QED
    BY <1>4, <1>6, <1>7, <1>8, <2>1, Zenon
<1>10. split_vk(enc)[1] = rho /\ split_vk(enc)[2] = b
  BY <1>9 DEF split_vk
<1> QED
  BY <1>1, <1>4, <1>7, <1>10, Zenon DEF enc

(* A signing key made from a seed, and the verifying key beside it.           *)
LEMMA SeedKeyWhole ==
  ASSUME KeyMade, key # NoKey, key.from # "expanded"
  PROVE  /\ KeyWhole(key.esk)
         /\ key.vk = verifying_key(key.esk)
         /\ key.esk.tr = key.vk.tr
         /\ IsKeyPair(key, from_pkcs8(to_pkcs8_der([seed |-> key.seed])))
<1>1. /\ Len(key.seed) = B32 /\ key.esk = from_seed(key.seed).expanded_key
      /\ key.vk = from_seed(key.seed).verifying_key
  BY Zenon DEF KeyMade, FromSeed
<1>2. PICK rho, seed, s1, s2 :
        /\ IsArray(B32, rho) /\ IsArray(B32, seed)
        /\ Secrets(key.seed, rho, seed, expand_a(rho), s1, s2, from_seed(key.seed))
  BY SeedExpands, Zenon
<1> DEFINE A == expand_a(rho)
           t == VecAdd(Product(A, ntt_vec(s1)), s2)
           tr == squeeze_new(absorb(H, encode_internal(rho, VecPower2Round(t)[1])), B64)
           t0 == VecPower2Round(t)[2]
           esk == ExpandedSigningKey(rho, seed, tr, s1, s2, t0, A)
<1>3. from_seed(key.seed) = signing_key(key.seed, esk)
  BY <1>2, Zenon DEF Secrets
<1>4. IsArray(B64, tr)
  BY SqueezedArray, Zenon
<1>5. /\ esk.rho = rho /\ esk.K = seed /\ esk.tr = tr /\ esk.s1 = s1 /\ esk.s2 = s2
      /\ esk.t0 = t0 /\ esk.A_hat = A /\ esk.s1_hat = ntt_vec(s1)
  BY Zenon DEF ExpandedSigningKey
<1>6. KeyWhole(esk)
  BY <1>2, <1>4, <1>5, Zenon DEF KeyWhole
<1>7. verifying_key(esk).tr = tr
  <2> DEFINE h == VecPower2Round(rootOf(esk))[1]
  <2>1. rootOf(esk) = t
    BY <1>5, Zenon DEF rootOf
  <2>2. verifying_key(esk) = VerifyingKey(rho, h, A, encode_internal(rho, h))
    BY <1>5, VerifyingKeyIs, Zenon
  <2>3. verifying_key(esk).tr = squeeze_new(absorb(H, encode_internal(rho, h)), B64)
    <3> HIDE DEF h, A
    <3> QED
      BY <2>2, VkFields
  <2> QED
    BY <2>1, <2>3, Zenon
<1> HIDE DEF esk
<1>8. key.esk = esk /\ key.vk = verifying_key(esk)
  BY <1>1, <1>3 DEF signing_key
<1>9. from_pkcs8(to_pkcs8_der([seed |-> key.seed])) = from_seed(key.seed)
  <2> DEFINE info == to_pkcs8_der([seed |-> key.seed])
  <2>1. info.oid = Oid /\ info.tag = SEED_TAG_NUMBER /\ info.value = key.seed
        /\ info.trailing = FALSE
    BY DEF to_pkcs8_der
  <2> HIDE DEF info
  <2>2. from_pkcs8(info) = from_seed(key.seed)
    BY <1>1, <2>1, Zenon DEF from_pkcs8
  <2> QED
    BY <2>2 DEF info
<1>10. from_seed(key.seed) # Refused
  <2>1. DOMAIN signing_key(key.seed, esk) # DOMAIN Refused
    BY DEF signing_key, Refused
  <2> QED
    BY <1>3, <2>1, Zenon
<1>11. IsKeyPair(key, from_pkcs8(to_pkcs8_der([seed |-> key.seed])))
  BY <1>1, <1>9, <1>10, Zenon DEF IsKeyPair
<1>12. key.esk.tr = key.vk.tr
  BY <1>5, <1>7, <1>8, Zenon
<1> QED
  BY <1>6, <1>8, <1>11, <1>12, Zenon

LEMMA ExpandedKeyWhole ==
  ASSUME KeyMade, key # NoKey, key.from = "expanded"
  PROVE  KeyWhole(key.esk) /\ key.vk = verifying_key(key.esk)
<1>1. PICK enc \in ExpandedKeys : key.esk = from_expanded(enc)
  BY Zenon DEF KeyMade, FromExpanded
<1>2. key.vk = verifying_key(key.esk)
  BY Zenon DEF KeyMade, FromExpanded
<1>3. enc \in [1 .. SigningKeySize -> Byte]
  BY KeysWellFormed
<1> DEFINE p == split_sk(enc)
           esk == from_expanded(enc)
<1>4. IsArray(B32, p.rho) /\ IsArray(B32, p.K) /\ IsArray(B64, p.tr)
  BY <1>3, SkPartsTyped
<1>5. esk = ExpandedSigningKey(p.rho, p.K, p.tr, decode_s1(p.s1), decode_s2(p.s2),
                               decode_t0(p.t0), expand_a(p.rho))
  BY Zenon DEF from_expanded
<1> HIDE DEF p, esk
<1>6. /\ esk.rho = p.rho /\ esk.K = p.K /\ esk.tr = p.tr /\ esk.s1 = decode_s1(p.s1)
      /\ esk.s2 = decode_s2(p.s2) /\ esk.t0 = decode_t0(p.t0)
  BY <1>5, Zenon DEF ExpandedSigningKey
<1>7. KeyWhole(esk)
  BY <1>4, <1>5, <1>6, Zenon DEF KeyWhole
<1> QED
  BY <1>1, <1>2, <1>7, Zenon DEF esk

(* The encoding of a verifying key gives back the key.                        *)
LEMMA VkBack ==
  ASSUME NEW esk, KeyShape(esk), KeyWhole(esk), NEW vk, vk = verifying_key(esk)
  PROVE  /\ vk_decode(vk_encode(vk)) = vk
         /\ from_spki(to_public_key_der(vk)) = vk
<1> DEFINE t1 == VecPower2Round(rootOf(esk))[1]
           enc == encode_internal(esk.rho, t1)
<1>1. vk = VerifyingKey(esk.rho, t1, esk.A_hat, enc)
  BY VerifyingKeyIs, Zenon
<1>2. IsArray(B32, esk.rho) /\ esk.A_hat = expand_a(esk.rho)
  <2> DEFINE r == ExpandedSigningKey(esk.rho, esk.K, esk.tr, esk.s1, esk.s2, esk.t0,
                                     expand_a(esk.rho))
  <2>1. r.A_hat = expand_a(esk.rho)
    BY Zenon DEF ExpandedSigningKey
  <2>2. IsArray(B32, esk.rho) /\ esk = r
    BY Zenon DEF KeyWhole
  <2> HIDE DEF r
  <2>3. esk.A_hat = r.A_hat
    BY <2>2
  <2> QED
    BY <2>1, <2>2, <2>3, Zenon
<1>3. rootOf(esk) \in [Rows -> Polynomial]
  BY RootTyped
<1>4. IsArray(VerifyingKeySize, enc) /\ split_vk(enc)[1] = esk.rho /\ decode_t1(split_vk(enc)[2]) = t1
  BY <1>2, <1>3, VkApart
<1>12. enc = encode_internal(esk.rho, t1)
  OBVIOUS
<1> HIDE DEF t1, enc
<1>5. vk.rho = esk.rho /\ vk.t1 = t1
  BY <1>1, VkFields
<1>6. vk_encode(vk) = enc
  BY <1>5, <1>12, Zenon DEF vk_encode
<1>7. vk_decode(enc) = VerifyingKey(split_vk(enc)[1], decode_t1(split_vk(enc)[2]),
                                    expand_a(split_vk(enc)[1]), enc)
  BY Zenon DEF vk_decode
<1>8. vk_decode(enc) = vk
  BY <1>1, <1>2, <1>4, <1>7, Zenon
<1>9. Len(enc) = VerifyingKeySize
  <2>1. VerifyingKeySize \in Nat
    <3>1. BitlenQMinusD \in 1 .. 29
      BY HighFits, Zenon
    <3>2. EncodedPolynomialSize(BitlenQMinusD) \in Nat /\ K \in Nat /\ B32 \in Nat
      BY <3>1, SizeOf, KeySizes
    <3> DEFINE z == EncodedPolynomialSize(BitlenQMinusD)
    <3>3. z \in Nat /\ VerifyingKeySize = B32 + K * z
      BY <3>2, Zenon DEF VerifyingKeySize
    <3> HIDE DEF z
    <3> QED
      BY <3>2, <3>3
  <2> QED
    BY <1>4, <2>1, AsSequence
<1>10. from_spki(to_public_key_der(vk)) = vk_decode(enc)
  <2> DEFINE spki == to_public_key_der(vk)
  <2>1. spki.oid = Oid /\ spki.unused_bits = 0 /\ spki.bytes = vk_encode(vk)
    BY DEF to_public_key_der
  <2> HIDE DEF spki
  <2>2. from_spki(spki) = vk_decode(enc)
    BY <1>6, <1>9, <2>1, Zenon DEF from_spki
  <2> QED
    BY <2>2, Zenon DEF spki
<1> QED
  BY <1>6, <1>8, <1>10, Zenon

LEMMA KeyRoutes ==
  ASSUME KeyMade, Sampled
  PROVE  KeyRoutesAgree
<1>1. SUFFICES ASSUME Fresh PROVE KeyRoutesAgree
  BY Zenon DEF KeyRoutesAgree
<1>2. key # NoKey
  BY <1>1, Zenon DEF Fresh
<1>3. KeyShape(key.esk)
  BY <1>2, KeyTyped
<1>4. KeyWhole(key.esk) /\ key.vk = verifying_key(key.esk)
  BY <1>2, SeedKeyWhole, ExpandedKeyWhole, Zenon
<1>5. vk_decode(vk_encode(key.vk)) = key.vk /\ from_spki(to_public_key_der(key.vk)) = key.vk
  BY <1>3, <1>4, VkBack, Zenon
<1>6. IsKey(key.esk, from_expanded(to_expanded(key.esk)))
  <2>1. from_expanded(to_expanded(key.esk)) = key.esk
    BY <1>3, <1>4, EskBack, Zenon
  <2>2. ct_eq(key.esk, key.esk)
    BY Zenon DEF ct_eq
  <2> QED
    BY <2>1, <2>2, Zenon DEF IsKey
<1>7. key.from # "expanded" =>
        /\ key.esk.tr = key.vk.tr
        /\ IsKeyPair(key, from_pkcs8(to_pkcs8_der([seed |-> key.seed])))
  BY <1>2, SeedKeyWhole, Zenon
<1> QED
  BY <1>4, <1>5, <1>6, <1>7, Zenon DEF KeyRoutesAgree

LEMMA FirstOfIs ==
  ASSUME NEW cand, NEW m \in Nat, NEW a, Took(cand, m, a), Len(a) = N
  PROVE  FirstOf(cand) = [j \in Coeff |-> a[j + 1]]
<1> DEFINE at == CHOOSE f : NextRun(cand, f)
           nth == CHOOSE f : FirstRun(at, f)
<1>1. NextRun(cand, at)
  BY NextExists, Zenon
<1>2. FirstOf(cand) = [j \in Coeff |-> cand[nth[j]]]
  BY Zenon DEF FirstOf, NextRun, FirstRun
<1> HIDE DEF at
<1>3. PICK idx : Places(cand, m, a, idx)
  BY Zenon DEF Took
<1>4. /\ \A j \in 1 .. N : idx[j] \in 0 .. m - 1
      /\ \A j \in 1 .. N : a[j] = cand[idx[j]] /\ cand[idx[j]] # NoElem
      /\ \A j, k \in 1 .. N : j < k => idx[j] < idx[k]
      /\ \A n \in 0 .. m - 1 : cand[n] # NoElem =>
           (\E j \in 1 .. N : idx[j] = n) \/ idx[N] < n
  <2>1. idx \in [1 .. N -> 0 .. m - 1]
    BY <1>3, Zenon DEF Places
  <2>2. \A j \in 1 .. N : idx[j] \in 0 .. m - 1
    BY <2>1
  <2> QED
    BY <1>3, <2>2, Zenon DEF Places
<1>5. N \in Nat \ {0}
  BY Field
<1>6. at[0] = idx[1]
  <2>1. 1 \in 1 .. N /\ N \in 1 .. N
    BY <1>5
  <2>2. idx[1] \in Nat /\ idx[1] <= m - 1 /\ idx[1] <= idx[N]
    BY <1>4, <1>5, <2>1
  <2>3. ASSUME NEW i \in 0 .. idx[1] - 1, cand[i] # NoElem
        PROVE  FALSE
    <3>1. i \in 0 .. m - 1 /\ ~(idx[N] < i)
      BY <1>4, <2>1, <2>2
    <3>2. PICK j \in 1 .. N : idx[j] = i
      BY <1>4, <2>3, <3>1, Zenon
    <3>3. i < idx[1] /\ idx[j] < idx[1]
      BY <2>2, <3>2
    <3>4. 1 < j
      <4>1. j # 1
        BY <2>2, <3>3
      <4> QED
        BY <4>1
    <3>5. idx[1] < idx[j]
      BY <1>4, <2>1, <3>4
    <3> QED
      BY <1>4, <2>1, <3>2, <3>3, <3>5
  <2>4. \A i \in 0 .. idx[1] - 1 : cand[i] = NoElem
    BY <2>3, Zenon
  <2>5. cand[idx[1]] # NoElem /\ 0 <= idx[1] /\ 0 \in Nat
    BY <1>4, <2>1, <2>2
  <2> QED
    BY <1>1, <2>2, <2>4, <2>5, NextIs
<1>7. ASSUME NEW j \in 1 .. N - 1
      PROVE  at[idx[j] + 1] = idx[j + 1]
  <2>1. j \in 1 .. N /\ j + 1 \in 1 .. N /\ N \in 1 .. N /\ j \in Int
    BY <1>5
  <2>2. /\ idx[j] \in Nat /\ idx[j + 1] \in Nat /\ idx[j + 1] <= m - 1 /\ idx[j] + 1 <= idx[j + 1]
        /\ idx[j + 1] <= idx[N] /\ idx[j] + 1 \in Nat
    <3>1. idx[j] \in 0 .. m - 1 /\ idx[j + 1] \in 0 .. m - 1 /\ idx[N] \in 0 .. m - 1
      BY <1>4, <2>1
    <3>2. idx[j] < idx[j + 1]
      BY <1>4, <2>1
    <3>3. j + 1 = N \/ j + 1 < N
      BY <1>5, <2>1
    <3>4. idx[j + 1] <= idx[N]
      BY <1>4, <2>1, <3>1, <3>3
    <3> DEFINE u == idx[j]
               v == idx[j + 1]
               z == idx[N]
    <3>5. u \in 0 .. m - 1 /\ v \in 0 .. m - 1 /\ u < v /\ v <= z
      BY <3>1, <3>2, <3>4
    <3> HIDE DEF u, v, z
    <3>6. u \in Nat /\ v \in Nat /\ v <= m - 1 /\ u + 1 <= v /\ v <= z /\ u + 1 \in Nat
      BY <3>5
    <3> QED
      BY <3>6, Zenon DEF u, v, z
  <2>3. ASSUME NEW i \in idx[j] + 1 .. idx[j + 1] - 1, cand[i] # NoElem
        PROVE  FALSE
    <3>1. i \in 0 .. m - 1 /\ ~(idx[N] < i)
      <4> DEFINE u == idx[j]
                 v == idx[j + 1]
                 z == idx[N]
      <4>1. z \in Int
        BY <1>4, <2>1
      <4>2. u \in Nat /\ v \in Nat /\ v <= m - 1 /\ v <= z /\ i \in u + 1 .. v - 1
        BY <2>2
      <4> HIDE DEF u, v, z
      <4>3. i \in 0 .. m - 1 /\ ~(z < i)
        BY <4>1, <4>2
      <4> QED
        BY <4>3 DEF z
    <3>2. PICK k \in 1 .. N : idx[k] = i
      BY <1>4, <2>3, <3>1, Zenon
    <3>3. k < j \/ k = j \/ k = j + 1 \/ j + 1 < k
      BY <2>1
    <3>4. idx[k] < idx[j] \/ idx[k] = idx[j] \/ idx[k] = idx[j + 1] \/ idx[j + 1] < idx[k]
      BY <1>4, <2>1, <3>3
    <3> DEFINE u == idx[j]
               v == idx[j + 1]
    <3>5. /\ u \in Nat /\ v \in Nat /\ i \in u + 1 .. v - 1
          /\ i < u \/ i = u \/ i = v \/ v < i
      BY <2>2, <3>2, <3>4
    <3> HIDE DEF u, v
    <3> QED
      BY <3>5
  <2>4. \A i \in idx[j] + 1 .. idx[j + 1] - 1 : cand[i] = NoElem
    BY <2>3, Zenon
  <2>5. cand[idx[j + 1]] # NoElem
    BY <1>4, <2>1
  <2> DEFINE n == idx[j] + 1
             k == idx[j + 1]
  <2>6. n \in Nat /\ k \in Nat /\ n <= k /\ cand[k] # NoElem /\ \A i \in n .. k - 1 : cand[i] = NoElem
    BY <2>2, <2>4, <2>5
  <2> HIDE DEF n, k
  <2>7. at[n] = k
    BY <1>1, <2>6, NextIs
  <2> QED
    BY <2>7 DEF n, k
<1> DEFINE g == [j \in Coeff |-> idx[j + 1]]
<1>8. FirstRun(at, g)
  <2>1. ASSUME NEW j \in Coeff
        PROVE  g[j] = IF j = 0 THEN at[0] ELSE at[g[j - 1] + 1]
    <3>1. CASE j = 0
      BY <1>6, <3>1
    <3>2. CASE j # 0
      <4>1. j \in 1 .. N - 1 /\ j - 1 \in Coeff /\ (j - 1) + 1 = j
        BY <3>2, <1>5 DEF Coeff
      <4>2. g[j - 1] = idx[j] /\ g[j] = idx[j + 1]
        BY <4>1
      <4> QED
        BY <1>7, <3>2, <4>1, <4>2
    <3> QED
      BY <3>1, <3>2
  <2>2. g = [j \in Coeff |-> g[j]]
    OBVIOUS
  <2> HIDE DEF g
  <2> QED
    BY <2>1, <2>2 DEF FirstRun
<1>9. FirstRun(at, nth)
  BY <1>8, Zenon
<1> HIDE DEF nth
<1>10. \A j \in 0 .. N - 1 : nth[j] = idx[j + 1]
  <2> DEFINE T == {j \in 0 .. N - 1 : nth[j] = idx[j + 1]}
  <2>1. \A j \in Coeff : nth[j] = IF j = 0 THEN at[0] ELSE at[nth[j - 1] + 1]
    BY <1>9, Zenon DEF FirstRun
  <2>2. 0 \in T /\ N - 1 \in Nat
    BY <1>5, <1>6, <2>1 DEF Coeff
  <2>3. ASSUME NEW j \in 1 .. N - 1, j - 1 \in T
        PROVE  j \in T
    <3>1. j \in Coeff /\ j # 0 /\ (j - 1) + 1 = j /\ j \in 0 .. N - 1
      BY <1>5 DEF Coeff
    <3>2. nth[j - 1] = idx[j]
      BY <2>3, <3>1
    <3>3. nth[j] = at[idx[j] + 1]
      BY <2>1, <3>1, <3>2, Zenon
    <3> QED
      BY <1>7, <3>1, <3>3
  <2>4. \A j \in 0 .. N - 1 : j \in T
    <3> HIDE DEF T
    <3> QED
      BY <2>2, <2>3, UpTo
  <2> QED
    BY <2>4
<1>11. \A j \in Coeff : cand[nth[j]] = a[j + 1]
  <2> TAKE j \in Coeff
  <2>1. j \in 0 .. N - 1 /\ j + 1 \in 1 .. N
    BY <1>5 DEF Coeff
  <2> QED
    BY <1>4, <1>10, <2>1
<1> QED
  BY <1>2, <1>11

LEMMA SpongeIs ==
  ASSUME NEW f, NEW x, NEW p
  PROVE  /\ \A y : absorb(sponge(f, x, p), y) = sponge(f, x \o y, p)
         /\ \A len : squeeze(sponge(f, x, p), len).bytes = outs(f, x, p, len)
         /\ \A len : squeeze(sponge(f, x, p), len).ctx = sponge(f, x, p + len)
         /\ \A n \in Nat : Stream(sponge(f, x, p), n) = out(f, x, n)
<1>1. \A y : absorb(sponge(f, x, p), y) = sponge(f, x \o y, p)
  <2> TAKE y
  <2> DEFINE z == x \o y
             r == sponge(f, x, p)
  <2>1. r.input = x
    BY DEF sponge
  <2>2. absorb(r, y) = [r EXCEPT !.input = z]
    BY <2>1, Zenon DEF absorb
  <2> HIDE DEF z
  <2>3. [r EXCEPT !.input = z] = sponge(f, z, p)
    BY DEF sponge
  <2> QED
    BY <2>2, <2>3, Zenon DEF z, r
<1>2. ASSUME NEW q, NEW len
      PROVE  /\ squeeze(sponge(f, x, q), len).bytes = outs(f, x, q, len)
             /\ squeeze(sponge(f, x, q), len).ctx = sponge(f, x, q + len)
  <2>1. sponge(f, x, q).function = f /\ sponge(f, x, q).input = x /\ sponge(f, x, q).pos = q
    BY DEF sponge
  <2>2. [sponge(f, x, q) EXCEPT !.pos = @ + len] = sponge(f, x, q + len)
    BY DEF sponge
  <2> DEFINE b == [n \in 1 .. len |-> ShakeByte(Shake(sponge(f, x, q).function, sponge(f, x, q).input),
                                                sponge(f, x, q).pos + n - 1)]
             c == [sponge(f, x, q) EXCEPT !.pos = @ + len]
  <2>3. squeeze(sponge(f, x, q), len) = [bytes |-> b, ctx |-> c]
    BY ArrayIs, Zenon DEF squeeze
  <2>4. b = outs(f, x, q, len)
    BY <2>1, Zenon DEF outs, out
  <2> HIDE DEF b, c
  <2>5. squeeze(sponge(f, x, q), len).bytes = b /\ squeeze(sponge(f, x, q), len).ctx = c
    BY <2>3
  <2> QED
    BY <2>2, <2>4, <2>5, Zenon DEF c
<1>3. ASSUME NEW n \in Nat
      PROVE  Stream(sponge(f, x, p), n) = out(f, x, n)
  <2>1. [sponge(f, x, p) EXCEPT !.pos = n] = sponge(f, x, n)
    BY DEF sponge
  <2>2. Stream(sponge(f, x, p), n) = outs(f, x, n, 1)[1]
    <3>1. squeeze(sponge(f, x, n), 1).bytes = outs(f, x, n, 1)
      BY <1>2, Zenon
    <3> QED
      BY <2>1, <3>1, Zenon DEF Stream
  <2>3. 1 \in 1 .. 1 /\ n + 1 - 1 = n
    OBVIOUS
  <2> QED
    BY <2>2, <2>3, Zenon DEF outs
<1> QED
  BY <1>1, <1>2, <1>3, Zenon

(* The candidates of a stream, by the number of bytes in a chunk, and how     *)
(* many are in one.                                                           *)
Cand(f, x, w) == IF w = 3 THEN Triples(sponge(f, x, 0)) ELSE Nibbles(sponge(f, x, 0))
LEMMA CandIs ==
  ASSUME Squeezed, NEW f, NEW x, NEW q \in Nat
  PROVE  /\ Cand(f, x, 3)[q] = coeff_from_three_bytes(<< out(f, x, 3 * q), out(f, x, 3 * q + 1),
                                                          out(f, x, 3 * q + 2) >>)
         /\ Cand(f, x, 1)[2 * q] = coeff_from_half_byte(out(f, x, q) % 16)
         /\ Cand(f, x, 1)[2 * q + 1] = coeff_from_half_byte(out(f, x, q) \div 16)
<1>1. /\ 3 * q \in Nat /\ 3 * q + 1 \in Nat /\ 3 * q + 2 \in Nat /\ 2 * q \in Nat /\ 2 * q + 1 \in Nat
      /\ (2 * q) \div 2 = q /\ (2 * q) % 2 = 0 /\ (2 * q + 1) \div 2 = q /\ (2 * q + 1) % 2 = 1
  OBVIOUS
<1>2. \A n \in Nat : Stream(sponge(f, x, 0), n) = out(f, x, n)
  BY SpongeIs, Zenon
<1>3. Cand(f, x, 3)[q] = coeff_from_three_bytes(<< out(f, x, 3 * q), out(f, x, 3 * q + 1),
                                                   out(f, x, 3 * q + 2) >>)
  BY <1>1, <1>2, Zenon DEF Cand, Triples
<1>4. 1 # 3 /\ 1 # 0
  OBVIOUS
<1>5. \A n \in Nat : Cand(f, x, 1)[n]
        = coeff_from_half_byte((Stream(sponge(f, x, 0), n \div 2) \div (IF n % 2 = 0 THEN 1 ELSE 16)) % 16)
  BY <1>4, Zenon DEF Cand, Nibbles
<1>6. /\ Cand(f, x, 1)[2 * q] = coeff_from_half_byte((out(f, x, q) \div 1) % 16)
      /\ Cand(f, x, 1)[2 * q + 1] = coeff_from_half_byte((out(f, x, q) \div 16) % 16)
  BY <1>1, <1>2, <1>4, <1>5, Zenon
<1>7. out(f, x, q) \in 0 .. 255
  BY Zenon DEF Squeezed, out, Byte
<1>8. out(f, x, q) \div 1 = out(f, x, q) /\ (out(f, x, q) \div 16) % 16 = out(f, x, q) \div 16
  <2> DEFINE b == out(f, x, q)
  <2> HIDE DEF b
  <2>1. b \in 0 .. 255 => b \div 1 = b /\ (b \div 16) % 16 = b \div 16
    OBVIOUS
  <2> QED
    BY <1>7, <2>1, Zenon DEF b
<1> QED
  BY <1>3, <1>6, <1>8, Zenon

LEMMA ChunkIs ==
  ASSUME Squeezed, NEW f, NEW x, NEW w \in {1, 3}, NEW p \in Nat, NEW m \in Nat, m * w = per(w) * p,
         NEW k \in Nat, NEW n \in 1 .. k
  PROVE  ChunkHas(Cand(f, x, w), w, m, n, candidates(Slice(outs(f, x, p, w * k), (n - 1) * w, w)))
<1> DEFINE s == outs(f, x, p, w * k)
           b == Slice(s, (n - 1) * w, w)
           q == m + (n - 1)
           u == p + (n - 1)
<1>1. w * k \in Nat /\ (n - 1) * w \in Nat /\ w \in Nat /\ (n - 1) * w + w <= w * k /\ w \in 1 .. 3
  <2>1. CASE w = 1
    BY <2>1
  <2>2. CASE w = 3
    BY <2>2
  <2> QED
    BY <2>1, <2>2
<1>2. IsArray(w * k, s) /\ \A i \in 1 .. w * k : s[i] = out(f, x, p + i - 1)
  BY Zenon DEF IsArray, outs
<1> HIDE DEF s
<1>3. b = part(s, (n - 1) * w, w)
  BY <1>1, <1>2, SliceIs
<1>4. \A i \in 1 .. w : b[i] = out(f, x, p + ((n - 1) * w + i) - 1)
  <2> TAKE i \in 1 .. w
  <2>1. b[i] = s[(n - 1) * w + i]
    BY <1>3, Zenon DEF part
  <2> DEFINE e == (n - 1) * w + i
  <2>2. e \in 1 .. w * k
    BY <1>1
  <2> HIDE DEF e
  <2> QED
    BY <1>2, <2>1, <2>2, Zenon DEF e
<1>5. Len(b) = w
  <2>1. IsArray(w, b)
    BY <1>1, <1>2, SliceIs
  <2> HIDE DEF b
  <2> QED
    BY <1>1, <2>1, AsSequence
<1>6. CASE w = 3
  <2>1. q \in Nat /\ m * 3 = p
    BY <1>6 DEF per
  <2>2. /\ p + ((n - 1) * w + 1) - 1 = 3 * q /\ p + ((n - 1) * w + 2) - 1 = 3 * q + 1
        /\ p + ((n - 1) * w + 3) - 1 = 3 * q + 2
    BY <1>6, <2>1
  <2>3. b[1] = out(f, x, 3 * q) /\ b[2] = out(f, x, 3 * q + 1) /\ b[3] = out(f, x, 3 * q + 2)
    <3>1. 1 \in 1 .. w /\ 2 \in 1 .. w /\ 3 \in 1 .. w
      BY <1>6
    <3> HIDE DEF q, b
    <3> QED
      BY <1>4, <2>2, <3>1, Zenon
  <2> DEFINE t == << out(f, x, 3 * q), out(f, x, 3 * q + 1), out(f, x, 3 * q + 2) >>
  <2>4. t[1] = b[1] /\ t[2] = b[2] /\ t[3] = b[3]
    <3> HIDE DEF q, b
    <3> QED
      BY <2>3
  <2> HIDE DEF b, t
  <2>5. coeff_from_three_bytes(b) = coeff_from_three_bytes(t)
    BY <2>4, ThreeBytes, Zenon
  <2>6. candidates(b) = << coeff_from_three_bytes(b) >>
    BY <1>5, <1>6, Zenon DEF candidates
  <2>7. Cand(f, x, w)[q] = coeff_from_three_bytes(t)
    BY <1>6, <2>1, CandIs, Zenon DEF t
  <2>8. candidates(b) = << Cand(f, x, w)[q] >>
    BY <2>5, <2>6, <2>7, Zenon
  <2> QED
    BY <1>6, <2>8, Zenon DEF ChunkHas, q, b, s
<1>7. CASE w = 1
  <2>1. u \in Nat /\ m = 2 * p
    <3>1. per(w) = 2
      BY <1>7 DEF per
    <3> QED
      BY <1>7, <3>1
  <2>2. /\ p + ((n - 1) * w + 1) - 1 = u /\ m + 2 * (n - 1) = 2 * u
    BY <1>7, <2>1
  <2>3. b[1] = out(f, x, u)
    <3>1. 1 \in 1 .. w
      BY <1>7
    <3> HIDE DEF u, b
    <3> QED
      BY <1>4, <2>2, <3>1, Zenon
  <2>4. candidates(b) = << coeff_from_half_byte(b[1] % 16), coeff_from_half_byte(b[1] \div 16) >>
    <3> HIDE DEF b
    <3>1. Len(b) # 3
      BY <1>5, <1>7
    <3> QED
      BY <3>1, Zenon DEF candidates, coeffs_from_byte
  <2>5. /\ Cand(f, x, w)[2 * u] = coeff_from_half_byte(out(f, x, u) % 16)
        /\ Cand(f, x, w)[2 * u + 1] = coeff_from_half_byte(out(f, x, u) \div 16)
    BY <1>7, <2>1, CandIs, Zenon
  <2> HIDE DEF b, u
  <2>6. candidates(b) = << Cand(f, x, w)[m + 2 * (n - 1)], Cand(f, x, w)[m + 2 * (n - 1) + 1] >>
    BY <2>2, <2>3, <2>4, <2>5, Zenon
  <2>7. w # 3
    BY <1>7
  <2> QED
    BY <2>6, <2>7, Zenon DEF ChunkHas, b, s
<1> QED
  BY <1>6, <1>7

-----------------------------------------------------------------------------
LEMMA SqueezeIs ==
  ASSUME NEW f, NEW x, NEW p, NEW len
  PROVE  /\ squeeze(sponge(f, x, p), len).bytes = outs(f, x, p, len)
         /\ squeeze(sponge(f, x, p), len).ctx = sponge(f, x, p + len)
<1>1. \A n : squeeze(sponge(f, x, p), n).bytes = outs(f, x, p, n)
  BY SpongeIs
<1>2. \A n : squeeze(sponge(f, x, p), n).ctx = sponge(f, x, p + n)
  BY SpongeIs
<1> QED
  BY <1>1, <1>2, Zenon

LEMMA FillStream ==
  ASSUME Squeezed, NEW f, NEW x, NEW w \in {1, 3}, NEW p \in Nat, NEW m \in Nat, m * w = per(w) * p,
         NEW k \in Nat, NEW a, Took(Cand(f, x, w), m, a)
  PROVE  Took(Cand(f, x, w), m + per(w) * k, fill(a, outs(f, x, p, w * k), w))
<1> DEFINE s == outs(f, x, p, w * k)
           c == Cand(f, x, w)
<1>1. ASSUME NEW n \in 1 .. k
      PROVE  ChunkHas(c, w, m, n, candidates(Slice(s, (n - 1) * w, w)))
  BY ChunkIs
<1>2. w * k \in Nat /\ (w * k) \div w = k
  BY DivUnique
<1>3. Len(s) \div w = k
  <2>1. IsArray(w * k, s)
    BY Zenon DEF IsArray, outs
  <2> HIDE DEF s
  <2> QED
    BY <1>2, <2>1, AsSequence
<1>4. Took(c, m, a)
  OBVIOUS
<1> HIDE DEF c, s
<1>5. Took(c, m + per(w) * k, fill(a, s, w))
  BY <1>1, <1>3, <1>4, FillIs
<1> QED
  BY <1>5, Zenon DEF c, s

(* What has been collected, and the sponge after it.                          *)
InStream(f, x, w, p) ==
  \E m \in Nat, q \in Nat :
    /\ p = [a |-> p.a, ctx |-> sponge(f, x, q)]
    /\ m * w = per(w) * q
    /\ Took(Cand(f, x, w), m, p.a)

LEMMA Advances ==
  ASSUME Squeezed, NEW f, NEW x, NEW w \in {1, 3}, NEW p, InStream(f, x, w, p)
  PROVE  InStream(f, x, w, advance(w, p))
<1>1. PICK m \in Nat, q \in Nat : /\ p = [a |-> p.a, ctx |-> sponge(f, x, q)]
                                  /\ m * w = per(w) * q
                                  /\ Took(Cand(f, x, w), m, p.a)
  BY Zenon DEF InStream
<1>2. p.ctx = sponge(f, x, q)
  <2> DEFINE g == sponge(f, x, q)
             b == p.a
  <2>1. p = [a |-> b, ctx |-> g]
    BY <1>1
  <2> HIDE DEF g, b
  <2> QED
    BY <2>1, Zenon DEF g
<1>3. CASE Len(p.a) = N
  BY <1>3, Zenon DEF advance
<1>4. CASE Len(p.a) # N
  <2> DEFINE b == fill(p.a, outs(f, x, q, w * 1), w)
             g == sponge(f, x, q + w)
  <2>1. w * 1 = w /\ w \in Nat /\ per(w) \in Nat
    BY DEF per
  <2>2. squeeze(p.ctx, w).bytes = outs(f, x, q, w) /\ squeeze(p.ctx, w).ctx = g
    <3>1. /\ squeeze(sponge(f, x, q), w).bytes = outs(f, x, q, w)
          /\ squeeze(sponge(f, x, q), w).ctx = sponge(f, x, q + w)
      BY SqueezeIs
    <3> QED
      BY <1>2, <3>1, Zenon
  <2>3. advance(w, p) = [a |-> b, ctx |-> g]
    BY <1>4, <2>1, <2>2, Zenon DEF advance
  <2>4. Took(Cand(f, x, w), m + per(w) * 1, b)
    BY <1>1, FillStream
  <2>5. m + per(w) * 1 \in Nat /\ q + w \in Nat /\ (m + per(w) * 1) * w = per(w) * (q + w)
    <3> DEFINE r == per(w)
    <3>1. r \in Nat /\ m * w = r * q
      BY <1>1, <2>1
    <3> HIDE DEF r
    <3>2. (m + r * 1) * w = m * w + r * w /\ r * (q + w) = r * q + r * w
      BY <2>1, <3>1
    <3>3. (m + r * 1) * w = r * (q + w)
      BY <3>1, <3>2
    <3>4. m + r * 1 \in Nat /\ q + w \in Nat
      BY <2>1, <3>1
    <3> QED
      BY <3>3, <3>4 DEF r
  <2> HIDE DEF b
  <2>6. [a |-> b, ctx |-> g].a = b
    OBVIOUS
  <2> QED
    BY <2>3, <2>4, <2>5, <2>6, Zenon DEF InStream
<1> QED
  BY <1>3, <1>4

LEMMA CollectIs ==
  ASSUME Squeezed, NEW f, NEW x, NEW w \in {1, 3}, NEW b \in Nat
  PROVE  \E m \in Nat : Took(Cand(f, x, w), m, collect(sponge(f, x, 0), w * b, w))
<1> DEFINE ctx == sponge(f, x, 0)
           start == [a |-> fill(<< >>, squeeze(ctx, w * b).bytes, w), ctx |-> past_buffer(ctx, w * b)]
           more == CHOOSE g : CollectRun(w, start, g)
<1>1. MaxSqueezes \in Nat /\ 0 \in 0 .. MaxSqueezes /\ MaxSqueezes \in 0 .. MaxSqueezes
  BY SamplingConstants
<1>2. InStream(f, x, w, start)
  <2> DEFINE a == fill(<< >>, outs(f, x, 0, w * b), w)
             g == sponge(f, x, 0 + w * b)
  <2>1. start = [a |-> a, ctx |-> g]
    <3>1. /\ squeeze(ctx, w * b).bytes = outs(f, x, 0, w * b)
          /\ squeeze(ctx, w * b).ctx = g
      BY SqueezeIs
    <3> HIDE DEF ctx
    <3> QED
      BY <3>1, Zenon DEF past_buffer
  <2>2. w * b \in Nat /\ 0 + w * b \in Nat /\ per(w) \in Nat /\ 0 * w = per(w) * 0
    BY DEF per
  <2>3. Took(Cand(f, x, w), 0, << >>)
    BY TookNone
  <2>4. Took(Cand(f, x, w), 0 + per(w) * b, a)
    BY <2>2, <2>3, FillStream
  <2>5. 0 + per(w) * b \in Nat /\ (0 + per(w) * b) * w = per(w) * (0 + w * b)
    <3> DEFINE r == per(w)
    <3> HIDE DEF r
    <3>1. r \in Nat
      BY <2>2 DEF r
    <3>2. (0 + r * b) * w = r * (0 + w * b) /\ 0 + r * b \in Nat
      BY <3>1
    <3> QED
      BY <3>2 DEF r
  <2> HIDE DEF a
  <2>6. [a |-> a, ctx |-> g].a = a
    OBVIOUS
  <2> HIDE DEF start
  <2> QED
    BY <2>1, <2>2, <2>4, <2>5, <2>6, Zenon DEF InStream
<1>3. collect(ctx, w * b, w) = more[MaxSqueezes].a
  BY Zenon DEF collect, CollectRun, advance
<1> DEFINE S == [a : Seq(ValuesOf(Cand(f, x, w))), ctx : {sponge(f, x, q) : q \in Nat}]
           U == {p \in S : InStream(f, x, w, p)}
           step == [n \in 1 .. MaxSqueezes |-> [p \in U |-> advance(w, p)]]
<1> HIDE DEF ctx, start, more
<1>4. ASSUME NEW p, InStream(f, x, w, p)
      PROVE  p \in U
  <2>1. PICK m \in Nat, q \in Nat : /\ p = [a |-> p.a, ctx |-> sponge(f, x, q)]
                                    /\ Took(Cand(f, x, w), m, p.a)
    BY <1>4, Zenon DEF InStream
  <2>2. p.a \in Seq(ValuesOf(Cand(f, x, w))) /\ sponge(f, x, q) \in {sponge(f, x, i) : i \in Nat}
    BY <2>1, Zenon DEF Took
  <2> DEFINE a == p.a
             g == sponge(f, x, q)
             A == Seq(ValuesOf(Cand(f, x, w)))
             C == {sponge(f, x, i) : i \in Nat}
  <2>3. p = [a |-> a, ctx |-> g] /\ a \in A /\ g \in C
    BY <2>1, <2>2, Zenon
  <2> HIDE DEF a, g, A, C
  <2>4. p \in [a : A, ctx : C]
    BY <2>3
  <2>5. p \in S
    BY <2>4, Zenon DEF A, C
  <2> QED
    BY <1>4, <2>5
<1>5. \A p \in U : InStream(f, x, w, p)
  OBVIOUS
<1> HIDE DEF U
<1>6. step \in [1 .. MaxSqueezes -> [U -> U]]
  <2>1. ASSUME NEW p \in U
        PROVE  advance(w, p) \in U
    <3>1. InStream(f, x, w, advance(w, p))
      BY <1>5, <2>1, Advances
    <3> QED
      BY <1>4, <3>1
  <2> QED
    BY <2>1
<1>7. \A n \in 1 .. MaxSqueezes : \A p \in U : step[n][p] = advance(w, p)
  OBVIOUS
<1> HIDE DEF step
<1>8. PICK g \in [0 .. MaxSqueezes -> U] : Iterates(MaxSqueezes, start, step, g)
  BY <1>1, <1>2, <1>4, <1>6, IteratesExist
<1>9. CollectRun(w, start, g)
  <2>1. g = [n \in 0 .. MaxSqueezes |-> IF n = 0 THEN start ELSE step[n][g[n - 1]]]
    BY <1>8, Zenon DEF Iterates
  <2>2. ASSUME NEW n \in 0 .. MaxSqueezes, n # 0
        PROVE  step[n][g[n - 1]] = advance(w, g[n - 1])
    <3>1. n \in 1 .. MaxSqueezes /\ n - 1 \in 0 .. MaxSqueezes
      BY <1>1, <2>2
    <3> QED
      BY <1>7, <1>8, <3>1
  <2>3. \A n \in 0 .. MaxSqueezes :
           (IF n = 0 THEN start ELSE step[n][g[n - 1]]) = (IF n = 0 THEN start ELSE advance(w, g[n - 1]))
    BY <2>2, Zenon
  <2>4. g = [n \in 0 .. MaxSqueezes |-> IF n = 0 THEN start ELSE advance(w, g[n - 1])]
    BY <2>1, <2>3
  <2> QED
    BY <2>4, Zenon DEF CollectRun
<1>10. CollectRun(w, start, more)
  BY <1>9, Zenon DEF more
<1>11. \A n \in 0 .. MaxSqueezes : InStream(f, x, w, more[n])
  <2> DEFINE T == {n \in 0 .. MaxSqueezes : InStream(f, x, w, more[n])}
  <2>1. \A n \in 0 .. MaxSqueezes : more[n] = IF n = 0 THEN start ELSE advance(w, more[n - 1])
    BY <1>10, Zenon DEF CollectRun
  <2>2. 0 \in T
    BY <1>1, <1>2, <2>1
  <2>3. ASSUME NEW n \in 1 .. MaxSqueezes, n - 1 \in T
        PROVE  n \in T
    <3>1. n \in 0 .. MaxSqueezes /\ n # 0 /\ InStream(f, x, w, more[n - 1])
      BY <1>1, <2>3
    <3>2. InStream(f, x, w, advance(w, more[n - 1]))
      BY <3>1, Advances
    <3>3. more[n] = advance(w, more[n - 1])
      BY <2>1, <3>1, Zenon
    <3> QED
      BY <3>1, <3>2, <3>3
  <2>4. \A n \in 0 .. MaxSqueezes : n \in T
    <3> HIDE DEF T
    <3> QED
      BY <1>1, <2>2, <2>3, UpTo
  <2> QED
    BY <2>4
<1> QED
  <2>1. PICK m \in Nat : Took(Cand(f, x, w), m, more[MaxSqueezes].a)
    BY <1>1, <1>11, Zenon DEF InStream
  <2> QED
    BY <1>3, <2>1, Zenon DEF ctx
-----------------------------------------------------------------------------
(* A sampler that found its N coefficients returns the first there are.       *)
LEMMA SampleIs ==
  ASSUME Squeezed, NEW f, NEW x, NEW w \in {1, 3}, NEW b \in Nat,
         Len(collect(sponge(f, x, 0), w * b, w)) = N
  PROVE  /\ rejection_sample(sponge(f, x, 0), w * b, w) = FirstOf(Cand(f, x, w))
         /\ \A i \in Coeff : \E n \in Nat :
              /\ rejection_sample(sponge(f, x, 0), w * b, w)[i] = Cand(f, x, w)[n]
              /\ Cand(f, x, w)[n] # NoElem
<1> DEFINE a == collect(sponge(f, x, 0), w * b, w)
           c == Cand(f, x, w)
<1>1. PICK m \in Nat : Took(c, m, a)
  BY CollectIs
<1>2. rejection_sample(sponge(f, x, 0), w * b, w) = [i \in Coeff |-> a[i + 1]]
  BY ArrayIs, Zenon DEF rejection_sample
<1>3. Len(a) = N
  OBVIOUS
<1> HIDE DEF a, c
<1>4. FirstOf(c) = [i \in Coeff |-> a[i + 1]]
  BY <1>1, <1>3, FirstOfIs
<1>5. ASSUME NEW i \in Coeff
      PROVE  \E n \in Nat : a[i + 1] = c[n] /\ c[n] # NoElem
  <2>1. i + 1 \in 1 .. N
    BY Field DEF Coeff
  <2>2. PICK idx : Places(c, m, a, idx)
    BY <1>1, Zenon DEF Took
  <2>3. a[i + 1] = c[idx[i + 1]] /\ a[i + 1] # NoElem /\ idx \in [1 .. N -> 0 .. m - 1]
    BY <1>3, <2>1, <2>2, Zenon DEF Places
  <2>4. idx[i + 1] \in Nat
    BY <2>1, <2>3
  <2> QED
    BY <2>3, <2>4, Zenon
<1>6. \A i \in Coeff : \E n \in Nat : [j \in Coeff |-> a[j + 1]][i] = c[n] /\ c[n] # NoElem
  BY <1>5, Zenon
<1> QED
  <2> DEFINE p == rejection_sample(sponge(f, x, 0), w * b, w)
  <2>1. p = [i \in Coeff |-> a[i + 1]]
    BY <1>2
  <2> HIDE DEF p
  <2>2. p = FirstOf(c)
    BY <1>4, <2>1
  <2>3. \A i \in Coeff : \E n \in Nat : p[i] = c[n] /\ c[n] # NoElem
    BY <1>6, <2>1
  <2> QED
    BY <2>2, <2>3, Zenon DEF p, c

LEMMA CandTyped ==
  ASSUME Squeezed, NEW f, NEW x, NEW w \in {1, 3}, NEW n \in Nat, Cand(f, x, w)[n] # NoElem
  PROVE  Cand(f, x, w)[n] \in Elem /\ (w = 1 => Small(Cand(f, x, w)[n]))
<1>1. \A i : out(f, x, i) \in Byte
  BY Zenon DEF Squeezed, out
<1>2. CASE w = 3
  <2>1. Cand(f, x, 3)[n] = coeff_from_three_bytes(<< out(f, x, 3 * n), out(f, x, 3 * n + 1),
                                                     out(f, x, 3 * n + 2) >>)
    BY CandIs
  <2> DEFINE b0 == out(f, x, 3 * n)
             b1 == out(f, x, 3 * n + 1)
             b2 == out(f, x, 3 * n + 2)
  <2>2. b0 \in Byte /\ b1 \in Byte /\ b2 \in Byte
    BY <1>1
  <2> HIDE DEF b0, b1, b2
  <2>3. Cand(f, x, 3)[n] = coeff_from_three_bytes(<< b0, b1, b2 >>)
    BY <2>1, Zenon DEF b0, b1, b2
  <2>4. Cand(f, x, 3)[n] \in Elem
    BY <1>2, <2>2, <2>3, ThreeTyped
  <2> QED
    BY <1>2, <2>4
<1>3. CASE w = 1
  <2> DEFINE q == n \div 2
             b == out(f, x, q)
  <2>1. q \in Nat /\ (n = 2 * q \/ n = 2 * q + 1)
    OBVIOUS
  <2>2. /\ Cand(f, x, 1)[2 * q] = coeff_from_half_byte(b % 16)
        /\ Cand(f, x, 1)[2 * q + 1] = coeff_from_half_byte(b \div 16)
    <3> HIDE DEF q
    <3> QED
      BY <2>1, CandIs
  <2>3. b \in 0 .. 255
    BY <1>1, Zenon DEF Byte
  <2> HIDE DEF q, b
  <2>4. b % 16 \in 0 .. 15 /\ b \div 16 \in 0 .. 15
    BY <2>3
  <2>5. PICK h \in 0 .. 15 : Cand(f, x, 1)[n] = coeff_from_half_byte(h)
    BY <2>1, <2>2, <2>4, Zenon
  <2>6. Small(Cand(f, x, 1)[n])
    BY <1>3, <2>5, HalfTyped
  <2> QED
    BY <1>3, <2>6 DEF Small
<1> QED
  BY <1>2, <1>3

LEMMA SampleTyped ==
  ASSUME Squeezed, NEW f, NEW x, NEW w \in {1, 3}, NEW b \in Nat,
         Len(collect(sponge(f, x, 0), w * b, w)) = N
  PROVE  LET p == rejection_sample(sponge(f, x, 0), w * b, w)
         IN p \in Polynomial /\ (w = 1 => \A i \in Coeff : Small(p[i]))
<1> DEFINE p == rejection_sample(sponge(f, x, 0), w * b, w)
<1>1. \A i \in Coeff : \E n \in Nat : p[i] = Cand(f, x, w)[n] /\ Cand(f, x, w)[n] # NoElem
  BY SampleIs
<1>2. p = [i \in Coeff |-> p[i]]
  <2>1. p = [i \in Coeff |-> collect(sponge(f, x, 0), w * b, w)[i + 1]]
    BY ArrayIs, Zenon DEF rejection_sample
  <2> HIDE DEF p
  <2> QED
    BY <2>1
<1> HIDE DEF p
<1>3. \A i \in Coeff : p[i] \in Elem /\ (w = 1 => Small(p[i]))
  <2> TAKE i \in Coeff
  <2>1. PICK n \in Nat : p[i] = Cand(f, x, w)[n] /\ Cand(f, x, w)[n] # NoElem
    BY <1>1, Zenon
  <2>2. Cand(f, x, w)[n] \in Elem /\ (w = 1 => Small(Cand(f, x, w)[n]))
    BY <2>1, CandTyped
  <2> QED
    BY <2>1, <2>2, Zenon
<1>4. p \in Polynomial
  BY <1>2, <1>3 DEF Polynomial
<1> QED
  BY <1>3, <1>4, Zenon DEF p
-----------------------------------------------------------------------------
(* A stream by its input.                                                     *)
LEMMA AbsorbIs ==
  ASSUME NEW f, NEW x, NEW p, NEW y
  PROVE  absorb(sponge(f, x, p), y) = sponge(f, x \o y, p)
<1>1. \A z : absorb(sponge(f, x, p), z) = sponge(f, x \o z, p)
  BY SpongeIs
<1> QED
  BY <1>1, Zenon

LEMMA Absorbed ==
  ASSUME NEW f, NEW e, NEW a, NEW x, NEW y, NEW z, NEW ax, NEW az,
         Joins(e, a, x, y, z, ax, az)
  PROVE  Reads(f, e, a, x, y, z, ax, az)
<1>1. absorb(sponge(f, e, 0), a) = sponge(f, e \o a, 0)
  BY AbsorbIs
<1>2. absorb(sponge(f, e, 0), az) = sponge(f, e \o az, 0)
  BY AbsorbIs
<1>3. absorb(sponge(f, a, 0), x) = sponge(f, a \o x, 0)
  BY AbsorbIs
<1>4. absorb(sponge(f, ax, 0), y) = sponge(f, ax \o y, 0)
  BY AbsorbIs
<1>5. absorb(sponge(f, a, 0), z) = sponge(f, a \o z, 0)
  BY AbsorbIs
<1> QED
  BY <1>1, <1>2, <1>3, <1>4, <1>5, Zenon DEF Joins, Reads

LEMMA StreamIs ==
  ASSUME NEW S, NEW a \in Seq(S), NEW x \in S, NEW y \in S
  PROVE  Streams(a, x, y)
<1>1. G = sponge("G", << >>, 0) /\ H = sponge("H", << >>, 0)
  BY DEF G, H, ShakeState, sponge
<1>2. << x >> \in Seq(S) /\ << y >> \in Seq(S) /\ << x, y >> \in Seq(S) /\ << x >> \o << y >> = << x, y >>
  <2>1. << x >> \in Seq(S) /\ << y >> \in Seq(S) /\ << x, y >> \in Seq(S)
    OBVIOUS
  <2>2. << x >> \o << y >> = << x, y >>
    <3>1. IsArray(1, << x >>) /\ IsArray(1, << y >>)
      BY DEF IsArray
    <3>2. << x >> \o << y >> = joined(<< x >>, 1, << y >>, 1)
      BY <3>1, JoinIs
    <3>3. joined(<< x >>, 1, << y >>, 1) = << x, y >>
      BY DEF joined
    <3> QED
      BY <3>2, <3>3
  <2> QED
    BY <2>1, <2>2
<1>3. << >> \o a = a
  BY ConcatEmptySeq
<1>4. (a \o << x >>) \o << y >> = a \o << x, y >>
  <2> DEFINE X == << x >>
             Y == << y >>
  <2>1. X \in Seq(S) /\ Y \in Seq(S)
    BY <1>2
  <2>2. X \o Y = << x, y >>
    BY <1>2
  <2> HIDE DEF X, Y
  <2>3. (a \o X) \o Y = a \o (X \o Y)
    BY <2>1, ConcatAssociative
  <2> QED
    BY <2>2, <2>3, Zenon DEF X, Y
<1>5. a \o << x, y >> \in Seq(S)
  BY <1>2, ConcatProperties
<1>6. << >> \o (a \o << x, y >>) = a \o << x, y >>
  BY <1>5, ConcatEmptySeq
<1> DEFINE e == << >>
           X == << x >>
           Y == << y >>
           z == << x, y >>
           az == a \o z
           ax == a \o X
<1>7. Joins(e, a, X, Y, z, ax, az)
  BY <1>3, <1>4, <1>6, Zenon DEF Joins
<1>8. G = sponge("G", e, 0) /\ H = sponge("H", e, 0)
  BY <1>1
<1> HIDE DEF e, X, Y, z, az, ax
<1>9. ASSUME NEW f
      PROVE  Reads(f, e, a, X, Y, z, ax, az)
  BY <1>7, Absorbed
<1>10. /\ absorb(G, a) = sponge("G", a, 0) /\ absorb(H, a) = sponge("H", a, 0)
       /\ absorb(G, az) = sponge("G", az, 0) /\ absorb(H, az) = sponge("H", az, 0)
       /\ absorb(absorb(absorb(G, a), X), Y) = sponge("G", az, 0)
       /\ absorb(absorb(absorb(H, a), X), Y) = sponge("H", az, 0)
       /\ absorb(absorb(H, a), z) = sponge("H", az, 0)
  BY <1>8, <1>9, Zenon DEF Reads
<1> QED
  BY <1>10, Zenon DEF X, Y, z, az, Streams

(* The polynomials that are sampled.                                          *)
Sample(f, x, w, p) ==
  p = FirstOf(Cand(f, x, w)) /\ p \in Polynomial /\ (w = 1 => \A i \in Coeff : Small(p[i]))

LEMMA NttPolyIs ==
  ASSUME Squeezed, NEW rho, IsArray(B32, rho), NEW r \in Nat, NEW s \in Nat,
         Len(collect(ntt_stream(rho, r, s), NTT_BUF, 3)) = N
  PROVE  Sample("G", rho \o << s, r >>, 3, rej_ntt_poly(rho, r, s))
<1>1. PICK S : rho \in Seq(S) /\ Nat \subseteq S
  BY ParameterSet, ArrayJoins
<1> DEFINE x == rho \o << s, r >>
           b == NTT_BUF \div 3
<1>2. ntt_stream(rho, r, s) = sponge("G", x, 0)
  <2>1. s \in S /\ r \in S
    BY <1>1
  <2> QED
    <3>1. Streams(rho, s, r)
      BY <1>1, <2>1, StreamIs
    <3> QED
      BY <3>1, Zenon DEF ntt_stream, Streams
<1>3. b \in Nat /\ 3 * b = NTT_BUF
  BY SamplingConstants
<1> HIDE DEF x, b
<1>4. Len(collect(sponge("G", x, 0), 3 * b, 3)) = N
  BY <1>2, <1>3
<1> DEFINE p == rejection_sample(sponge("G", x, 0), 3 * b, 3)
<1>5. p = FirstOf(Cand("G", x, 3))
  BY <1>3, <1>4, SampleIs
<1>6. p \in Polynomial
  BY <1>3, <1>4, SampleTyped
<1>7. rej_ntt_poly(rho, r, s) = p
  BY <1>2, <1>3, Zenon DEF rej_ntt_poly
<1> HIDE DEF p
<1>8. 3 # 1
  OBVIOUS
<1> QED
  BY <1>5, <1>6, <1>7, <1>8, Zenon DEF Sample, x

LEMMA BoundedPolyIs ==
  ASSUME Squeezed, NEW rho, IsArray(B64, rho), NEW n \in 0 .. 255,
         Len(collect(bounded_stream(rho, n), BOUNDED_BUF, 1)) = N
  PROVE  Sample("H", rho \o << n, 0 >>, 1, rej_bounded_poly(rho, n))
<1>1. PICK S : rho \in Seq(S) /\ Nat \subseteq S
  BY ParameterSet, ArrayJoins
<1> DEFINE x == rho \o << n, 0 >>
           b == BOUNDED_BUF
<1>2. bounded_stream(rho, n) = sponge("H", x, 0)
  <2>1. n \in S /\ 0 \in S
    BY <1>1
  <2>2. to_le_bytes(n) = << n, 0 >>
    BY DEF to_le_bytes
  <2> QED
    <3>1. Streams(rho, n, 0)
      BY <1>1, <2>1, StreamIs
    <3> QED
      BY <2>2, <3>1, Zenon DEF bounded_stream, Streams
<1>3. b \in Nat /\ 1 * b = BOUNDED_BUF
  BY SamplingConstants
<1> HIDE DEF x, b
<1>4. Len(collect(sponge("H", x, 0), 1 * b, 1)) = N
  BY <1>2, <1>3
<1> DEFINE p == rejection_sample(sponge("H", x, 0), 1 * b, 1)
<1>5. p = FirstOf(Cand("H", x, 1))
  BY <1>3, <1>4, SampleIs
<1>6. p \in Polynomial /\ \A i \in Coeff : Small(p[i])
  BY <1>3, <1>4, SampleTyped
<1>7. rej_bounded_poly(rho, n) = p
  BY <1>2, <1>3, Zenon DEF rej_bounded_poly
<1> HIDE DEF p
<1> QED
  BY <1>5, <1>6, <1>7, Zenon DEF Sample, x

-----------------------------------------------------------------------------
LEMMA MatrixOfKey ==
  ASSUME KeyMade, key # NoKey
  PROVE  IsArray(B32, key.esk.rho) /\ key.esk.A_hat = expand_a(key.esk.rho)
<1> DEFINE e == key.esk
<1>1. KeyWhole(e)
  BY SeedKeyWhole, ExpandedKeyWhole, Zenon
<1> HIDE DEF e
<1>2. /\ IsArray(B32, e.rho)
      /\ e = ExpandedSigningKey(e.rho, e.K, e.tr, e.s1, e.s2, e.t0, expand_a(e.rho))
  BY <1>1, Zenon DEF KeyWhole
<1> DEFINE A == expand_a(e.rho)
<1>3. e = ExpandedSigningKey(e.rho, e.K, e.tr, e.s1, e.s2, e.t0, A)
  BY <1>2
<1> HIDE DEF A
<1>4. \A a, b, c, x, y, z : ExpandedSigningKey(a, b, c, x, y, z, A).A_hat = A
  BY DEF ExpandedSigningKey
<1>5. e.A_hat = A
  BY <1>3, <1>4, Zenon
<1> QED
  BY <1>2, <1>5, Zenon DEF e, A

LEMMA SecretsOfKey ==
  ASSUME KeyMade, key # NoKey, key.from # "expanded"
  PROVE  /\ key.esk.s1 = expand_s(L, rhoprime(key.seed), 0)
         /\ key.esk.s2 = expand_s(K, rhoprime(key.seed), L)
<1> DEFINE xi == key.seed
           h == squeeze(absorb(absorb(absorb(H, xi), << K >>), << L >>), B32)
           h1 == squeeze(h.ctx, B64)
           rho == h.bytes
           seed == squeeze_new(h1.ctx, B32)
           s1 == expand_s(L, h1.bytes, 0)
           s2 == expand_s(K, h1.bytes, L)
           t == VecPower2Round(VecAdd(Product(expand_a(rho), ntt_vec(s1)), s2))
           tr == squeeze_new(absorb(H, encode_internal(rho, t[1])), B64)
           esk == ExpandedSigningKey(rho, seed, tr, s1, s2, t[2], expand_a(rho))
<1>1. xi \in Seq(Byte) /\ key.esk = from_seed(xi).expanded_key
  BY Zenon DEF KeyMade, FromSeed
<1>2. h1.bytes = rhoprime(xi)
  <2> DEFINE S == Nat \cup Byte
  <2>1. xi \in Seq(S) /\ K \in S /\ L \in S
    BY <1>1, ParameterSet
  <2> HIDE DEF S
  <2>2. Streams(xi, K, L)
    BY <2>1, StreamIs
  <2> QED
    BY <2>2, Zenon DEF Streams, rhoprime, squeeze_new
<1>3. from_seed(xi) = signing_key(xi, esk)
  BY Zenon DEF from_seed, with_secrets, with_t
<1>7. esk = ExpandedSigningKey(rho, seed, tr, s1, s2, t[2], expand_a(rho))
  OBVIOUS
<1> HIDE DEF esk
<1>4. key.esk = esk
  BY <1>1, <1>3 DEF signing_key
<1> HIDE DEF tr, t, s1, s2, rho, seed
<1>5. esk.s1 = s1 /\ esk.s2 = s2
  BY <1>7, Expanded
<1>6. s1 = expand_s(L, h1.bytes, 0) /\ s2 = expand_s(K, h1.bytes, L)
  BY DEF s1, s2
<1> HIDE DEF h1, xi
<1> QED
  BY <1>2, <1>4, <1>5, <1>6, Zenon DEF xi

(* The matrix of a key, and the secrets of one made from a seed.              *)
LEMMA MatrixSampled ==
  ASSUME Squeezed, KeyMade, key # NoKey, Found, NEW r \in Rows, NEW s \in Columns
  PROVE  Sample("G", key.esk.rho \o << s, r >>, 3, key.esk.A_hat[r][s])
<1> DEFINE rho == key.esk.rho
<1>1. IsArray(B32, rho) /\ key.esk.A_hat = expand_a(rho)
  BY MatrixOfKey
<1>2. Len(collect(ntt_stream(rho, r, s), NTT_BUF, 3)) = N
  BY Zenon DEF Found
<1> HIDE DEF rho
<1>3. expand_a(rho)[r][s] = rej_ntt_poly(rho, r, s)
  <2> DEFINE A == [q \in Rows |-> [p \in Columns |-> rej_ntt_poly(rho, q, p)]]
  <2>1. expand_a(rho) = A
    BY ArrayIs DEF expand_a
  <2>2. A[r][s] = rej_ntt_poly(rho, r, s)
    OBVIOUS
  <2> QED
    BY <2>1, <2>2, Zenon
<1>4. r \in Nat /\ s \in Nat
  BY DEF Rows, Columns
<1>5. Sample("G", rho \o << s, r >>, 3, rej_ntt_poly(rho, r, s))
  BY <1>1, <1>2, <1>4, NttPolyIs
<1> QED
  BY <1>1, <1>3, <1>5, Zenon DEF rho

LEMMA SecretsSampled ==
  ASSUME Squeezed, KeyMade, key # NoKey, key.from # "expanded", Found
  PROVE  /\ \A s \in Columns : Sample("H", rhoprime(key.seed) \o << s, 0 >>, 1, key.esk.s1[s])
         /\ \A r \in Rows : Sample("H", rhoprime(key.seed) \o << L + r, 0 >>, 1, key.esk.s2[r])
<1> DEFINE rho == rhoprime(key.seed)
<1>1. IsArray(B64, rho)
  BY SqueezedArray, Zenon DEF rhoprime
<1>2. \A n \in 0 .. K + L - 1 : Len(collect(bounded_stream(rho, n), BOUNDED_BUF, 1)) = N
  BY Zenon DEF Found
<1>3. key.esk.s1 = expand_s(L, rho, 0) /\ key.esk.s2 = expand_s(K, rho, L)
  BY SecretsOfKey
<1> HIDE DEF rho
<1>4. K \in Nat /\ L \in Nat /\ K + L <= 256
  BY ParameterSet
<1>5. ASSUME NEW n \in 0 .. K + L - 1
      PROVE  Sample("H", rho \o << n, 0 >>, 1, rej_bounded_poly(rho, n))
  <2>1. n \in 0 .. 255
    BY <1>4
  <2> QED
    BY <1>1, <1>2, <2>1, BoundedPolyIs
<1>6. ASSUME NEW s \in Columns
      PROVE  Sample("H", rho \o << s, 0 >>, 1, key.esk.s1[s])
  <2>1. s \in 0 .. K + L - 1 /\ s \in 0 .. L - 1 /\ s + 0 = s
    BY <1>4 DEF Columns
  <2>2. expand_s(L, rho, 0)[s] = rej_bounded_poly(rho, s + 0)
    BY <1>4, <2>1, ExpandSIs
  <2> QED
    BY <1>3, <1>5, <2>1, <2>2, Zenon
<1>7. ASSUME NEW r \in Rows
      PROVE  Sample("H", rho \o << L + r, 0 >>, 1, key.esk.s2[r])
  <2> DEFINE n == L + r
  <2>1. n \in 0 .. K + L - 1 /\ r \in 0 .. K - 1 /\ r + L = n
    BY <1>4 DEF Rows
  <2>2. expand_s(K, rho, L)[r] = rej_bounded_poly(rho, r + L)
    BY <1>4, <2>1, ExpandSIs
  <2> HIDE DEF n
  <2>3. Sample("H", rho \o << n, 0 >>, 1, key.esk.s2[r])
    BY <1>3, <1>5, <2>1, <2>2, Zenon
  <2> QED
    BY <2>3 DEF n
<1> QED
  BY <1>6, <1>7, Zenon DEF rho

LEMMA KeyRejection ==
  ASSUME Squeezed, KeyMade, Found
  PROVE  RejectionExact
<1> SUFFICES ASSUME Fresh, key.from = "seed" PROVE RejectionExact
  BY Zenon DEF RejectionExact
<1> DEFINE rho == key.esk.rho
           rhop == rhoprime(key.seed)
<1>1. key # NoKey /\ key.from # "expanded"
  BY DEF Fresh
<1>2. ASSUME NEW S, NEW a \in Seq(S), NEW x \in S, NEW y \in S
      PROVE  absorb(G, a \o << x, y >>) = sponge("G", a \o << x, y >>, 0)
             /\ absorb(H, a \o << x, y >>) = sponge("H", a \o << x, y >>, 0)
  BY StreamIs, Zenon DEF Streams
<1>3. PICK S : rho \in Seq(S) /\ Nat \subseteq S
  BY <1>1, MatrixOfKey, ParameterSet, ArrayJoins
<1>4. PICK T : rhop \in Seq(T) /\ Nat \subseteq T
  <2>1. IsArray(B64, rhop)
    BY SqueezedArray, Zenon DEF rhoprime
  <2> QED
    BY <2>1, ParameterSet, ArrayJoins
<1>5. ASSUME NEW x
      PROVE  Cand("G", x, 3) = Triples(sponge("G", x, 0)) /\ Cand("H", x, 1) = Nibbles(sponge("H", x, 0))
  <2>1. 3 = 3 /\ 1 # 3
    OBVIOUS
  <2> QED
    BY <2>1, Zenon DEF Cand
<1>6. ASSUME NEW r \in Rows, NEW s \in Columns
      PROVE  key.esk.A_hat[r][s] = FirstOf(Triples(absorb(G, rho \o << s, r >>)))
  <2>1. s \in S /\ r \in S
    BY <1>3 DEF Rows, Columns
  <2>2. Sample("G", rho \o << s, r >>, 3, key.esk.A_hat[r][s])
    BY <1>1, MatrixSampled
  <2>3. absorb(G, rho \o << s, r >>) = sponge("G", rho \o << s, r >>, 0)
    BY <1>2, <1>3, <2>1
  <2> QED
    BY <1>5, <2>2, <2>3, Zenon DEF Sample
<1>7. ASSUME NEW n \in Nat, NEW p, Sample("H", rhop \o << n, 0 >>, 1, p)
      PROVE  p = FirstOf(Nibbles(absorb(H, rhop \o << n, 0 >>)))
  <2>1. n \in T /\ 0 \in T
    BY <1>4
  <2>2. absorb(H, rhop \o << n, 0 >>) = sponge("H", rhop \o << n, 0 >>, 0)
    BY <1>2, <1>4, <2>1
  <2> QED
    BY <1>5, <1>7, <2>2, Zenon DEF Sample
<1>8. \A s \in Columns : key.esk.s1[s] = FirstOf(Nibbles(absorb(H, rhop \o << s, 0 >>)))
  <2>1. \A s \in Columns : s \in Nat
    BY DEF Columns
  <2>2. \A s \in Columns : Sample("H", rhop \o << s, 0 >>, 1, key.esk.s1[s])
    BY <1>1, SecretsSampled
  <2> QED
    BY <1>7, <2>1, <2>2, Zenon
<1>9. \A r \in Rows : key.esk.s2[r] = FirstOf(Nibbles(absorb(H, rhop \o << L + r, 0 >>)))
  <2>1. \A r \in Rows : L + r \in Nat
    BY ParameterSet DEF Rows
  <2>2. \A r \in Rows : Sample("H", rhop \o << L + r, 0 >>, 1, key.esk.s2[r])
    BY <1>1, SecretsSampled
  <2> QED
    BY <1>7, <2>1, <2>2, Zenon
<1> QED
  BY <1>6, <1>8, <1>9, Zenon DEF RejectionExact

LEMMA KeySampled ==
  ASSUME Squeezed, KeyMade, key # NoKey, Found
  PROVE  /\ key.esk.A_hat \in [Rows -> [Columns -> Polynomial]]
         /\ key.from # "expanded" => Short(Columns, Eta, key.esk.s1) /\ Short(Rows, Eta, key.esk.s2)
<1>1. key.esk.A_hat \in [Rows -> [Columns -> Polynomial]]
  <2> DEFINE rho == key.esk.rho
             A == expand_a(rho)
  <2>1. key.esk.A_hat = A
    BY MatrixOfKey
  <2>2. A = [r \in Rows |-> [s \in Columns |-> rej_ntt_poly(rho, r, s)]]
    BY ArrayIs DEF expand_a
  <2>3. \A r \in Rows, s \in Columns : A[r][s] \in Polynomial
    BY <2>1, MatrixSampled DEF Sample
  <2> HIDE DEF rho, A
  <2>4. A \in [Rows -> [Columns -> Polynomial]]
    BY <2>2, <2>3
  <2> QED
    BY <2>1, <2>4, Zenon
<1>2. ASSUME NEW S, NEW v, v = [r \in S |-> v[r]], \A r \in S : \E x : Sample("H", x, 1, v[r])
      PROVE  Short(S, Eta, v)
  <2>1. \A r \in S : v[r] \in Polynomial /\ \A i \in Coeff : Small(v[r][i])
    BY <1>2, Zenon DEF Sample
  <2>2. v \in [S -> Polynomial]
    BY <1>2, <2>1
  <2> QED
    BY <2>1, <2>2, Zenon DEF Short, Small
<1>3. ASSUME key.from # "expanded"
      PROVE  Short(Columns, Eta, key.esk.s1) /\ Short(Rows, Eta, key.esk.s2)
  <2> DEFINE s1 == key.esk.s1
             s2 == key.esk.s2
  <2>1. /\ s1 = expand_s(L, rhoprime(key.seed), 0)
        /\ s2 = expand_s(K, rhoprime(key.seed), L)
    BY <1>3, SecretsOfKey
  <2>2. /\ \A s \in Columns : \E x : Sample("H", x, 1, s1[s])
        /\ \A r \in Rows : \E x : Sample("H", x, 1, s2[r])
    BY <1>3, SecretsSampled, Zenon
  <2> HIDE DEF s1, s2
  <2>3. s1 = [r \in Columns |-> s1[r]] /\ s2 = [r \in Rows |-> s2[r]]
    <3> DEFINE f == expand_s(L, rhoprime(key.seed), 0)
               g == expand_s(K, rhoprime(key.seed), L)
    <3>1. f = [r \in 0 .. L - 1 |-> f[r]]
      BY ExpandSTyped
    <3>2. g = [r \in 0 .. K - 1 |-> g[r]]
      BY ExpandSTyped
    <3>3. s1 = f /\ s2 = g
      BY <2>1
    <3> HIDE DEF f, g
    <3> QED
      BY <3>1, <3>2, <3>3, Zenon DEF Rows, Columns
  <2> QED
    BY <1>2, <2>2, <2>3, Zenon DEF s1, s2
<1> QED
  BY <1>1, <1>3

LEMMA SamplersOfState ==
  ASSUME Squeezed, KeyMade, CallMade, Found
  PROVE  SamplersExact
<1>1. Passed => Shuffled(call.pass.c, TAU)
  <2> SUFFICES ASSUME Passed PROVE Shuffled(call.pass.c, TAU)
    OBVIOUS
  <2> DEFINE p == call.pass
  <2>1. PICK seed, kappa : PassOf(key.esk, call.mu, seed, kappa, p)
    BY Zenon DEF CallMade, Passed
  <2>2. p.c = sample_in_ball(p.c_tilde)
    BY <2>1, Zenon DEF PassOf
  <2>3. \A n \in 1 .. TAU : draw(shuffle(p.c_tilde)[n - 1].ctx, top(n)).bytes[1] <= top(n)
    BY Zenon DEF Found
  <2> HIDE DEF p
  <2>4. Shuffled(sample_in_ball(p.c_tilde), TAU)
    BY <2>3, ShuffledIs
  <2> QED
    BY <2>2, <2>4, Zenon DEF p
<1>2. ChallengeWeight
  <2> SUFFICES ASSUME Passed PROVE ChallengeWeight
    BY Zenon DEF ChallengeWeight
  <2> DEFINE c == call.pass.c
  <2>1. /\ Cardinality(Nonzero(c)) = TAU /\ \A i \in Coeff : c[i] \in {0, 1, Q - 1}
    BY <1>1, Zenon DEF Shuffled
  <2> HIDE DEF c
  <2>2. \A i \in Nonzero(c) : c[i] \in {1, Q - 1}
    BY <2>1 DEF Nonzero
  <2> QED
    BY <2>1, <2>2, Zenon DEF ChallengeWeight, Nonzero, c
<1>3. Sampled
  BY <1>1, KeySampled, Zenon DEF Sampled, Shuffled
<1>4. RejectionExact
  BY KeyRejection
<1> QED
  BY <1>2, <1>3, <1>4, Zenon DEF SamplersExact

LEMMA ConvolutionIs ==
  ASSUME NEW f \in Polynomial, NEW g \in Polynomial, NEW k \in Coeff
  PROVE  \E s : ConvSums(f, g, k, s) /\ Convolution(f, g)[k] = s[N] % Q /\ \A n \in 0 .. N : s[n] \in Int
<1> DEFINE t(i) == IF i <= k THEN f[i] * g[k - i] ELSE -(f[i] * g[N + k - i])
           P(s) == s = [n \in 0 .. N |-> IF n = 0 THEN 0 ELSE s[n - 1] + t(n - 1)]
           V == [n \in 0 .. N |-> Int]
           step == [n \in 1 .. N |-> [v \in Int |-> v + t(n - 1)]]
<1>1. N \in Nat /\ Coeff = 0 .. N - 1
  BY Field DEF Coeff
<1>2. ASSUME NEW n \in 1 .. N
      PROVE  t(n - 1) \in Int
  <2>1. n - 1 \in Coeff
    BY <1>1
  <2>2. ConvTerm(f, g, n - 1, k) \in Int
    BY <2>1, ConvTermTyped
  <2>3. ConvTerm(f, g, n - 1, k) = t(n - 1)
    BY Zenon DEF ConvTerm
  <2> QED
    BY <2>2, <2>3, Zenon
<1> HIDE DEF t
<1>3. \E s : P(s) /\ \A n \in 0 .. N : s[n] \in Int
  <2>1. \A n \in 1 .. N : \A v \in Int : step[n][v] = v + t(n - 1)
    OBVIOUS
  <2>2. \A n \in 0 .. N : V[n] = Int
    OBVIOUS
  <2>3. 0 \in V[0]
    BY <1>1
  <2>4. \A n \in 1 .. N : \A v \in V[n - 1] : step[n][v] \in V[n]
    <3> HIDE DEF V, step
    <3> SUFFICES ASSUME NEW n \in 1 .. N, NEW v \in V[n - 1] PROVE step[n][v] \in V[n]
      OBVIOUS
    <3>1. n - 1 \in 0 .. N /\ n \in 0 .. N
      BY <1>1
    <3>2. v \in Int /\ step[n][v] = v + t(n - 1) /\ t(n - 1) \in Int /\ V[n] = Int
      BY <1>2, <2>1, <2>2, <3>1
    <3> QED
      BY <3>2
  <2> HIDE DEF V, step
  <2>5. PICK s : Iterates(N, 0, step, s) /\ \A n \in 0 .. N : s[n] \in V[n]
    BY <1>1, <2>3, <2>4, Levels
  <2>6. \A n \in 0 .. N : s[n] \in Int
    BY <2>2, <2>5
  <2>7. \A n \in 0 .. N : n # 0 => n \in 1 .. N /\ n - 1 \in 0 .. N
    BY <1>1
  <2>8. \A n \in 0 .. N : n # 0 => step[n][s[n - 1]] = s[n - 1] + t(n - 1)
    BY <2>1, <2>6, <2>7, Zenon
  <2>9. s = [n \in 0 .. N |-> IF n = 0 THEN 0 ELSE step[n][s[n - 1]]]
    BY <2>5, Zenon DEF Iterates
  <2>10. P(s)
    BY <2>8, <2>9, Zenon
  <2> HIDE DEF P
  <2> QED
    BY <2>6, <2>10, Zenon
<1> DEFINE r[n \in 0 .. N] == IF n = 0 THEN 0 ELSE r[n - 1] + t(n - 1)
<1>4. P(r)
  <2>1. r = CHOOSE s : P(s)
    OBVIOUS
  <2> HIDE DEF P, r
  <2> QED
    BY <1>3, <2>1, Zenon
<1>5. Convolution(f, g)[k] = r[N] % Q
  BY Zenon DEF Convolution, t
<1> HIDE DEF r
<1>6. \A n \in 0 .. N : r[n] \in Int
  <2> DEFINE T == {n \in 0 .. N : r[n] \in Int}
  <2>1. \A n \in 0 .. N : r[n] = IF n = 0 THEN 0 ELSE r[n - 1] + t(n - 1)
    BY <1>4, Zenon
  <2>2. 0 \in T
    BY <1>1, <2>1
  <2>3. ASSUME NEW n \in 1 .. N, n - 1 \in T
        PROVE  n \in T
    <3>1. n \in 0 .. N /\ n # 0 /\ r[n - 1] \in Int /\ t(n - 1) \in Int
      BY <1>1, <1>2, <2>3
    <3>2. r[n] = r[n - 1] + t(n - 1)
      BY <2>1, <3>1, Zenon
    <3>3. r[n] \in Int
      BY <3>1, <3>2
    <3> QED
      BY <3>1, <3>3
  <2> HIDE DEF T
  <2>4. \A n \in 0 .. N : n \in T
    BY <1>1, <2>2, <2>3, UpTo
  <2> QED
    BY <2>4 DEF T
<1>7. ConvSums(f, g, k, r)
  <2>1. ASSUME NEW n \in 0 .. N
        PROVE  ConvTerm(f, g, n - 1, k) = t(n - 1)
    BY Zenon DEF ConvTerm, t
  <2> QED
    BY <1>4, <2>1, Zenon DEF ConvSums
<1> QED
  BY <1>5, <1>6, <1>7, Zenon

(* A product, a coefficient of f at a time.                                   *)
PartialProducts(f, g, W) ==
  /\ W \in [0 .. N -> Polynomial] /\ W[0] = ZeroPoly /\ W[N] = Convolution(f, g)
  /\ \A n \in 1 .. N : W[n] = Combined(W[n - 1], f[n - 1], Rotation(g, n - 1))

LEMMA PartialProductsExist ==
  ASSUME NEW f \in Polynomial, NEW g \in Polynomial
  PROVE  \E W : PartialProducts(f, g, W)
<1> DEFINE S(k) == CHOOSE s : ConvSums(f, g, k, s) /\ Convolution(f, g)[k] = s[N] % Q
                              /\ \A n \in 0 .. N : s[n] \in Int
           W == [n \in 0 .. N |-> [k \in Coeff |-> S(k)[n] % Q]]
<1>1. N \in Nat \ {0} /\ Coeff = 0 .. N - 1 /\ Q \in Int
  BY Field DEF Coeff
<1>2. ASSUME NEW k \in Coeff
      PROVE  /\ Convolution(f, g)[k] = S(k)[N] % Q /\ S(k)[0] = 0
             /\ \A n \in 0 .. N : S(k)[n] \in Int /\ Is(S(k)[n] % Q, S(k)[n])
             /\ \A n \in 1 .. N : S(k)[n] = S(k)[n - 1] + ConvTerm(f, g, n - 1, k)
  <2>1. \E s : ConvSums(f, g, k, s) /\ Convolution(f, g)[k] = s[N] % Q /\ \A n \in 0 .. N : s[n] \in Int
    BY ConvolutionIs
  <2> DEFINE s == S(k)
  <2>2. ConvSums(f, g, k, s) /\ Convolution(f, g)[k] = s[N] % Q /\ \A n \in 0 .. N : s[n] \in Int
    BY <2>1, Zenon
  <2> HIDE DEF s
  <2>3. \A n \in 0 .. N : s[n] = IF n = 0 THEN 0 ELSE s[n - 1] + ConvTerm(f, g, n - 1, k)
    BY <2>2, Zenon DEF ConvSums
  <2>4. 0 \in 0 .. N /\ \A n \in 1 .. N : n \in 0 .. N /\ n # 0
    BY <1>1
  <2>5. s[0] = 0 /\ \A n \in 1 .. N : s[n] = s[n - 1] + ConvTerm(f, g, n - 1, k)
    BY <2>3, <2>4, Zenon
  <2>6. \A n \in 0 .. N : Is(s[n] % Q, s[n])
    BY <2>2, IsMod
  <2> QED
    BY <2>2, <2>5, <2>6, Zenon DEF s
<1> HIDE DEF S
<1>3. \A n \in 0 .. N, k \in Coeff : W[n][k] = S(k)[n] % Q /\ W[n][k] \in Elem
  <2>1. \A n \in 0 .. N, k \in Coeff : W[n][k] = S(k)[n] % Q
    OBVIOUS
  <2> HIDE DEF W
  <2> QED
    BY <1>2, <2>1 DEF Is
<1>4. \A n \in 0 .. N : W[n] = [k \in Coeff |-> W[n][k]]
  OBVIOUS
<1>5. W = [n \in 0 .. N |-> W[n]]
  OBVIOUS
<1> HIDE DEF W
<1>6. \A n \in 0 .. N : W[n] \in Polynomial
  BY <1>3, <1>4 DEF Polynomial
<1>7. W \in [0 .. N -> Polynomial]
  BY <1>5, <1>6
<1>8. W[0] = ZeroPoly
  <2>1. 0 \in 0 .. N /\ 0 % Q = 0
    BY <1>1, Field, SmallMod
  <2>2. \A k \in Coeff : W[0][k] = 0
    BY <1>2, <1>3, <2>1, Zenon
  <2> QED
    BY <1>4, <2>1, <2>2, ZeroIs, Zenon
<1>9. W[N] = Convolution(f, g)
  <2>1. N \in 0 .. N
    BY <1>1
  <2>2. \A k \in Coeff : W[N][k] = Convolution(f, g)[k]
    BY <1>2, <1>3, <2>1, Zenon
  <2>3. Convolution(f, g) = [k \in Coeff |-> Convolution(f, g)[k]]
    BY DEF Convolution
  <2> QED
    BY <1>4, <2>1, <2>2, <2>3, Zenon
<1>10. ASSUME NEW n \in 1 .. N
       PROVE  W[n] = Combined(W[n - 1], f[n - 1], Rotation(g, n - 1))
  <2> DEFINE i == n - 1
  <2>1. i \in Coeff /\ i \in 0 .. N /\ n \in 0 .. N
    BY <1>1
  <2> HIDE DEF i
  <2>2. ASSUME NEW k \in Coeff
        PROVE  W[n][k] = ElemAdd(W[i][k], ElemMul(f[i], Rotation(g, i)[k]))
    <3> DEFINE x == W[n][k]
               y == W[i][k]
               a == S(k)[n]
               b == S(k)[i]
               c == f[i]
               r == Rotation(g, i)[k]
               t == ConvTerm(f, g, i, k)
    <3>1. Is(x, a) /\ Is(y, b) /\ a \in Int /\ b \in Int /\ a = b + t
      BY <1>2, <1>3, <2>1, Zenon DEF i
    <3>2. Is(c, c) /\ c \in Elem /\ c \in Int
      BY <2>1, IsSelf DEF Polynomial
    <3>3. r = IF i <= k THEN g[k - i] ELSE ElemNeg(g[N + k - i])
      BY Zenon DEF Rotation
    <3>4. t = IF i <= k THEN f[i] * g[k - i] ELSE -(f[i] * g[N + k - i])
      BY Zenon DEF ConvTerm
    <3>5. Is(ElemMul(c, r), t)
      <4>1. CASE i <= k
        <5> DEFINE e == g[k - i]
        <5>1. e \in Elem /\ r = e /\ t = c * e
          BY <2>1, <3>3, <3>4, <4>1, ConvTermTyped
        <5> HIDE DEF c, r, t, e
        <5>2. Is(e, e) /\ e \in Int
          BY <5>1, IsSelf
        <5> QED
          BY <3>2, <5>1, <5>2, IsOps
      <4>2. CASE ~(i <= k)
        <5> DEFINE e == g[N + k - i]
        <5>1. e \in Elem /\ r = ElemNeg(e) /\ t = -(c * e)
          BY <2>1, <3>3, <3>4, <4>2, ConvTermTyped
        <5> HIDE DEF c, r, t, e
        <5>2. Is(e, e) /\ e \in Int
          BY <5>1, IsSelf
        <5>3. Is(r, -e)
          BY <5>1, <5>2, IsOps
        <5>4. Is(ElemMul(c, r), c * (-e))
          BY <3>2, <5>3, IsOps
        <5>5. c * (-e) = t
          BY <3>2, <5>1, <5>2
        <5> QED
          BY <5>4, <5>5
      <4> QED
        BY <4>1, <4>2
    <3> HIDE DEF x, y, a, b, c, r, t
    <3>6. Is(ElemAdd(y, ElemMul(c, r)), b + t)
      BY <3>1, <3>5, IsOps
    <3>7. x = ElemAdd(y, ElemMul(c, r))
      BY <3>1, <3>6, IsOne
    <3> QED
      BY <3>7 DEF x, y, c, r
  <2>3. W[n] = Combined(W[i], f[i], Rotation(g, i))
    BY <1>4, <2>1, <2>2, Zenon DEF Combined
  <2> QED
    BY <2>3 DEF i
<1> QED
  BY <1>7, <1>8, <1>9, <1>10, Zenon DEF PartialProducts

(* One is a unit of the product.                                              *)
LEMMA TimesOne ==
  ASSUME NEW f \in Polynomial, NEW W, PartialProducts(f, One, W)
  PROVE  W[N] = f
<1>1. N \in Nat \ {0} /\ Coeff = 0 .. N - 1 /\ Coeff \subseteq Int
  BY Field DEF Coeff
<1>2. \A j \in Coeff : f[j] \in Elem
  BY DEF Polynomial
<1>3. /\ W[0] = ZeroPoly /\ \A n \in 0 .. N : W[n] \in Polynomial
      /\ \A n \in 1 .. N : W[n] = Combined(W[n - 1], f[n - 1], Rotation(One, n - 1))
  BY DEF PartialProducts
<1> DEFINE T == {n \in 0 .. N : \A k \in Coeff : W[n][k] = IF k < n THEN f[k] ELSE 0}
<1>4. 0 \in T
  <2>1. 0 \in 0 .. N /\ \A k \in Coeff : ~(k < 0)
    BY <1>1
  <2>2. \A k \in Coeff : W[0][k] = 0
    BY <1>3, ZeroIs, Zenon
  <2> QED
    BY <2>1, <2>2, Zenon
<1>5. ASSUME NEW n \in 1 .. N, n - 1 \in T
      PROVE  n \in T
  <2> DEFINE i == n - 1
             x == f[i]
             v == W[i]
             r == Rotation(One, i)
  <2>1. i \in Coeff /\ n \in 0 .. N /\ i \in Int /\ n = i + 1
    BY <1>1
  <2>2. \A k \in Coeff : v[k] = IF k < i THEN f[k] ELSE 0
    BY <1>5, Zenon
  <2>3. W[n] = Combined(v, x, r)
    BY <1>3, Zenon
  <2>4. \A k \in Coeff : r[k] = IF i <= k THEN One[k - i] ELSE ElemNeg(One[N + k - i])
    BY Zenon DEF Rotation
  <2>5. x \in Elem
    BY <1>2, <2>1
  <2> HIDE DEF i, x, v, r
  <2>6. ASSUME NEW k \in Coeff
        PROVE  W[n][k] = IF k < n THEN f[k] ELSE 0
    <3>1. W[n][k] = ElemAdd(v[k], ElemMul(x, r[k]))
      BY <2>3, Zenon DEF Combined
    <3>2. f[k] \in Elem /\ 0 \in Elem
      BY <1>2, ZeroIs
    <3>3. /\ ElemMul(x, 0) = 0 /\ ElemMul(x, 1) = x /\ ElemAdd(0, x) = x
          /\ ElemAdd(f[k], 0) = f[k] /\ ElemAdd(0, 0) = 0
      BY <2>5, <3>2, MulUnits
    <3>4. CASE k = i
      <4>1. i <= k /\ k - i = 0 /\ 0 \in Coeff /\ ~(k < i) /\ k < n
        BY <1>1, <2>1, <3>4
      <4>2. One[0] = 1
        BY <4>1, Zenon DEF One
      <4>3. r[k] = 1 /\ v[k] = 0
        BY <2>2, <2>4, <4>1, <4>2, Zenon
      <4>4. f[k] = x
        BY <3>4 DEF x
      <4> QED
        BY <3>1, <3>3, <4>1, <4>3, <4>4, Zenon
    <3>5. CASE k # i
      <4>1. r[k] = 0
        <5>1. CASE i <= k
          <6>1. k - i \in Coeff /\ k - i # 0
            BY <1>1, <2>1, <3>5, <5>1
          <6>2. One[k - i] = 0
            BY <6>1, Zenon DEF One
          <6> QED
            BY <2>4, <5>1, <6>2, Zenon
        <5>2. CASE ~(i <= k)
          <6>1. N + k - i \in Coeff /\ N + k - i # 0
            BY <1>1, <2>1, <3>5, <5>2
          <6>2. One[N + k - i] = 0
            BY <6>1, Zenon DEF One
          <6>3. ElemNeg(0) = 0
            <7>1. Q \in Nat /\ Q - 0 >= Q /\ (Q - 0) - Q = 0
              BY Field
            <7> QED
              BY <7>1 DEF ElemNeg, small_reduce
          <6> QED
            BY <2>4, <5>2, <6>2, <6>3, Zenon
        <5> QED
          BY <5>1, <5>2
      <4>2. k < n <=> k < i
        BY <1>1, <2>1, <3>5
      <4>3. CASE k < i
        BY <2>2, <3>1, <3>3, <4>1, <4>2, <4>3, Zenon
      <4>4. CASE ~(k < i)
        BY <2>2, <3>1, <3>3, <4>1, <4>2, <4>4, Zenon
      <4> QED
        BY <4>3, <4>4
    <3> QED
      BY <3>4, <3>5
  <2> QED
    BY <2>1, <2>6, Zenon
<1>6. \A n \in 0 .. N : n \in T
  <2> HIDE DEF T
  <2> QED
    BY <1>1, <1>4, <1>5, UpTo
<1>7. N \in 0 .. N /\ \A k \in Coeff : k < N
  BY <1>1
<1>8. \A k \in Coeff : W[N][k] = f[k]
  BY <1>6, <1>7, Zenon
<1>9. W[N] \in Polynomial
  BY <1>3, <1>7
<1> QED
  BY <1>8, <1>9 DEF Polynomial

-----------------------------------------------------------------------------
(* What makes ntt worth having: it turns the product of two polynomials       *)
(* modulo X^N + 1 into the products of their values.                          *)
LEMMA NttOfConvolution ==
  ASSUME NEW f \in Polynomial, NEW g \in Polynomial
  PROVE  /\ ntt(Convolution(f, g)) = multiply_ntt(ntt(f), ntt(g))
         /\ Convolution(f, g) \in Polynomial
<1>1. N \in Nat \ {0} /\ Coeff = 0 .. N - 1
  BY Field DEF Coeff
<1>2. PICK W : PartialProducts(f, g, W)
  BY PartialProductsExist
<1>3. PICK V : PartialProducts(f, One, V)
  BY NttOfOne, PartialProductsExist
<1>4. /\ \A n \in 0 .. N : W[n] \in Polynomial /\ V[n] \in Polynomial
      /\ W[0] = ZeroPoly /\ V[0] = ZeroPoly /\ W[N] = Convolution(f, g)
      /\ \A n \in 1 .. N : W[n] = Combined(W[n - 1], f[n - 1], Rotation(g, n - 1))
      /\ \A n \in 1 .. N : V[n] = Combined(V[n - 1], f[n - 1], Rotation(One, n - 1))
  BY <1>2, <1>3 DEF PartialProducts
<1>5. V[N] = f
  BY <1>3, TimesOne
<1>6. \A j \in Coeff : ntt(g)[j] \in Elem
  BY NttTyped DEF Polynomial
<1> DEFINE T == {n \in 0 .. N : \A j \in Coeff : ntt(W[n])[j] = ElemMul(ntt(V[n])[j], ntt(g)[j])}
<1>7. 0 \in T
  <2>1. ASSUME NEW j \in Coeff
        PROVE  ntt(W[0])[j] = ElemMul(ntt(V[0])[j], ntt(g)[j])
    <3>1. ntt(W[0])[j] = 0 /\ ntt(V[0])[j] = 0
      BY <1>4, NttOfZero, ZeroIs, Zenon
    <3>2. ElemMul(0, ntt(g)[j]) = 0
      BY <1>6, MulUnits
    <3> QED
      BY <3>1, <3>2, Zenon
  <2>2. 0 \in 0 .. N
    BY <1>1
  <2> QED
    BY <2>1, <2>2, Zenon
<1>8. ASSUME NEW n \in 1 .. N, n - 1 \in T
      PROVE  n \in T
  <2> DEFINE i == n - 1
             w == W[i]
             v == V[i]
             x == f[i]
             r == Rotation(g, i)
             e == Rotation(One, i)
  <2>1. i \in Coeff /\ i \in 0 .. N /\ n \in 0 .. N
    BY <1>1
  <2>2. w \in Polynomial /\ v \in Polynomial /\ x \in Elem /\ r \in Polynomial /\ e \in Polynomial
    BY <1>4, <2>1, NttOfOne, RotationIs DEF Polynomial
  <2>3. W[n] = Combined(w, x, r) /\ V[n] = Combined(v, x, e)
    BY <1>4, Zenon
  <2>4. \A j \in Coeff : ntt(w)[j] = ElemMul(ntt(v)[j], ntt(g)[j])
    BY <1>8, Zenon
  <2>5. \A j \in Coeff : ntt(r)[j] = ElemMul(ntt(e)[j], ntt(g)[j])
    BY <2>1, NttOfRotation
  <2> HIDE DEF i, w, v, x, r, e
  <2>6. ntt(W[n]) = Combined(ntt(w), x, ntt(r)) /\ ntt(V[n]) = Combined(ntt(v), x, ntt(e))
    BY <2>2, <2>3, NttCombined
  <2>7. ASSUME NEW j \in Coeff
        PROVE  ntt(W[n])[j] = ElemMul(ntt(V[n])[j], ntt(g)[j])
    <3> DEFINE a == ntt(v)[j]
               t == ntt(e)[j]
               c == ntt(g)[j]
    <3>1. a \in Elem /\ t \in Elem /\ c \in Elem /\ x \in Elem
      BY <1>6, <2>2, NttTyped DEF Polynomial
    <3>2. ntt(W[n])[j] = ElemAdd(ntt(w)[j], ElemMul(x, ntt(r)[j]))
      BY <2>6, Zenon DEF Combined
    <3>3. ntt(V[n])[j] = ElemAdd(a, ElemMul(x, t))
      BY <2>6, Zenon DEF Combined
    <3>4. ntt(w)[j] = ElemMul(a, c) /\ ntt(r)[j] = ElemMul(t, c)
      BY <2>4, <2>5
    <3> HIDE DEF a, t, c
    <3>5. ElemAdd(ElemMul(a, c), ElemMul(x, ElemMul(t, c))) = ElemMul(ElemAdd(a, ElemMul(x, t)), c)
      <4>1. Is(a, a) /\ Is(t, t) /\ Is(c, c) /\ Is(x, x) /\ a \in Int /\ t \in Int /\ c \in Int /\ x \in Int
        BY <3>1, IsSelf
      <4>2. Is(ElemMul(a, c), a * c) /\ Is(ElemMul(t, c), t * c) /\ Is(ElemMul(x, t), x * t)
        BY <4>1, IsOps
      <4>3. Is(ElemMul(x, ElemMul(t, c)), x * (t * c)) /\ Is(ElemAdd(a, ElemMul(x, t)), a + x * t)
        BY <4>1, <4>2, IsOps
      <4>4. Is(ElemAdd(ElemMul(a, c), ElemMul(x, ElemMul(t, c))), a * c + x * (t * c))
        BY <4>2, <4>3, IsOps
      <4>5. Is(ElemMul(ElemAdd(a, ElemMul(x, t)), c), (a + x * t) * c)
        BY <4>1, <4>3, IsOps
      <4>6. a * c + x * (t * c) = (a + x * t) * c
        BY <4>1
      <4> QED
        BY <4>4, <4>5, <4>6, IsOne
    <3> QED
      BY <3>2, <3>3, <3>4, <3>5, Zenon DEF c
  <2> QED
    BY <2>1, <2>7, Zenon
<1>9. \A n \in 0 .. N : n \in T
  <2> HIDE DEF T
  <2> QED
    BY <1>1, <1>7, <1>8, UpTo
<1>10. N \in 0 .. N
  BY <1>1
<1>11. Convolution(f, g) \in Polynomial
  BY <1>4, <1>10
<1>12. \A j \in Coeff : ntt(Convolution(f, g))[j] = ElemMul(ntt(f)[j], ntt(g)[j])
  BY <1>4, <1>5, <1>9, <1>10, Zenon
<1>13. ntt(Convolution(f, g)) = [j \in Coeff |-> ntt(Convolution(f, g))[j]]
  BY <1>11, NttTyped DEF Polynomial
<1>14. multiply_ntt(ntt(f), ntt(g)) = [j \in Coeff |-> ElemMul(ntt(f)[j], ntt(g)[j])]
  BY MultiplyIs
<1>15. ntt(Convolution(f, g)) = multiply_ntt(ntt(f), ntt(g))
  BY <1>12, <1>13, <1>14, Zenon
<1> QED
  BY <1>11, <1>15

(* The transforms there and back around a product of values.                  *)
LEMMA ProductIsConvolution ==
  ASSUME NEW f \in Polynomial, NEW g \in Polynomial
  PROVE  ntt_inverse(multiply_ntt(ntt(f), ntt(g))) = Convolution(f, g)
<1>1. Convolution(f, g) \in Polynomial /\ ntt(Convolution(f, g)) = multiply_ntt(ntt(f), ntt(g))
  BY NttOfConvolution
<1>2. ntt_inverse(ntt(Convolution(f, g))) = Convolution(f, g)
  BY <1>1, InverseOfNtt
<1> QED
  BY <1>1, <1>2, Zenon

-----------------------------------------------------------------------------
(* The sum of a polynomial and one of the row's products.                     *)
Increased(f, row, v, i) ==
  [k \in Coeff |-> (f[k] + Convolution(ntt_inverse(row[i]), v[i])[k]) % Q]

RowRun(row, v, s) ==
  s = [n \in 0 .. L |-> IF n = 0 THEN ZeroPoly ELSE Increased(s[n - 1], row, v, n - 1)]

LEMMA IncreasedIs ==
  ASSUME NEW row \in [Columns -> Polynomial], NEW v \in [Columns -> Polynomial],
         NEW f \in Polynomial, NEW i \in Columns
  PROVE  /\ Increased(f, row, v, i) \in Polynomial
         /\ Increased(f, row, v, i) = Combined(f, 1, Convolution(ntt_inverse(row[i]), v[i]))
         /\ Convolution(ntt_inverse(row[i]), v[i])
              = ntt_inverse(multiply_ntt(row[i], ntt(v[i])))
<1> DEFINE a == ntt_inverse(row[i])
           b == v[i]
           c == Convolution(a, b)
<1>1. row[i] \in Polynomial /\ b \in Polynomial
  OBVIOUS
<1>2. a \in Polynomial /\ ntt(a) = row[i]
  BY <1>1, NttTyped, NttOfInverse
<1> HIDE DEF a, b
<1>3. c \in Polynomial /\ ntt_inverse(multiply_ntt(ntt(a), ntt(b))) = c
  BY <1>1, <1>2, NttOfConvolution, ProductIsConvolution
<1> HIDE DEF c
<1>4. ASSUME NEW k \in Coeff
      PROVE  (f[k] + c[k]) % Q = ElemAdd(f[k], ElemMul(1, c[k]))
  <2>1. f[k] \in Elem /\ c[k] \in Elem
    BY <1>3 DEF Polynomial
  <2>2. ElemMul(1, c[k]) = c[k]
    BY <2>1, MulUnits
  <2>3. ElemAdd(f[k], c[k]) = (f[k] + c[k]) % Q
    BY <2>1, FieldOps
  <2> QED
    BY <2>2, <2>3, Zenon
<1>5. Increased(f, row, v, i) = [k \in Coeff |-> (f[k] + c[k]) % Q]
  BY Zenon DEF Increased, a, b, c
<1>6. Increased(f, row, v, i) = Combined(f, 1, c)
  BY <1>4, <1>5, Zenon DEF Combined
<1>7. Increased(f, row, v, i) \in Polynomial
  <2>1. 1 \in Elem
    BY Field DEF Elem
  <2> QED
    BY <1>3, <1>6, <2>1, CombinedTyped
<1> QED
  BY <1>2, <1>3, <1>6, <1>7, Zenon DEF a, b, c

LEMMA RowTimesIs ==
  ASSUME NEW row \in [Columns -> Polynomial], NEW v \in [Columns -> Polynomial]
  PROVE  \E s : RowRun(row, v, s) /\ RowTimes(row, v) = s[L]
<1> DEFINE P(s) == s = [n \in 0 .. L |-> IF n = 0 THEN ZeroPoly ELSE Increased(s[n - 1], row, v, n - 1)]
           V == [n \in 0 .. L |-> Polynomial]
           step == [n \in 1 .. L |-> [f \in Polynomial |-> Increased(f, row, v, n - 1)]]
<1>1. L \in Nat /\ Columns = 0 .. L - 1
  BY ParameterSet DEF Columns
<1>2. ASSUME NEW n \in 1 .. L, NEW f \in Polynomial
      PROVE  Increased(f, row, v, n - 1) \in Polynomial
  <2>1. n - 1 \in Columns
    BY <1>1
  <2> QED
    BY <2>1, IncreasedIs
<1>3. \E s : P(s)
  <2>1. \A n \in 1 .. L : \A f \in Polynomial : step[n][f] = Increased(f, row, v, n - 1)
    OBVIOUS
  <2>2. \A n \in 0 .. L : V[n] = Polynomial
    OBVIOUS
  <2>3. 0 \in 0 .. L /\ \A n \in 1 .. L : n - 1 \in 0 .. L /\ n \in 0 .. L
    BY <1>1
  <2>4. \A n \in 0 .. L : n # 0 => n \in 1 .. L
    BY <1>1
  <2> HIDE DEF V, step
  <2>5. ZeroPoly \in V[0]
    BY <2>2, <2>3, ZeroTyped
  <2>6. ASSUME NEW n \in 1 .. L, NEW f \in V[n - 1]
        PROVE  step[n][f] \in V[n]
    <3>1. V[n - 1] = Polynomial /\ V[n] = Polynomial
      BY <2>2, <2>3, Zenon
    <3>2. f \in Polynomial
      BY <3>1
    <3>3. Increased(f, row, v, n - 1) \in Polynomial
      BY <1>2, <3>2
    <3>4. step[n][f] = Increased(f, row, v, n - 1)
      BY <2>1, <3>2
    <3> QED
      BY <3>1, <3>3, <3>4
  <2>7. PICK s : Iterates(L, ZeroPoly, step, s) /\ \A n \in 0 .. L : s[n] \in V[n]
    BY <1>1, <2>5, <2>6, Levels
  <2>8. \A n \in 0 .. L : n # 0 => step[n][s[n - 1]] = Increased(s[n - 1], row, v, n - 1)
    BY <2>1, <2>2, <2>3, <2>4, <2>7, Zenon
  <2>9. s = [n \in 0 .. L |-> IF n = 0 THEN ZeroPoly ELSE step[n][s[n - 1]]]
    BY <2>7, Zenon DEF Iterates
  <2>10. P(s)
    BY <2>8, <2>9, Zenon
  <2> HIDE DEF P
  <2> QED
    BY <2>10, Zenon
<1> DEFINE r[n \in 0 .. L] == IF n = 0 THEN ZeroPoly ELSE Increased(r[n - 1], row, v, n - 1)
<1>4. P(r)
  <2>1. r = CHOOSE s : P(s)
    OBVIOUS
  <2> HIDE DEF P, r
  <2> QED
    BY <1>3, <2>1, Zenon
<1>5. RowTimes(row, v) = r[L]
  BY Zenon DEF RowTimes, Increased
<1>6. RowRun(row, v, r)
  BY <1>4, Zenon DEF RowRun
<1> QED
  BY <1>5, <1>6, Zenon

(* A row of the matrix product is the sum of the products of polynomials.     *)
LEMMA DotIsRowTimes ==
  ASSUME NEW row \in [Columns -> Polynomial], NEW v \in [Columns -> Polynomial]
  PROVE  ntt_inverse(NttDot(row, ntt_vec(v))) = RowTimes(row, v)
<1> DEFINE u == ntt_vec(v)
<1>1. L \in Nat /\ Columns = 0 .. L - 1
  BY ParameterSet DEF Columns
<1>2. u \in [Columns -> Polynomial] /\ u = [j \in Columns |-> ntt(v[j])]
  <2>1. u = [j \in Columns |-> ntt(v[j])]
    BY DOMAIN v = Columns, ArrayIs, Zenon DEF ntt_vec
  <2>2. \A j \in Columns : ntt(v[j]) \in Polynomial
    BY NttTyped
  <2> HIDE DEF u
  <2> QED
    BY <2>1, <2>2
<1>3. \A j \in Columns : u[j] = ntt(v[j])
  BY <1>2
<1> HIDE DEF u
<1>4. PICK d : DotRun(row, u, d) /\ NttDot(row, u) = d[L] /\ \A n \in 0 .. L : d[n] \in Polynomial
  BY <1>2, DotIs
<1>5. PICK s : RowRun(row, v, s) /\ RowTimes(row, v) = s[L]
  BY RowTimesIs
<1>6. \A n \in 0 .. L : d[n] = IF n = 0 THEN ZeroPoly ELSE NttAdd(d[n - 1], multiply_ntt(row[n - 1], u[n - 1]))
  BY <1>4, Zenon DEF DotRun
<1>7. \A n \in 0 .. L : s[n] = IF n = 0 THEN ZeroPoly ELSE Increased(s[n - 1], row, v, n - 1)
  BY <1>5, Zenon DEF RowRun
<1> DEFINE T == {n \in 0 .. L : ntt_inverse(d[n]) = s[n]}
<1>8. 0 \in T
  <2>1. 0 \in 0 .. L
    BY <1>1
  <2>2. d[0] = ZeroPoly /\ s[0] = ZeroPoly
    BY <1>6, <1>7, <2>1, Zenon
  <2> QED
    BY <2>1, <2>2, NttOfZero, Zenon
<1>9. ASSUME NEW n \in 1 .. L, n - 1 \in T
      PROVE  n \in T
  <2> DEFINE i == n - 1
             f == d[i]
             m == multiply_ntt(row[i], u[i])
             a == ntt_inverse(f)
             b == ntt_inverse(m)
  <2>1. i \in Columns /\ i \in 0 .. L /\ n \in 0 .. L /\ n # 0
    BY <1>1
  <2>2. d[n] = NttAdd(f, m) /\ s[n] = Increased(a, row, v, i)
    BY <1>6, <1>7, <1>9, <2>1, Zenon
  <2>3. f \in Polynomial /\ row[i] \in Polynomial /\ u[i] \in Polynomial /\ u[i] = ntt(v[i])
    BY <1>2, <1>3, <1>4, <2>1
  <2> HIDE DEF i, f
  <2>4. m \in Polynomial
    BY <2>3, PolyOps, NttConstants
  <2>5. m = multiply_ntt(row[i], ntt(v[i]))
    BY <2>3, Zenon
  <2> HIDE DEF m
  <2>6. a \in Polynomial /\ b \in Polynomial /\ 1 \in Elem
    BY <2>3, <2>4, NttTyped, Field DEF Elem
  <2>7. NttAdd(f, m) = Combined(f, 1, m)
    <3>1. ASSUME NEW k \in Coeff
          PROVE  ElemAdd(f[k], m[k]) = ElemAdd(f[k], ElemMul(1, m[k]))
      <4>1. m[k] \in Elem
        BY <2>4 DEF Polynomial
      <4>2. ElemMul(1, m[k]) = m[k]
        BY <4>1, MulUnits
      <4> QED
        BY <4>2, Zenon
    <3>2. NttAdd(f, m) = [k \in Coeff |-> ElemAdd(f[k], m[k])]
      BY MultiplyIs
    <3> QED
      BY <3>1, <3>2, Zenon DEF Combined
  <2>8. ntt_inverse(Combined(f, 1, m)) = Combined(a, 1, b)
    BY <2>3, <2>4, <2>6, NttCombined
  <2> HIDE DEF a, b
  <2>9. Increased(a, row, v, i) = Combined(a, 1, b)
    <3>1. /\ Increased(a, row, v, i) = Combined(a, 1, Convolution(ntt_inverse(row[i]), v[i]))
          /\ Convolution(ntt_inverse(row[i]), v[i]) = ntt_inverse(multiply_ntt(row[i], ntt(v[i])))
      BY <2>1, <2>6, IncreasedIs
    <3> QED
      BY <2>5, <3>1, Zenon DEF b
  <2>10. ntt_inverse(d[n]) = s[n]
    BY <2>2, <2>7, <2>8, <2>9, Zenon
  <2> QED
    BY <2>1, <2>10, Zenon
<1>10. \A n \in 0 .. L : n \in T
  <2> HIDE DEF T
  <2> QED
    BY <1>1, <1>8, <1>9, UpTo
<1>11. L \in 0 .. L
  BY <1>1
<1>12. ntt_inverse(d[L]) = s[L]
  BY <1>10, <1>11, Zenon
<1> QED
  BY <1>4, <1>5, <1>12, Zenon DEF u

(* What a pass multiplies by the challenge.                                   *)
LEMMA TimesIs ==
  ASSUME NEW S, NEW c \in Polynomial, NEW v \in Vector(S), NEW r \in S
  PROVE  times(ntt(c), ntt_vec(v))[r] = Convolution(c, v[r]) /\ Convolution(c, v[r]) \in Polynomial
<1> DEFINE g == ntt(c)
           u == ntt_vec(v)
           m == NttVecScale(g, u)
<1>1. g \in Polynomial /\ 1 \in Elem
  BY NttTyped, Field DEF Elem
<1>2. DOMAIN v = S /\ u = [k \in S |-> ntt(v[k])] /\ DOMAIN u = S
  <2>1. DOMAIN v = S
    BY DEF Vector
  <2>2. u = [k \in S |-> ntt(v[k])]
    BY <2>1, ArrayIs, Zenon DEF ntt_vec
  <2> QED
    BY <2>1, <2>2
<1>3. u[r] = ntt(v[r]) /\ v[r] \in Polynomial
  BY <1>2 DEF Vector
<1> HIDE DEF g, u
<1>4. m = [k \in S |-> multiply_ntt(g, u[k])] /\ DOMAIN m = S
  <2>1. m = [k \in S |-> multiply_ntt(g, u[k])]
    BY <1>2, ArrayIs, Zenon DEF NttVecScale
  <2> QED
    BY <2>1
<1>5. m[r] = multiply_ntt(g, u[r])
  BY <1>4
<1> HIDE DEF m
<1>6. ntt_inverse_vec(m) = [k \in S |-> ntt_inverse(m[k])]
  BY <1>4, ArrayIs, Zenon DEF ntt_inverse_vec
<1>7. ntt_inverse_vec(m)[r] = ntt_inverse(m[r])
  BY <1>6
<1>8. ntt_inverse(multiply_ntt(ntt(c), ntt(v[r]))) = Convolution(c, v[r]) /\ Convolution(c, v[r]) \in Polynomial
  BY <1>3, ProductIsConvolution, NttOfConvolution
<1> QED
  BY <1>3, <1>5, <1>7, <1>8, Zenon DEF times, g, u, m

LEMMA SumsAre ==
  ASSUME NEW S, NEW v \in Vector(S), NEW w \in Vector(S), NEW r \in S
  PROVE  IsSum(v[r], w[r], VecAdd(v, w)[r]) /\ IsSum(VecSub(v, w)[r], w[r], v[r])
<1> DEFINE f == v[r]
           g == w[r]
           a == VecAdd(v, w)[r]
           b == VecSub(v, w)[r]
<1>1. f \in Polynomial /\ g \in Polynomial
  BY DEF Vector
<1>2. DOMAIN v = S
  BY DEF Vector
<1>3. VecAdd(v, w) = [k \in S |-> PolyAdd(v[k], w[k])] /\ VecSub(v, w) = [k \in S |-> PolySub(v[k], w[k])]
  BY <1>2, ArrayIs, Zenon DEF VecAdd, VecSub
<1>4. a = PolyAdd(f, g) /\ b = PolySub(f, g)
  BY <1>3
<1> HIDE DEF f, g, a, b
<1>5. PolyAdd(f, g) = [i \in Coeff |-> ElemAdd(f[i], g[i])] /\ PolySub(f, g) = [i \in Coeff |-> ElemSub(f[i], g[i])]
  BY ArrayIs, Zenon DEF PolyAdd, PolySub
<1>6. ASSUME NEW i \in Coeff
      PROVE  (f[i] + g[i]) % Q = a[i] /\ (b[i] + g[i]) % Q = f[i]
  <2> DEFINE x == f[i]
             y == g[i]
             z == ElemSub(x, y)
  <2>1. x \in Elem /\ y \in Elem
    BY <1>1 DEF Polynomial
  <2>2. a[i] = ElemAdd(x, y) /\ b[i] = z
    BY <1>4, <1>5
  <2> HIDE DEF x, y
  <2>3. Is(x, x) /\ Is(y, y) /\ x \in Int /\ y \in Int
    BY <2>1, IsSelf
  <2>4. Is(z, x - y)
    BY <2>3, IsOps
  <2>5. z \in Elem
    BY <2>4 DEF Is
  <2> HIDE DEF z
  <2>6. Is(ElemAdd(z, y), (x - y) + y)
    BY <2>3, <2>4, IsOps
  <2>7. (x - y) + y = x
    BY <2>3
  <2>8. ElemAdd(z, y) = x
    BY <2>3, <2>6, <2>7, IsOne
  <2>9. ElemAdd(x, y) = (x + y) % Q /\ ElemAdd(z, y) = (z + y) % Q
    BY <2>1, <2>5, FieldOps
  <2> QED
    BY <2>2, <2>8, <2>9, Zenon DEF x, y
<1> QED
  BY <1>6, Zenon DEF IsSum, f, g, a, b

LEMMA TransformsOfPass ==
  ASSUME KeyMade, CallMade, Sampled
  PROVE  TransformExact
<1> SUFFICES ASSUME Passed
             PROVE  LET p == call.pass
                        esk == key.esk
                    IN /\ \A r \in Rows : p.w[r] = RowTimes(esk.A_hat[r], p.y)
                       /\ \A s \in Columns :
                            IsSum(p.y[s], Convolution(p.c, esk.s1[s]), p.signature.z[s])
                       /\ \A r \in Rows : IsSum(p.w_cs2[r], Convolution(p.c, esk.s2[r]), p.w[r])
                       /\ \A r \in Rows : p.ct0[r] = Convolution(p.c, esk.t0[r])
  BY Zenon DEF TransformExact
<1> DEFINE p == call.pass
           esk == key.esk
           c == p.c
           A == esk.A_hat
           y == p.y
           g == ntt(c)
<1>1. key # NoKey
  BY DEF Passed, CallMade
<1>2. PICK seed, kappa : PassOf(esk, call.mu, seed, kappa, p)
  BY Zenon DEF Passed, CallMade
<1>3. KeyShape(esk) /\ c \in Polynomial
  BY <1>1, KeyTyped, Zenon DEF Sampled
<1> HIDE DEF p, esk
<1>4. y \in [Columns -> Polynomial] /\ p.w \in [Rows -> Polynomial]
  BY <1>2, <1>3, PassTyped, Zenon
<1>5. /\ A \in Matrix /\ esk.s1 \in [Columns -> Polynomial]
      /\ esk.s2 \in [Rows -> Polynomial] /\ esk.t0 \in [Rows -> Polynomial]
      /\ esk.s1_hat = ntt_vec(esk.s1) /\ esk.s2_hat = ntt_vec(esk.s2) /\ esk.t0_hat = ntt_vec(esk.t0)
  BY <1>3, Zenon DEF KeyShape, VecWithin
<1>6. /\ esk.s1 \in Vector(Columns) /\ esk.s2 \in Vector(Rows) /\ esk.t0 \in Vector(Rows)
      /\ y \in Vector(Columns) /\ p.w \in Vector(Rows)
  BY <1>4, <1>5 DEF Vector
<1>7. /\ p.w = Product(A, ntt_vec(y)) /\ p.w_cs2 = VecSub(p.w, times(g, esk.s2_hat))
      /\ p.ct0 = times(g, esk.t0_hat) /\ p.signature.z = VecModPlusMinus(Q, VecAdd(y, times(g, esk.s1_hat)))
  BY <1>2, Zenon DEF PassOf
<1>8. g \in Polynomial /\ 1 \in Elem
  BY <1>3, NttTyped, Field DEF Elem
<1> HIDE DEF A, y, c
<1>9. ASSUME NEW r \in Rows
      PROVE  p.w[r] = RowTimes(A[r], y)
  <2> DEFINE u == ntt_vec(y)
             m == NttMatVec(A, u)
  <2>1. u \in [Columns -> Polynomial]
    BY <1>4, <1>8, VectorOps
  <2> HIDE DEF u
  <2>2. m = [k \in Rows |-> NttDot(A[k], u)] /\ m \in [Rows -> Polynomial]
    BY <1>5, <2>1, ProductTyped
  <2>3. m[r] = NttDot(A[r], u)
    BY <2>2
  <2> HIDE DEF m
  <2>4. ntt_inverse_vec(m) = [k \in Rows |-> ntt_inverse(m[k])]
    BY <1>8, <2>2, VectorOps
  <2>5. ntt_inverse_vec(m)[r] = ntt_inverse(m[r])
    BY <2>4
  <2>6. p.w = ntt_inverse_vec(m)
    BY <1>7, Zenon DEF Product, m, u
  <2>7. A[r] \in [Columns -> Polynomial]
    BY <1>5 DEF Matrix
  <2>8. ntt_inverse(NttDot(A[r], u)) = RowTimes(A[r], y)
    BY <1>4, <2>7, DotIsRowTimes DEF u
  <2> QED
    BY <2>3, <2>5, <2>6, <2>8, Zenon
<1>10. \A S : \A v \in [S -> Polynomial] : times(g, ntt_vec(v)) \in [S -> Polynomial]
  <2> SUFFICES ASSUME NEW S, NEW v \in [S -> Polynomial]
               PROVE  times(g, ntt_vec(v)) \in [S -> Polynomial]
    OBVIOUS
  <2>1. ntt_vec(v) \in [S -> Polynomial]
    BY <1>8, VectorOps
  <2> QED
    BY <1>8, <2>1, TimesTyped
<1>11. ASSUME NEW s \in Columns
       PROVE  IsSum(y[s], Convolution(c, esk.s1[s]), p.signature.z[s])
  <2> DEFINE v == times(g, ntt_vec(esk.s1))
             z == VecAdd(y, v)
  <2>1. v \in [Columns -> Polynomial]
    BY <1>5, <1>10
  <2>2. v[s] = Convolution(c, esk.s1[s])
    BY <1>3, <1>6, TimesIs
  <2> HIDE DEF v
  <2>3. z \in [Columns -> Polynomial]
    BY <1>4, <1>8, <2>1, VectorOps
  <2>4. VecModPlusMinus(Q, z) = z
    BY <2>3, CenteredVector
  <2>5. IsSum(y[s], v[s], z[s])
    BY <1>6, <2>1, SumsAre, Zenon DEF Vector
  <2>6. p.signature.z = z
    BY <1>5, <1>7, <2>4, Zenon DEF v
  <2> QED
    BY <2>2, <2>5, <2>6, Zenon
<1>12. ASSUME NEW r \in Rows
       PROVE  /\ IsSum(p.w_cs2[r], Convolution(c, esk.s2[r]), p.w[r])
              /\ p.ct0[r] = Convolution(c, esk.t0[r])
  <2> DEFINE v == times(g, ntt_vec(esk.s2))
  <2>1. v \in [Rows -> Polynomial]
    BY <1>5, <1>10
  <2>2. v[r] = Convolution(c, esk.s2[r])
    BY <1>3, <1>6, TimesIs
  <2>3. times(g, ntt_vec(esk.t0))[r] = Convolution(c, esk.t0[r])
    BY <1>3, <1>6, TimesIs
  <2>4. p.w_cs2 = VecSub(p.w, v) /\ p.ct0 = times(g, ntt_vec(esk.t0))
    BY <1>5, <1>7, Zenon
  <2> HIDE DEF v
  <2>5. IsSum(VecSub(p.w, v)[r], v[r], p.w[r])
    BY <1>6, <2>1, SumsAre, Zenon DEF Vector
  <2> QED
    BY <2>2, <2>3, <2>4, <2>5, Zenon
<1> QED
  BY <1>9, <1>11, <1>12, Zenon DEF p, esk, A, y, c

-----------------------------------------------------------------------------
LEMMA RoundingOfPass ==
  ASSUME KeyMade, CallMade, Sampled
  PROVE  RoundingExact
<1> SUFFICES ASSUME Passed PROVE RoundingExact
  BY DEF RoundingExact, DivisionExact, HintRecovers
<1> DEFINE p == call.pass
<1>1. /\ p.w \in [Rows -> Polynomial] /\ p.w_cs2 \in [Rows -> Polynomial]
      /\ p.ct0 \in [Rows -> Polynomial]
  BY PassResidues DEF Residues
<1>2. p.signature.h = HintNew(VecNeg(p.ct0), VecAdd(p.w_cs2, p.ct0))
  BY Zenon DEF Passed, CallMade, PassOf
<1> HIDE DEF p
<1>3. ASSUME NEW r \in Rows, NEW i \in Coeff
      PROVE  /\ DecomposedExactly(p.w[r][i], high_bits(p.w[r][i]), signed(low_bits(p.w[r][i])))
             /\ SplitExactly(p.w[r][i], power2round(p.w[r][i])[1],
                             signed(power2round(p.w[r][i])[2]))
  <2>1. p.w[r][i] \in Elem
    BY <1>1, VectorCell
  <2> QED
    BY <2>1, DecomposeExact, Power2RoundExact
<1>4. DivisionExact
  BY <1>3, Zenon DEF DivisionExact, p
<1>5. ASSUME NEW r \in Rows, NEW i \in Coeff, infinity_norm(p.ct0[r][i]) < Gamma2
      PROVE  use_hint(p.signature.h[r][i], ElemAdd(p.w_cs2[r][i], p.ct0[r][i]))
               = high_bits(p.w_cs2[r][i])
  <2>1. p.ct0[r][i] \in Elem /\ p.w_cs2[r][i] \in Elem
    BY <1>1, VectorCell
  <2>2. p.signature.h[r][i]
          = make_hint(ElemNeg(p.ct0[r][i]), ElemAdd(p.w_cs2[r][i], p.ct0[r][i]))
    BY <1>1, <1>2, HintCell
  <2> QED
    BY <1>5, <2>1, <2>2, HintMakesUp
<1>6. HintRecovers
  BY <1>5, Zenon DEF HintRecovers, p
<1> QED
  BY <1>4, <1>6 DEF RoundingExact

(* For every field, root and size of transform, and whatever the challenge:   *)
(* the arithmetic that goes by ntt and back is that of polynomials modulo     *)
(* X^N + 1, so a pass commits to the high bits of A y, answers y + c s1, and  *)
(* rounds w - c s2 with a hint for c t0 (ntt.rs, algebra.rs, signing.rs).     *)
THEOREM TransformsAreExact == Spec => [](Sampled => TransformExact)
<1>1. KeyMade /\ CallMade => (Sampled => TransformExact)
  BY TransformsOfPass
<1> QED
  BY <1>1, KeyInvariant, CallInvariant, PTL

(* Whatever the samplers find enough candidates for, for every field, every   *)
(* rounding range and every number of dropped bits that divide q - 1:         *)
(* decompose and power2round, which multiply by a precomputed reciprocal      *)
(* where the standard divides, are exact, and the hint turns the high bits of *)
(* what the verifier can compute into those of w - c s2 (algebra.rs, hint.rs).*)
THEOREM RoundingIsExact == Spec => [](Sampled => RoundingExact)
<1>1. KeyMade /\ CallMade => (Sampled => RoundingExact)
  BY RoundingOfPass
<1> QED
  BY <1>1, KeyInvariant, CallInvariant, PTL

(* No assertion of the packing can fail, by whatever route the key came: what *)
(* a seed expands to fits its encoding, a released z lies in its range and    *)
(* its hint in the Omega indices, no bytes that arrive trip the decoder, and  *)
(* all that the roundings are handed, transforms and dot products included,   *)
(* are residues (signing.rs, encode.rs, ntt.rs, algebra.rs).                  *)
THEOREM AssertionsKept == Spec => [](Sampled => AssertionsHold)
<1>1. KeyMade /\ CallMade => (Sampled => AssertionsHold)
  BY Assertions
<1> QED
  BY <1>1, KeyInvariant, CallInvariant, PTL

(* However a key came, and however it goes out and comes back, it is one key: *)
(* the verifying key is what its bytes and its document give back, hash       *)
(* included; the expanded key is what its packed bytes decode to, though      *)
(* values straddle bytes, and the transforms and the matrix are derived       *)
(* again; the document of a seed gives back both (signing.rs, verifying.rs,   *)
(* pkcs8.rs, encode.rs, encoding.rs).                                         *)
THEOREM KeyIsOneKey == Spec => [](Sampled => KeyRoutesAgree)
<1>1. KeyMade => (Sampled => KeyRoutesAgree)
  BY KeyRoutes
<1> QED
  BY <1>1, KeyInvariant, PTL
-----------------------------------------------------------------------------
LEMMA ReleasedHint ==
  ASSUME CallMade, Released
  PROVE  HintBytes(split_sig(Sent)[3])
<1> DEFINE sigma == call.pass.signature
           y == bit_pack(sigma.h)
<1>1. call.pass # NoPass
  <2>1. NoPass.accepted = FALSE
    BY DEF NoPass
  <2> QED
    BY <2>1, Zenon DEF Released
<1>2. IsArray(Lambda, sigma.c_tilde)
  <2>1. /\ sigma.c_tilde = call.pass.c_tilde
        /\ \E ctx : call.pass.c_tilde = squeeze_new(ctx, Lambda)
    BY <1>1, Zenon DEF CallMade, PassOf, Released
  <2> HIDE DEF sigma
  <2>2. \A ctx : IsArray(Lambda, squeeze_new(ctx, Lambda))
    BY ArrayIs DEF squeeze_new, squeeze, IsArray
  <2> QED
    BY <2>1, <2>2, Zenon
<1>3. Sent = concat_sig(sigma.c_tilde, encode_z(sigma.z), y)
  BY DEF Sent, sig_encode
<1> HIDE DEF sigma
<1>4. HintBytes(y) /\ y \in Seq(Nat) /\ Len(y) = HintSize
  <2>1. PICK f \in [0 .. K -> Seq(Coeff)] : y = packed(f)
    BY BitPackIs, Zenon
  <2> HIDE DEF y
  <2> QED
    BY <2>1, PackedBytes
<1>5. ZSize \in Nat /\ IsArray(ZSize, encode_z(sigma.z))
  <2>1. ZSize \in Nat
    <3> DEFINE size == EncodedPolynomialSize(RangeEncodingBits(Gamma1 - 1, Gamma1))
    <3>1. size \in Nat /\ L \in Nat
      BY EncodedSize, ParameterSet
    <3>2. ZSize = L * size
      BY DEF ZSize
    <3> HIDE DEF size
    <3> QED
      BY <3>1, <3>2
  <2> QED
    BY <2>1, MaskBytes
<1> HIDE DEF y
<1>6. split_sig(Sent)[3] = y
  BY <1>2, <1>3, <1>4, <1>5, HintOfSent
<1> QED
  BY <1>4, <1>6

LEMMA ReleasedCanonical ==
  ASSUME CallMade
  PROVE  HintCanonical
<1> SUFFICES ASSUME Released PROVE HintCanonical
  BY DEF HintCanonical
<1> DEFINE y == split_sig(Sent)[3]
           Values(n) == IF n <= Omega THEN 0 .. N - 1 ELSE 0 .. Omega + 1
<1>1. HintBytes(y)
  BY ReleasedHint
<1> HIDE DEF y
<1>2. ASSUME NEW m \in 1 .. HintSize, NEW n \in 1 .. HintSize,
             NEW a \in Values(m), NEW b \in Values(n)
      PROVE  HintBytes([y EXCEPT ![m] = a, ![n] = b])
  <2> DEFINE x == [y EXCEPT ![m] = a, ![n] = b]
  <2>1. y = [i \in 1 .. HintSize |-> y[i]]
    BY <1>1 DEF HintBytes
  <2>2. x = [i \in 1 .. HintSize |-> IF i = n THEN b ELSE IF i = m THEN a ELSE y[i]]
    BY <2>1
  <2>3. a \in Nat /\ b \in Nat /\ (m <= Omega => a \in Coeff) /\ (n <= Omega => b \in Coeff)
    BY Sizes DEF Coeff
  <2> HIDE DEF x
  <2>4. ASSUME NEW i \in 1 .. HintSize
        PROVE  x[i] \in Nat
    BY <1>1, <2>2, <2>3 DEF HintBytes
  <2>5. ASSUME NEW i \in 1 .. Omega
        PROVE  x[i] \in Coeff
    <3>1. i \in 1 .. HintSize /\ i <= Omega
      BY Sizes
    <3> QED
      BY <1>1, <2>2, <2>3, <3>1 DEF HintBytes
  <2>6. x = [i \in 1 .. HintSize |-> x[i]]
    BY <2>2
  <2>7. HintBytes(x)
    BY <2>4, <2>5, <2>6 DEF HintBytes
  <2> QED
    BY <2>7 DEF x
<1>3. ASSUME NEW m \in 1 .. HintSize, NEW n \in 1 .. HintSize,
             NEW a \in Values(m), NEW b \in Values(n)
      PROVE  CanonicalOr([y EXCEPT ![m] = a, ![n] = b],
                         bit_unpack([y EXCEPT ![m] = a, ![n] = b]))
  BY <1>2, OneEncoding
<1> QED
  BY <1>3, Zenon DEF HintCanonical, y

(* For every parameter set, whatever two bytes of a released hint become, the *)
(* decoder takes it exactly when the C reference does, and packing what it    *)
(* took gives back those bytes: no signature can be altered in its hint and   *)
(* still stand for the same hint (hint.rs bit_unpack, hint_canonical.c).      *)
THEOREM HintHasOneEncoding == Spec => []HintCanonical
<1>1. CallMade => HintCanonical
  BY ReleasedCanonical
<1> QED
  BY <1>1, CallInvariant, PTL

(* For every parameter set and every sponge of bytes, wherever the samplers   *)
(* find enough: the matrix and the secrets of a key are the first candidates  *)
(* of their streams, buffer or not, in their ranges, and the challenge has    *)
(* exactly TAU coefficients, of size one, whatever the shuffle swapped        *)
(* (sampling.rs rej_ntt_poly, rej_bounded_poly, sample_in_ball).              *)
THEOREM SamplersAreExact ==
  ASSUME Squeezed
  PROVE  Spec => [](Found => SamplersExact)
<1>1. KeyMade /\ CallMade => (Found => SamplersExact)
  BY SamplersOfState
<1> QED
  BY <1>1, KeyInvariant, CallInvariant, PTL
=============================================================================
