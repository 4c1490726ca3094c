-------------------------- MODULE LatticeEncoding --------------------------
(***************************************************************************)
(* encoding.rs of module-lattice-0.2.3 and encode.rs of ml-dsa-0.1.1:       *)
(* polynomials and vectors as packed bytes.  A byte array is a sequence of  *)
(* 0 .. 255; packing is bit by bit, low bits first.                         *)
(***************************************************************************)
EXTENDS LatticeAlgebra, Sequences

Byte == 0 .. 255

(* The numbers of values and of bytes of the smallest whole unit of d-bit     *)
(* values: byte_encode and byte_decode work unit by unit.                     *)
Gcd8(d) == CHOOSE g \in {1, 2, 4, 8} : d % g = 0 /\ (g = 8 \/ d % (2 * g) # 0)
ValueStep(d) == 8 \div Gcd8(d)
ByteStep(d) == d \div Gcd8(d)
EncodedPolynomialSize(d) == (N * d) \div 8

bit(x, p) == (x \div 2^p) % 2

(* The number whose n low bits are those p with on(p). *)
FromBits(n, on(_)) ==
  LET sum[p \in 0 .. n] ==
        IF p = 0 THEN 0 ELSE sum[p - 1] + (IF on(p - 1) THEN 2^(p - 1) ELSE 0)
  IN sum[n]

(* A value's bits past the d-th would be or-ed into the next value's. *)
byte_encode(d, vals) ==
  LET unit(n) == (n - 1) \div ByteStep(d)
      first(n) == 8 * ((n - 1) % ByteStep(d))
      on(n, p) == \E j \in 0 .. p \div d :
                    p - d * j <= ilog2(Q) /\ bit(vals[unit(n) * ValueStep(d) + j], p - d * j) = 1
  IN Array([n \in 1 .. EncodedPolynomialSize(d) |->
              FromBits(8, LAMBDA p : on(n, first(n) + p))])

byte_decode(d, bytes) ==
  LET start(j) == d * (j % ValueStep(d))
      unit(j) == (j \div ValueStep(d)) * ByteStep(d)
      val(j) == FromBits(d, LAMBDA p :
                  bit(bytes[1 + unit(j) + (start(j) + p) \div 8], (start(j) + p) % 8) = 1)
  IN Array([j \in Coeff |-> IF d = 12 THEN small_reduce(val(j)) ELSE val(j)])
-----------------------------------------------------------------------------
(* Equal arrays one after the other, and apart again. *)
flatten(k, arrays) ==
  LET size == Len(arrays[0])
  IN Array([n \in 1 .. k * size |-> arrays[(n - 1) \div size][1 + ((n - 1) % size)]])

unflatten(k, bytes) ==
  LET size == Len(bytes) \div k
  IN Array([r \in 0 .. k - 1 |-> SubSeq(bytes, r * size + 1, (r + 1) * size)])

encode_vec(k, d, v) == flatten(k, Array([r \in 0 .. k - 1 |-> byte_encode(d, v[r])]))
decode_vec(k, d, bytes) ==
  LET polys == unflatten(k, bytes)
  IN Array([r \in 0 .. k - 1 |-> byte_decode(d, polys[r])])
-----------------------------------------------------------------------------
(* Coefficients in -a .. b, encoded as their distance from b. *)
RangeEncodingBits(a, b) == ilog2(a + b) + 1

(* The assertions of pack and unpack. *)
packable(a, b, f) == \A i \in Coeff : f[i] <= b \/ f[i] >= ElemNeg(a)
unpackable(a, b, bytes) ==
  LET z == byte_decode(RangeEncodingBits(a, b), bytes)
  IN \A i \in Coeff : z[i] <= ElemAdd(a, b)

pack(a, b, f) ==
  byte_encode(RangeEncodingBits(a, b), [i \in Coeff |-> ElemSub(b, f[i])])
unpack(a, b, bytes) ==
  LET z == byte_decode(RangeEncodingBits(a, b), bytes)
  IN Array([i \in Coeff |-> ElemSub(b, z[i])])

packable_vec(k, a, b, v) == \A r \in 0 .. k - 1 : packable(a, b, v[r])
unpackable_vec(k, a, b, bytes) ==
  LET polys == unflatten(k, bytes) IN \A r \in 0 .. k - 1 : unpackable(a, b, polys[r])

pack_vec(k, a, b, v) == flatten(k, Array([r \in 0 .. k - 1 |-> pack(a, b, v[r])]))
unpack_vec(k, a, b, bytes) ==
  LET polys == unflatten(k, bytes)
  IN Array([r \in 0 .. k - 1 |-> unpack(a, b, polys[r])])
=============================================================================
