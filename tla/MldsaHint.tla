------------------------------ MODULE MldsaHint ------------------------------
(***************************************************************************)
(* hint.rs of ml-dsa-0.1.1, and the reference cve-anchor/ref/hint_canonical *)
(* of which hint encodings are canonical.  A hint says of each coefficient  *)
(* of a K-vector whether it is set.                                         *)
(***************************************************************************)
EXTENDS MldsaParam

NoHint == << >>

make_hint(z, r) == high_bits(r) # high_bits(ElemAdd(r, z))

(* One up when the low part is positive, one down otherwise. *)
adjust(r1, r0, m) == IF r0 # 0 /\ r0 <= Gamma2 THEN r1 + 1 ELSE r1 + m - 1

with_hint(h, r, m) == IF h THEN adjust(r[1], r[2], m) % m ELSE r[1]
use_hint(h, r) == with_hint(h, decompose(r), (Q - 1) \div TwoGamma2)

HintNew(z, r) ==
  Array([k \in Rows |-> Array([i \in Coeff |-> make_hint(z[k][i], r[k][i])])])
HintUse(h, r) ==
  Array([k \in Rows |-> Array([i \in Coeff |-> use_hint(h[k][i], r[k][i])])])

hamming_weight(h) == Cardinality({c \in Rows \X Coeff : h[c[1]][c[2]]})
-----------------------------------------------------------------------------
(* The indices of the ones of a row. *)
ones(row) ==
  LET before[j \in 0 .. N] ==
        IF j = 0 THEN << >>
        ELSE IF row[j - 1] THEN Append(before[j - 1], j - 1) ELSE before[j - 1]
  IN before[N]

(* The indices of the ones row by row, zeros up to Omega, and after each row  *)
(* the number of indices so far.  A hint of more ones overruns its indices.   *)
bit_pack(h) ==
  LET upto[k \in 0 .. K] == IF k = 0 THEN << >> ELSE upto[k - 1] \o ones(h[k - 1])
      padded == upto[K] \o [n \in 1 .. Omega |-> 0]
  IN SubSeq(padded, 1, Omega) \o [k \in 1 .. K |-> Len(upto[k])]

ascending(s) == \A n \in 1 .. Len(s) - 1 : s[n] < s[n + 1]

MaxCut(cuts) == largest({cuts[k] : k \in 1 .. K})

(* A broken check, which does not look at the padding. *)
well_cut_padded(indices, cuts, max_cut) ==
  /\ \A k \in 1 .. K - 1 : cuts[k] <= cuts[k + 1]
  /\ max_cut <= Omega

well_cut(indices, cuts, max_cut) ==
  /\ \A k \in 1 .. K - 1 : cuts[k] <= cuts[k + 1]
  /\ max_cut <= Omega
  /\ \A n \in max_cut + 1 .. Omega : indices[n] = 0

hint_of_rows(row) ==
  IF \A k \in Rows : ascending(row[k])
  THEN Array([k \in Rows |-> Array([j \in Coeff |-> \E n \in DOMAIN row[k] : row[k][n] = j])])
  ELSE NoHint

unpack_hint(indices, cuts) ==
  IF well_cut(indices, cuts, MaxCut(cuts))
  THEN hint_of_rows([k \in Rows |->
         SubSeq(indices, 1 + (IF k = 0 THEN 0 ELSE cuts[k]), cuts[k + 1])])
  ELSE NoHint

bit_unpack(y) == unpack_hint(split_hint(y)[1], split_hint(y)[2])
-----------------------------------------------------------------------------
(* hint_canonical.c: scans of the whole index area, with the cuts but the     *)
(* last as the starts of blocks.  The lax reading admits a repeated index.    *)
hint_accepts(y, strict) ==
  LET cut(k) == y[Omega + 1 + k]
      mc == MaxCut(split_hint(y)[2])
      block_start(ix) == \E k \in 0 .. K - 2 : ix = cut(k)
  IN /\ \A k \in 0 .. K - 2 : cut(k) <= cut(k + 1)
     /\ mc <= Omega
     /\ \A ix \in 0 .. Omega - 1 : ix >= mc => y[ix + 1] = 0
     /\ \A ix \in 1 .. Omega - 1 :
          ix < mc /\ ~block_start(ix) =>
            IF strict THEN y[ix] < y[ix + 1] ELSE y[ix] <= y[ix + 1]

qseal_hint_canonical(y) == hint_accepts(y, TRUE)
qseal_hint_canonical_lax(y) == hint_accepts(y, FALSE)
=============================================================================
