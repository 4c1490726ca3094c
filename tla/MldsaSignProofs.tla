-------------------------- MODULE MldsaSignProofs --------------------------
(***************************************************************************)
(* Signing and opening of ML-DSA-44, for any signers, keys, messages and    *)
(* contexts, and any outcome of any pass.                                   *)
(***************************************************************************)
EXTENDS MldsaSign, SequenceTheorems, WellFoundedInduction, TLAPS

(* The least element of a set of naturals, for inductions.                    *)
LEMMA LeastElement ==
  ASSUME NEW T, T \subseteq Nat, T # {}
  PROVE  \E x \in T : \A y \in T : x <= y
<1> DEFINE R == OpToRel(<, Nat)
<1>1. \A p, q \in Nat : p < q => << p, q >> \in R
  BY DEF OpToRel
<1> HIDE DEF R
<1>2. PICK x \in T : \A y \in T : << y, x >> \notin R
  BY NatLessThanWellFounded, WFMin DEF R
<1>3. ASSUME NEW y \in T
      PROVE  x <= y
  <2>1. x \in Nat /\ y \in Nat /\ ~(y < x)
    BY <1>1, <1>2
  <2> QED
    BY <2>1
<1> QED
  BY <1>3

(* The remainder of a number below the divisor, and of any number.            *)
LEMMA SmallMod ==
  ASSUME NEW a \in Nat, NEW b \in Nat, a < b
  PROVE  a % b = a
OBVIOUS

LEMMA DivMod ==
  ASSUME NEW a \in Nat, NEW b \in Nat \ {0}
  PROVE  a = b * (a \div b) + (a % b) /\ a % b \in 0 .. b - 1 /\ a \div b \in Nat
OBVIOUS

LEMMA ModUnique ==
  ASSUME NEW q \in Nat, NEW b \in Nat \ {0}, NEW r \in 0 .. b - 1
  PROVE  (b * q + r) % b = r
OBVIOUS

-----------------------------------------------------------------------------
(* What a request asks for, whether it is under way or was released.          *)
sk_of(c) == crypto_sign_keypair(c.seed).sk
mu_of(c) == message_hash(sk_of(c).tr, c.m, c.ctx)
rhoprime_of(c) == rhoprime(sk_of(c), c.rnd, mu_of(c))

Requested(c) == c.seed \in Seeds /\ c.m \in Messages /\ c.ctx \in Contexts /\ c.rnd \in Rnd

Accepted(y) == y \in DOMAIN fate /\ fate[y] = "accept"
RejectedBefore(c, n) ==
  \A j \in 0 .. n - 1 : LET y == mask(rhoprime_of(c), j)
                        IN y \in DOMAIN fate /\ rejected(fate[y])

(* The one signature that a mask can end in.                                  *)
signature(y) ==
  LET c == challenge(y.seed.mu, pack_w1(y))
      sk == crypto_sign_keypair(y.seed.key.k).sk
  IN << c, response(y, c, sk, "accept"), make_hint(y, c, "accept") >>

signed(y, m) ==
  [i \in 1 .. CRYPTO_BYTES + Len(m) |->
     IF i <= CRYPTO_BYTES THEN signature(y)[i] ELSE m[i - CRYPTO_BYTES]]
-----------------------------------------------------------------------------
(* A call under way is a request, its message is behind the signature, and    *)
(* every mask it has left behind was rejected.                                *)
CallFields == {"pc", "seed", "m", "ctx", "rnd", "nonce", "sm", "smlen"}

CallOf(c) ==
  /\ DOMAIN c = CallFields
  /\ c.pc \in {"signing", "failed", "done"}
  /\ c.nonce \in 0 .. NONCE - 1
  /\ Requested(c)
  /\ c.pc # "failed" => Len(c.ctx) <= UINT8 - 1

MessageBehind(c) ==
  /\ c.sm = [i \in 1 .. CRYPTO_BYTES + Len(c.m) |-> c.sm[i]]
  /\ \A i \in 1 .. Len(c.m) : c.sm[CRYPTO_BYTES + i] = c.m[i]

(* No cell of a buffer is a response but of an accepted pass.                 *)
CellsSecret(sm) == \A i \in DOMAIN sm : IsCell(sm[i], "z") => Accepted(sm[i].y)

CallInv(c) ==
  /\ CallOf(c)
  /\ MessageBehind(c)
  /\ RejectedBefore(c, c.nonce)
  /\ CellsSecret(c.sm)

Calls ==
  /\ call = [p \in Signers |-> call[p]]
  /\ \A p \in Begun : CallInv(call[p])

FatesExplored == \A y \in DOMAIN fate : fate[y] \in Fates

(* What left a signer is the signature of the first mask that was accepted.   *)
ReleasedOf(r) ==
  /\ Requested(r)
  /\ Len(r.ctx) <= UINT8 - 1
  /\ r.pk = crypto_sign_keypair(r.seed).pk
  /\ \E n \in 0 .. NONCE - 1 : r.y = mask(rhoprime_of(r), n) /\ RejectedBefore(r, n)
  /\ Accepted(r.y)
  /\ r.sm = signed(r.y, r.m)

Releases == \A r \in released : ReleasedOf(r)

(* The cells of a signature that is presented left signers in the same place. *)
Heads(sm) ==
  \A i \in 1 .. CRYPTO_BYTES : i <= Len(sm) => \E r \in released : sm[i] = r.sm[i]

IsSequence(s) == Len(s) \in Nat /\ s = [i \in 1 .. Len(s) |-> s[i]]

Opened ==
  last.api = "open" =>
    /\ IsSequence(last.sm) /\ Heads(last.sm)
    /\ last.ctx \in Contexts /\ last.pk \in Pks
    /\ \E inplace \in BOOLEAN :
         LET r == crypto_sign_open_ctx(last.sm, last.ctx, last.pk, inplace)
         IN last.ok = r.ok /\ last.m = r.m /\ last.mlen = r.mlen

Verified ==
  last.api = "verify" =>
    /\ last.ctx \in Contexts /\ last.pk \in Pks
    /\ \E sig : \E m \in Messages :
         /\ IsSequence(sig) /\ Heads(sig) /\ Len(sig) = last.siglen
         /\ last.sm = sig \o m
         /\ last.ok = crypto_sign_verify_ctx(sig, last.siglen, m, last.ctx, last.pk)

IInv == Calls /\ FatesExplored /\ Releases /\ Opened /\ Verified

-----------------------------------------------------------------------------
(* Moving cells.  The buffers of the moves one after another are the only     *)
(* ones with their recurrence.                                                *)
Moves(f, buf, src, dst, order) ==
  f = [i \in 0 .. Len(order) |->
         IF i = 0 THEN buf
         ELSE [f[i - 1] EXCEPT ![dst + order[i]] = f[i - 1][src + order[i]]]]

LEMMA MovesUnique ==
  ASSUME NEW f, NEW g, NEW buf, NEW src, NEW dst, NEW order, Len(order) \in Nat,
         Moves(f, buf, src, dst, order), Moves(g, buf, src, dst, order)
  PROVE  f = g
<1> DEFINE n == Len(order)
           Differ == {i \in 0 .. n : f[i] # g[i]}
<1>1. SUFFICES ASSUME Differ # {} PROVE FALSE
  BY DEF Moves
<1>2. Differ \subseteq Nat
  OBVIOUS
<1>3. PICK i \in Differ : \A j \in Differ : i <= j
  BY <1>1, <1>2, LeastElement
<1>4. CASE i = 0
  BY <1>4 DEF Moves
<1>5. CASE i # 0
  <2>1. i - 1 \in 0 .. n /\ i \in 0 .. n
    BY <1>5
  <2>2. f[i - 1] = g[i - 1]
    BY <1>3, <2>1
  <2>3. /\ f[i] = [f[i - 1] EXCEPT ![dst + order[i]] = f[i - 1][src + order[i]]]
        /\ g[i] = [g[i - 1] EXCEPT ![dst + order[i]] = g[i - 1][src + order[i]]]
    BY <1>5, <2>1 DEF Moves
  <2> QED
    BY <2>2, <2>3
<1> QED
  BY <1>4, <1>5

LEMMA MoveCellsIs ==
  ASSUME NEW f, NEW buf, NEW src, NEW dst, NEW order, Len(order) \in Nat,
         Moves(f, buf, src, dst, order)
  PROVE  MoveCells(buf, src, dst, order) = f[Len(order)]
<1> DEFINE after[i \in 0 .. Len(order)] ==
             IF i = 0 THEN buf
             ELSE [after[i - 1] EXCEPT ![dst + order[i]] = after[i - 1][src + order[i]]]
<1>1. after = CHOOSE g : Moves(g, buf, src, dst, order)
  BY DEF Moves
<1>2. Moves(after, buf, src, dst, order)
  BY <1>1
<1>3. after = f
  BY <1>2, MovesUnique
<1> QED
  BY <1>3 DEF MoveCells

(* The copies of crypto_sign_ctx and crypto_sign_open_ctx read each cell of   *)
(* their one buffer before they overwrite it.                                 *)
up(n, buf, i) ==
  [j \in 1 .. n + 3 |-> IF j > 3 + n - i THEN buf[j - 3] ELSE buf[j]]

LEMMA OneMoveUp ==
  ASSUME NEW n \in Nat, NEW i \in 1 .. n, NEW buf
  PROVE  [up(n, buf, i - 1) EXCEPT ![3 + (n + 1 - i)] = up(n, buf, i - 1)[0 + (n + 1 - i)]]
           = up(n, buf, i)
<1> DEFINE a == up(n, buf, i - 1)
<1>0. a = [j \in 1 .. n + 3 |-> IF j > 3 + n - (i - 1) THEN buf[j - 3] ELSE buf[j]]
  BY DEF up
<1> HIDE DEF a
<1>1. 3 + (n + 1 - i) \in 1 .. n + 3 /\ 0 + (n + 1 - i) \in 1 .. n + 3
  OBVIOUS
<1>2. a[0 + (n + 1 - i)] = buf[0 + (n + 1 - i)]
  BY <1>0, <1>1
<1> DEFINE b == [a EXCEPT ![3 + (n + 1 - i)] = a[0 + (n + 1 - i)]]
<1>3. b = [j \in 1 .. n + 3 |-> IF j = 3 + (n + 1 - i) THEN buf[0 + (n + 1 - i)] ELSE a[j]]
  BY <1>0, <1>1, <1>2
<1> HIDE DEF b
<1>4. ASSUME NEW j \in 1 .. n + 3
      PROVE  b[j] = IF j > 3 + n - i THEN buf[j - 3] ELSE buf[j]
  <2>1. CASE j = 3 + (n + 1 - i)
    <3>1. b[j] = buf[0 + (n + 1 - i)]
      BY <1>3, <2>1
    <3>2. (j > 3 + n - i) /\ buf[j - 3] = buf[0 + (n + 1 - i)]
      BY <2>1
    <3> QED
      BY <3>1, <3>2
  <2>2. CASE j # 3 + (n + 1 - i)
    <3>1. b[j] = a[j]
      BY <1>3, <2>2
    <3>2. (j > 3 + n - i) <=> (j > 3 + n - (i - 1))
      BY <2>2
    <3> QED
      BY <1>0, <3>1, <3>2
  <2> QED
    BY <2>1, <2>2
<1>5. b = up(n, buf, i)
  BY <1>3, <1>4 DEF up
<1> QED
  BY <1>5 DEF a, b

LEMMA MovedUp ==
  ASSUME NEW n \in Nat, NEW buf, buf = [j \in 1 .. n + 3 |-> buf[j]]
  PROVE  MoveCells(buf, 0, 3, Downward(n))
           = [j \in 1 .. n + 3 |-> IF j > 3 THEN buf[j - 3] ELSE buf[j]]
<1> DEFINE order == Downward(n)
           after(i) == up(n, buf, i)
           f == [i \in 0 .. n |-> after(i)]
<1>1. Len(order) = n /\ \A i \in 1 .. n : order[i] = n + 1 - i
  BY DEF Downward
<1>2. after(0) = buf
  BY DEF up
<1>3. ASSUME NEW i \in 1 .. n
      PROVE  after(i) = [after(i - 1) EXCEPT ![3 + order[i]] = after(i - 1)[0 + order[i]]]
  <2>1. [after(i - 1) EXCEPT ![3 + (n + 1 - i)] = after(i - 1)[0 + (n + 1 - i)]] = after(i)
    BY OneMoveUp, Zenon
  <2>2. order[i] = n + 1 - i
    BY <1>1
  <2> HIDE DEF order, after
  <2> QED
    BY <2>1, <2>2
<1>4. after(n) = [j \in 1 .. n + 3 |-> IF j > 3 THEN buf[j - 3] ELSE buf[j]]
  BY DEF up
<1> HIDE DEF order, after
<1>5. ASSUME NEW i \in 0 .. n
      PROVE  f[i] = IF i = 0 THEN buf
                    ELSE [f[i - 1] EXCEPT ![3 + order[i]] = f[i - 1][0 + order[i]]]
  <2>1. CASE i = 0
    BY <1>2, <2>1
  <2>2. CASE i # 0
    <3>1. i \in 1 .. n /\ i - 1 \in 0 .. n
      BY <2>2
    <3>2. f[i] = after(i) /\ f[i - 1] = after(i - 1)
      BY <3>1
    <3> HIDE DEF f
    <3> QED
      BY <1>3, <2>2, <3>1, <3>2
  <2> QED
    BY <2>1, <2>2
<1>6. f = [i \in 0 .. n |-> f[i]] /\ f[n] = after(n)
  OBVIOUS
<1> HIDE DEF f
<1>7. Moves(f, buf, 0, 3, order)
  BY <1>1, <1>5, <1>6, Zenon DEF Moves
<1>8. Len(order) \in Nat
  BY <1>1
<1>9. MoveCells(buf, 0, 3, order) = f[Len(order)]
  BY <1>7, <1>8, MoveCellsIs
<1> QED
  BY <1>1, <1>4, <1>6, <1>9 DEF order

down(n, buf, i) ==
  [j \in 1 .. n + 3 |-> IF j <= i THEN buf[j + 3] ELSE buf[j]]

LEMMA OneMoveDown ==
  ASSUME NEW n \in Nat, NEW i \in 1 .. n, NEW buf
  PROVE  [down(n, buf, i - 1) EXCEPT ![0 + (i)] = down(n, buf, i - 1)[3 + (i)]]
           = down(n, buf, i)
<1> DEFINE a == down(n, buf, i - 1)
<1>0. a = [j \in 1 .. n + 3 |-> IF j <= (i - 1) THEN buf[j + 3] ELSE buf[j]]
  BY DEF down
<1> HIDE DEF a
<1>1. 0 + (i) \in 1 .. n + 3 /\ 3 + (i) \in 1 .. n + 3
  OBVIOUS
<1>2. a[3 + (i)] = buf[3 + (i)]
  BY <1>0, <1>1
<1> DEFINE b == [a EXCEPT ![0 + (i)] = a[3 + (i)]]
<1>3. b = [j \in 1 .. n + 3 |-> IF j = 0 + (i) THEN buf[3 + (i)] ELSE a[j]]
  BY <1>0, <1>1, <1>2
<1> HIDE DEF b
<1>4. ASSUME NEW j \in 1 .. n + 3
      PROVE  b[j] = IF j <= i THEN buf[j + 3] ELSE buf[j]
  <2>1. CASE j = 0 + (i)
    <3>1. b[j] = buf[3 + (i)]
      BY <1>3, <2>1
    <3>2. (j <= i) /\ buf[j + 3] = buf[3 + (i)]
      BY <2>1
    <3> QED
      BY <3>1, <3>2
  <2>2. CASE j # 0 + (i)
    <3>1. b[j] = a[j]
      BY <1>3, <2>2
    <3>2. (j <= i) <=> (j <= (i - 1))
      BY <2>2
    <3> QED
      BY <1>0, <3>1, <3>2
  <2> QED
    BY <2>1, <2>2
<1>5. b = down(n, buf, i)
  BY <1>3, <1>4 DEF down
<1> QED
  BY <1>5 DEF a, b

LEMMA MovedDown ==
  ASSUME NEW n \in Nat, NEW buf, buf = [j \in 1 .. n + 3 |-> buf[j]]
  PROVE  MoveCells(buf, 3, 0, Upward(n))
           = [j \in 1 .. n + 3 |-> IF j <= n THEN buf[j + 3] ELSE buf[j]]
<1> DEFINE order == Upward(n)
           after(i) == down(n, buf, i)
           f == [i \in 0 .. n |-> after(i)]
<1>1. Len(order) = n /\ \A i \in 1 .. n : order[i] = i
  BY DEF Upward
<1>2. after(0) = buf
  BY DEF down
<1>3. ASSUME NEW i \in 1 .. n
      PROVE  after(i) = [after(i - 1) EXCEPT ![0 + order[i]] = after(i - 1)[3 + order[i]]]
  <2>1. [after(i - 1) EXCEPT ![0 + (i)] = after(i - 1)[3 + (i)]] = after(i)
    BY OneMoveDown, Zenon
  <2>2. order[i] = i
    BY <1>1
  <2> HIDE DEF order, after
  <2> QED
    BY <2>1, <2>2
<1>4. after(n) = [j \in 1 .. n + 3 |-> IF j <= n THEN buf[j + 3] ELSE buf[j]]
  BY DEF down
<1> HIDE DEF order, after
<1>5. ASSUME NEW i \in 0 .. n
      PROVE  f[i] = IF i = 0 THEN buf
                    ELSE [f[i - 1] EXCEPT ![0 + order[i]] = f[i - 1][3 + order[i]]]
  <2>1. CASE i = 0
    BY <1>2, <2>1
  <2>2. CASE i # 0
    <3>1. i \in 1 .. n /\ i - 1 \in 0 .. n
      BY <2>2
    <3>2. f[i] = after(i) /\ f[i - 1] = after(i - 1)
      BY <3>1
    <3> HIDE DEF f
    <3> QED
      BY <1>3, <2>2, <3>1, <3>2
  <2> QED
    BY <2>1, <2>2
<1>6. f = [i \in 0 .. n |-> f[i]] /\ f[n] = after(n)
  OBVIOUS
<1> HIDE DEF f
<1>7. Moves(f, buf, 3, 0, order)
  BY <1>1, <1>5, <1>6, Zenon DEF Moves
<1>8. Len(order) \in Nat
  BY <1>1
<1>9. MoveCells(buf, 3, 0, order) = f[Len(order)]
  BY <1>7, <1>8, MoveCellsIs
<1> QED
  BY <1>1, <1>4, <1>6, <1>9 DEF order

-----------------------------------------------------------------------------
(* Sequences as functions.                                                    *)
LEMMA AsSequence ==
  ASSUME NEW n \in Nat, NEW f, f = [i \in 1 .. n |-> f[i]]
  PROVE  f \in Seq({f[i] : i \in 1 .. n}) /\ Len(f) = n
<1> DEFINE S == {f[i] : i \in 1 .. n}
<1>1. f \in [1 .. n -> S]
  OBVIOUS
<1> QED
  BY <1>1

LEMMA MessageTypes ==
  /\ \A m \in Messages : /\ Len(m) \in Nat
                         /\ m = [i \in 1 .. Len(m) |-> m[i]]
                         /\ \A i \in 1 .. Len(m) : m[i] \in Byte
  /\ \A ctx \in Contexts : Len(ctx) \in Nat /\ ctx = [i \in 1 .. Len(ctx) |-> ctx[i]]
  BY SignConstants, LenProperties, ElementOfSeq

(* What is hashed with the length of the context in front determines context  *)
(* and message.                                                               *)
framed(c, m, d, n) == Len(c) = Len(d) /\ c \o m = d \o n => c = d /\ m = n
associates(p, c, m) == (p \o c) \o m = p \o (c \o m)
joins(A, c, m) == c \o m \in Seq(A)

LEMMA Associates ==
  \A A : \A p, c, m \in Seq(A) : associates(p, c, m)
  BY ConcatAssociative, Zenon DEF associates

LEMMA Joins ==
  \A A : \A c, m \in Seq(A) : joins(A, c, m)
  BY ConcatProperties, Zenon DEF joins

LEMMA Framed ==
  ASSUME NEW A, NEW c \in Seq(A), NEW m \in Seq(A), NEW d \in Seq(A), NEW n \in Seq(A)
  PROVE  framed(c, m, d, n)
<1> DEFINE k == Len(c)
           s == c \o m
           t == d \o n
<1>1. /\ Len(s) = Len(c) + Len(m)
      /\ \A i \in 1 .. Len(c) + Len(m) : s[i] = IF i <= Len(c) THEN c[i] ELSE m[i - Len(c)]
  BY ConcatProperties, Zenon
<1>2. /\ Len(t) = Len(d) + Len(n)
      /\ \A i \in 1 .. Len(d) + Len(n) : t[i] = IF i <= Len(d) THEN d[i] ELSE n[i - Len(d)]
  BY ConcatProperties, Zenon
<1> HIDE DEF s, t
<1> SUFFICES ASSUME s = t, Len(d) = k PROVE c = d /\ m = n
  BY DEF framed, s, t, k
<1>3. s = t /\ Len(c) = k /\ Len(d) = k /\ k \in Nat
  BY LenProperties
<1> HIDE DEF k
<1>4. Len(m) \in Nat /\ Len(n) \in Nat /\ Len(m) = Len(n)
  <2>1. Len(m) \in Nat /\ Len(n) \in Nat
    BY LenProperties
  <2> QED
    BY <1>1, <1>2, <1>3, <2>1
<1>5. ASSUME NEW i \in 1 .. k PROVE c[i] = d[i]
  BY <1>1, <1>2, <1>3, <1>4
<1>6. ASSUME NEW i \in 1 .. Len(m) PROVE m[i] = n[i]
  <2>1. /\ i + k \in 1 .. k + Len(m) /\ ~(i + k <= k) /\ (i + k) - k = i
    BY <1>4
  <2> QED
    BY <1>1, <1>2, <1>3, <1>4, <2>1
<1>7. c = d
  BY <1>3, <1>5, SeqEqual
<1>8. m = n
  BY <1>4, <1>6, SeqEqual
<1> QED
  BY <1>7, <1>8

LEMMA MessageHash ==
  ASSUME NEW A, NEW c \in Seq(A), NEW m \in Seq(A), NEW d \in Seq(A), NEW n \in Seq(A),
         Len(c) <= UINT8 - 1, Len(d) <= UINT8 - 1, NEW t, NEW u,
         message_hash(t, m, c) = message_hash(u, n, d)
  PROVE  t = u /\ c = d /\ m = n
<1> DEFINE B == A \cup Nat
           p == << 0, Len(c) % UINT8 >>
           q == << 0, Len(d) % UINT8 >>
<1>1. /\ c \in Seq(B) /\ m \in Seq(B) /\ d \in Seq(B) /\ n \in Seq(B)
      /\ Len(c) \in Nat /\ Len(d) \in Nat
  BY SeqMonotonic, LenProperties
<1>2. Len(c) % UINT8 = Len(c) /\ Len(d) % UINT8 = Len(d)
  BY <1>1, MldsaConstants, SmallMod
<1>3. /\ p \in Seq(B) /\ q \in Seq(B) /\ Len(p) = 2 /\ Len(q) = 2
      /\ p[2] = Len(c) /\ q[2] = Len(d)
  BY <1>1, <1>2
<1>4. t = u /\ (p \o c) \o m = (q \o d) \o n
  BY DEF message_hash
<1> HIDE DEF B, p, q
<1>5. joins(B, c, m) /\ joins(B, d, n)
  BY <1>1, Joins, Zenon
<1> DEFINE s == c \o m
           w == d \o n
<1>6. s \in Seq(B) /\ w \in Seq(B)
  BY <1>5 DEF joins
<1>7. associates(p, c, m) /\ associates(q, d, n)
  BY <1>1, <1>3, Associates, Zenon
<1>8. p \o s = q \o w
  BY <1>4, <1>7, Zenon DEF associates
<1> HIDE DEF s, w
<1>9. framed(p, s, q, w)
  BY <1>3, <1>6, Framed, Zenon
<1>10. p = q /\ s = w
  BY <1>3, <1>8, <1>9, Zenon DEF framed
<1>11. Len(c) = Len(d)
  BY <1>3, <1>10, Zenon
<1>12. framed(c, m, d, n)
  BY <1>1, Framed, Zenon
<1> QED
  BY <1>4, <1>10, <1>11, <1>12, Zenon DEF framed, s, w

(* The message is behind three bytes that the caller had there.               *)
LEMMA SignCopy ==
  ASSUME NEW m \in Messages, NEW inplace \in BOOLEAN
  PROVE  LET sm == crypto_sign_copy(m, inplace)
         IN /\ sm = [i \in 1 .. CRYPTO_BYTES + Len(m) |-> sm[i]]
            /\ \A i \in 1 .. Len(m) : sm[CRYPTO_BYTES + i] = m[i]
            /\ \A i \in 1 .. CRYPTO_BYTES + Len(m) : sm[i] \in Byte
<1> DEFINE n == Len(m)
           olds == [i \in 1 .. CRYPTO_BYTES |-> Old]
           buf == m \o olds
<1>1. /\ n \in Nat /\ m \in Seq(Byte)
      /\ \A i \in 1 .. n : m[i] \in Byte
  BY MessageTypes, SignConstants
<1>2. Old \in Byte
  BY MldsaConstants
<1>3. olds \in Seq(Byte) /\ Len(olds) = 3 /\ \A i \in 1 .. 3 : olds[i] = Old
  BY <1>2 DEF CRYPTO_BYTES
<1>4. crypto_sign_copy(m, inplace)
        = IF inplace THEN MoveCells(buf, 0, 3, Downward(n)) ELSE olds \o m
  BY DEF crypto_sign_copy, CRYPTO_BYTES
<1> HIDE DEF n, olds
<1>5. CASE inplace
  <2>0. /\ buf \in Seq(Byte) /\ Len(buf) = Len(m) + Len(olds)
        /\ \A i \in 1 .. Len(m) + Len(olds) :
             buf[i] = IF i <= Len(m) THEN m[i] ELSE olds[i - Len(m)]
    BY <1>1, <1>3, ConcatProperties, Zenon
  <2>1. /\ buf \in Seq(Byte) /\ Len(buf) = n + 3
        /\ \A i \in 1 .. n + 3 : buf[i] = IF i <= n THEN m[i] ELSE olds[i - n]
    BY <1>3, <2>0 DEF n
  <2> HIDE DEF buf
  <2>2. buf = [i \in 1 .. n + 3 |-> buf[i]] /\ \A i \in 1 .. n + 3 : buf[i] \in Byte
    BY <2>1, <1>1, LenProperties, ElementOfSeq
  <2>3. crypto_sign_copy(m, inplace)
          = [j \in 1 .. n + 3 |-> IF j > 3 THEN buf[j - 3] ELSE buf[j]]
    BY <1>1, <1>4, <1>5, <2>2, MovedUp
  <2>4. \A j \in 1 .. n + 3 : (IF j > 3 THEN buf[j - 3] ELSE buf[j]) \in Byte
    BY <1>1, <2>2
  <2>5. \A i \in 1 .. n : 3 + i \in 1 .. n + 3 /\ (3 + i) - 3 = i /\ buf[i] = m[i]
    BY <1>1, <2>1
  <2> QED
    BY <1>1, <2>3, <2>4, <2>5 DEF CRYPTO_BYTES, n
<1>6. CASE ~ inplace
  <2> DEFINE sm == olds \o m
  <2>0. /\ sm \in Seq(Byte) /\ Len(sm) = Len(olds) + Len(m)
        /\ \A i \in 1 .. Len(olds) + Len(m) :
             sm[i] = IF i <= Len(olds) THEN olds[i] ELSE m[i - Len(olds)]
    BY <1>1, <1>3, ConcatProperties, Zenon
  <2>1. /\ sm \in Seq(Byte) /\ Len(sm) = 3 + n
        /\ \A i \in 1 .. 3 + n : sm[i] = IF i <= 3 THEN olds[i] ELSE m[i - 3]
    BY <1>3, <2>0 DEF n
  <2> HIDE DEF sm
  <2>2. sm = [i \in 1 .. 3 + n |-> sm[i]] /\ \A i \in 1 .. 3 + n : sm[i] \in Byte
    BY <2>1, <1>1, LenProperties, ElementOfSeq
  <2>3. \A i \in 1 .. n : 3 + i \in 1 .. 3 + n /\ ~(3 + i <= 3) /\ (3 + i) - 3 = i
    BY <1>1
  <2>4. crypto_sign_copy(m, inplace) = sm
    BY <1>4, <1>6 DEF sm
  <2> QED
    BY <2>1, <2>2, <2>3, <2>4 DEF CRYPTO_BYTES, n
<1> QED
  BY <1>5, <1>6

(* What a pass does to the cells: the first two, or the signature.            *)
ended(n, sm, y, sk, o) ==
  LET c == challenge(y.seed.mu, pack_w1(y))
  IN [i \in 1 .. CRYPTO_BYTES + n |->
        IF i = 1 THEN c
        ELSE IF i = 2 THEN IF rejected(o) THEN pack_w1(y)[2] ELSE response(y, c, sk, o)
        ELSE IF i = 3 THEN IF rejected(o) THEN sm[3] ELSE make_hint(y, c, o)
        ELSE sm[i]]

LEMMA EndPass ==
  ASSUME NEW n \in Nat, NEW sm, sm = [i \in 1 .. CRYPTO_BYTES + n |-> sm[i]],
         NEW y, NEW sk, NEW o
  PROVE  end_pass(sm, y.seed.mu, y, sk, o) = ended(n, sm, y, sk, o)
<1> DEFINE c == challenge(y.seed.mu, pack_w1(y))
           w1 == pack_w1(y)
           buf == commit_pass(sm, y.seed.mu, y)
           z == response(y, buf[1], sk, o)
           h == make_hint(y, buf[1], o)
<1>1. Len(sm) = 3 + n
  BY AsSequence DEF CRYPTO_BYTES
<1>2. buf = [i \in 1 .. 3 + n |->
               IF i = 1 THEN c ELSE IF i = 2 THEN w1[2] ELSE sm[i]]
  <2>1. buf = [i \in 1 .. 3 + n |->
                 IF i = 1 THEN c ELSE IF i <= W1_BYTES THEN w1[i] ELSE sm[i]]
    BY <1>1 DEF commit_pass
  <2> HIDE DEF buf, c, w1
  <2> QED
    BY <2>1 DEF W1_BYTES
<1>3. end_pass(sm, y.seed.mu, y, sk, o)
        = IF rejected(o) THEN buf ELSE [buf EXCEPT ![2] = z, ![3] = h]
  BY DEF end_pass, pack_sig
<1>4. buf[1] = c
  <2>1. 1 \in 1 .. 3 + n
    OBVIOUS
  <2> HIDE DEF buf, c, w1
  <2> QED
    BY <1>2, <2>1
<1>5. z = response(y, c, sk, o) /\ h = make_hint(y, c, o)
  BY <1>4
<1> HIDE DEF buf, z, h, c, w1
<1>6. CASE rejected(o)
  <2>1. end_pass(sm, y.seed.mu, y, sk, o) = buf
    BY <1>3, <1>6
  <2> QED
    BY <1>2, <1>6, <2>1 DEF ended, CRYPTO_BYTES, c, w1
<1>7. CASE ~ rejected(o)
  <2>1. end_pass(sm, y.seed.mu, y, sk, o) = [buf EXCEPT ![2] = z, ![3] = h]
    BY <1>3, <1>7
  <2>2. [buf EXCEPT ![2] = z, ![3] = h]
          = [i \in 1 .. 3 + n |-> IF i = 1 THEN c ELSE IF i = 2 THEN z
                                  ELSE IF i = 3 THEN h ELSE sm[i]]
    <3>1. 2 \in 1 .. 3 + n /\ 3 \in 1 .. 3 + n
      OBVIOUS
    <3>2. [buf EXCEPT ![2] = z, ![3] = h]
            = [i \in 1 .. 3 + n |-> IF i = 3 THEN h ELSE IF i = 2 THEN z ELSE buf[i]]
      BY <1>2, <3>1
    <3> DEFINE b == [buf EXCEPT ![2] = z, ![3] = h]
    <3> HIDE DEF b
    <3>3. \A i \in 1 .. 3 + n : buf[i] = IF i = 1 THEN c ELSE IF i = 2 THEN w1[2] ELSE sm[i]
      BY <1>2
    <3>4. \A i \in 1 .. 3 + n : b[i] = IF i = 3 THEN h ELSE IF i = 2 THEN z ELSE buf[i]
      BY <3>2 DEF b
    <3>5. b = [i \in 1 .. 3 + n |-> b[i]]
      BY <3>2 DEF b
    <3>6. ASSUME NEW i \in 1 .. 3 + n
          PROVE  b[i] = IF i = 1 THEN c ELSE IF i = 2 THEN z ELSE IF i = 3 THEN h ELSE sm[i]
      <4>1. b[i] = IF i = 3 THEN h ELSE IF i = 2 THEN z ELSE buf[i]
        BY <3>4
      <4>2. buf[i] = IF i = 1 THEN c ELSE IF i = 2 THEN w1[2] ELSE sm[i]
        BY <3>3
      <4> QED
        BY <4>1, <4>2
    <3> QED
      BY <3>5, <3>6 DEF b
  <2> QED
    BY <1>5, <1>7, <2>1, <2>2 DEF ended, CRYPTO_BYTES, c
<1> QED
  BY <1>6, <1>7

-----------------------------------------------------------------------------
(* The mask of the next pass is that of the request.                          *)
LEMMA MessageMoved ==
  ASSUME NEW c, CallOf(c), MessageBehind(c)
  PROVE  /\ Len(c.sm) = CRYPTO_BYTES + Len(c.m)
         /\ SubSeq(c.sm, CRYPTO_BYTES + 1, Len(c.sm)) = c.m
<1>1. /\ Len(c.m) \in Nat /\ c.m = [i \in 1 .. Len(c.m) |-> c.m[i]]
  BY MessageTypes DEF CallOf, Requested
<1>2. Len(c.sm) = 3 + Len(c.m)
  BY <1>1, AsSequence DEF MessageBehind, CRYPTO_BYTES
<1>3. \A i \in 1 .. Len(c.m) : c.sm[3 + i] = c.m[i]
  BY DEF MessageBehind, CRYPTO_BYTES
<1> DEFINE n == Len(c.m)
           t == SubSeq(c.sm, 4, 3 + n)
<1> HIDE DEF n
<1>4. t = [i \in 1 .. (3 + n - 4 + 1) |-> c.sm[i + 4 - 1]]
  BY <1>1 DEF n
<1>5. 3 + n - 4 + 1 = n /\ \A i \in 1 .. n : i + 4 - 1 = 3 + i
  BY <1>1 DEF n
<1> HIDE DEF t
<1>6. t = [i \in 1 .. n |-> c.sm[3 + i]]
  BY <1>4, <1>5
<1>7. t = [i \in 1 .. n |-> c.m[i]]
  BY <1>3, <1>6 DEF n
<1>8. t = c.m
  BY <1>1, <1>7 DEF n
<1> QED
  BY <1>2, <1>8 DEF t, n, CRYPTO_BYTES

LEMMA PassMask ==
  ASSUME NEW p \in Signers, CallOf(call[p]), MessageBehind(call[p])
  PROVE  /\ mu(p) = mu_of(call[p])
         /\ keys(p).sk = sk_of(call[p])
         /\ pass_mask(p) = mask(rhoprime_of(call[p]), call[p].nonce)
  BY MessageMoved DEF mu, keys, moved, pass_mask, seed_of, mu_of, sk_of, rhoprime_of

LEMMA MaskFields ==
  ASSUME NEW c, NEW n
  PROVE  LET y == mask(rhoprime_of(c), n)
         IN /\ y.seed = rhoprime_of(c)
            /\ y.seed.mu = mu_of(c)
            /\ y.seed.key.k = c.seed
            /\ crypto_sign_keypair(y.seed.key.k).sk = sk_of(c)
  BY DEF mask, rhoprime_of, rhoprime, sk_of, crypto_sign_keypair

(* What is known of a mask stays known.                                       *)
FatesKept == \A x \in DOMAIN fate : x \in DOMAIN fate' /\ fate'[x] = fate[x]

LEMMA Learned ==
  ASSUME NEW y, NEW o, y \in DOMAIN fate => o = fate[y], fate' = Learn(y, o)
  PROVE  FatesKept /\ y \in DOMAIN fate' /\ fate'[y] = o /\ DOMAIN fate' = DOMAIN fate \cup {y}
  BY DEF Learn, FatesKept

LEMMA KeptRejected ==
  ASSUME FatesKept, NEW c, NEW n, RejectedBefore(c, n)
  PROVE  RejectedBefore(c, n)'
  BY DEF FatesKept, RejectedBefore

LEMMA KeptCall ==
  ASSUME FatesKept, NEW c, CallInv(c)
  PROVE  CallInv(c)'
<1>1. CellsSecret(c.sm)'
  BY DEF FatesKept, CallInv, CellsSecret, Accepted
<1> QED
  BY <1>1, KeptRejected DEF CallInv

LEMMA KeptReleased ==
  ASSUME FatesKept, NEW r, ReleasedOf(r)
  PROVE  ReleasedOf(r)'
<1>1. Accepted(r.y)'
  BY DEF FatesKept, ReleasedOf, Accepted
<1> QED
  BY <1>1, KeptRejected DEF ReleasedOf

(* A request that goes on keeps what it asks for.                             *)
LEMMA SameRequest ==
  ASSUME NEW c, NEW d, d.seed = c.seed, d.m = c.m, d.ctx = c.ctx, d.rnd = c.rnd
  PROVE  /\ rhoprime_of(d) = rhoprime_of(c)
         /\ Requested(c) => Requested(d)
         /\ \A n : RejectedBefore(c, n) => RejectedBefore(d, n)
<1>1. rhoprime_of(d) = rhoprime_of(c)
  BY DEF rhoprime_of, mu_of, sk_of
<1> QED
  BY <1>1 DEF Requested, RejectedBefore

(* The cells after a pass: the message where it was, and a response only if   *)
(* the pass was accepted.                                                     *)
LEMMA PassCells ==
  ASSUME NEW c, CallInv(c), NEW o \in Fates
  PROVE  LET y == mask(rhoprime_of(c), c.nonce)
             sm == end_pass(c.sm, mu_of(c), y, sk_of(c), o)
         IN /\ sm = [i \in 1 .. CRYPTO_BYTES + Len(c.m) |-> sm[i]]
            /\ \A i \in 1 .. Len(c.m) : sm[CRYPTO_BYTES + i] = c.m[i]
            /\ \A i \in 1 .. CRYPTO_BYTES + Len(c.m) :
                 \/ sm[i] = c.sm[i]
                 \/ sm[i].kind # "z"
                 \/ ~ rejected(o) /\ sm[i].y = y
            /\ ~ rejected(o) => o = "accept" /\ sm = signed(y, c.m)
<1> DEFINE y == mask(rhoprime_of(c), c.nonce)
           n == Len(c.m)
           sk == sk_of(c)
           sm == end_pass(c.sm, mu_of(c), y, sk, o)
           ch == challenge(y.seed.mu, pack_w1(y))
           w == pack_w1(y)[2]
           z == response(y, ch, sk, o)
           h == make_hint(y, ch, o)
<1>1. n \in Nat
  BY MessageTypes DEF CallInv, CallOf, Requested
<1>2. /\ c.sm = [i \in 1 .. CRYPTO_BYTES + n |-> c.sm[i]]
      /\ \A i \in 1 .. n : c.sm[CRYPTO_BYTES + i] = c.m[i]
  BY DEF CallInv, MessageBehind
<1>3. /\ ch.kind = "c" /\ w.kind = "w1" /\ h.kind = "h"
      /\ z.kind = "z" /\ z.y = y
  BY DEF challenge, pack_w1, W1_BYTES, make_hint, response
<1>4. y.seed.mu = mu_of(c) /\ crypto_sign_keypair(y.seed.key.k).sk = sk
  BY MaskFields
<1>5. ~ rejected(o) => o = "accept"
  BY SignConstants DEF rejected, Outcomes
<1>6. ~ rejected(o) => signature(y) = << ch, z, h >>
  BY <1>4, <1>5 DEF signature
<1>7. sm = [i \in 1 .. CRYPTO_BYTES + n |->
              IF i = 1 THEN ch
              ELSE IF i = 2 THEN IF rejected(o) THEN w ELSE z
              ELSE IF i = 3 THEN IF rejected(o) THEN c.sm[3] ELSE h
              ELSE c.sm[i]]
  <2> HIDE DEF n, y, sk
  <2>1. end_pass(c.sm, y.seed.mu, y, sk, o) = ended(n, c.sm, y, sk, o)
    BY <1>1, <1>2, EndPass
  <2> QED
    BY <1>4, <2>1 DEF ended
<1> HIDE DEF y, n, sk, sm, ch, w, z, h
<1>8. sm = [i \in 1 .. CRYPTO_BYTES + n |-> sm[i]]
  BY <1>7
<1>9. ASSUME NEW i \in 1 .. n
      PROVE  sm[CRYPTO_BYTES + i] = c.m[i]
  <2>1. /\ CRYPTO_BYTES + i \in 1 .. CRYPTO_BYTES + n
        /\ CRYPTO_BYTES + i # 1 /\ CRYPTO_BYTES + i # 2 /\ CRYPTO_BYTES + i # 3
    BY <1>1 DEF CRYPTO_BYTES
  <2>2. sm[CRYPTO_BYTES + i] = c.sm[CRYPTO_BYTES + i]
    BY <1>7, <2>1
  <2> QED
    BY <1>2, <2>2
<1>10. ASSUME NEW i \in 1 .. CRYPTO_BYTES + n
       PROVE  sm[i] = c.sm[i] \/ sm[i].kind # "z" \/ (~ rejected(o) /\ sm[i].y = y)
  BY <1>3, <1>7
<1>11. ASSUME ~ rejected(o)
       PROVE  sm = signed(y, c.m)
  <2>1. signed(y, c.m) = [i \in 1 .. CRYPTO_BYTES + n |->
          IF i <= CRYPTO_BYTES THEN signature(y)[i] ELSE c.m[i - CRYPTO_BYTES]]
    BY DEF signed, n
  <2>2. ASSUME NEW i \in 1 .. CRYPTO_BYTES + n
        PROVE  sm[i] = IF i <= CRYPTO_BYTES THEN signature(y)[i] ELSE c.m[i - CRYPTO_BYTES]
    <3>1. CASE i = 1
      BY <1>6, <1>7, <1>11, <3>1 DEF CRYPTO_BYTES
    <3>2. CASE i = 2
      BY <1>6, <1>7, <1>11, <3>2 DEF CRYPTO_BYTES
    <3>3. CASE i = 3
      BY <1>6, <1>7, <1>11, <3>3 DEF CRYPTO_BYTES
    <3>4. CASE i > 3
      <4>1. i - 3 \in 1 .. n /\ 3 + (i - 3) = i /\ ~(i <= 3)
        BY <1>1, <3>4 DEF CRYPTO_BYTES
      <4> QED
        BY <1>9, <4>1 DEF CRYPTO_BYTES
    <3> QED
      BY <1>1, <3>1, <3>2, <3>3, <3>4 DEF CRYPTO_BYTES
  <2> QED
    BY <1>8, <2>1, <2>2
<1> QED
  BY <1>5, <1>8, <1>9, <1>10, <1>11 DEF sm, n, y, sk

(* A rejected pass leaves one more mask behind.                               *)
LEMMA PassRejected ==
  ASSUME NEW c, CallInv(c), NEW o \in Fates, rejected(o), FatesKept,
         mask(rhoprime_of(c), c.nonce) \in DOMAIN fate',
         fate'[mask(rhoprime_of(c), c.nonce)] = o
  PROVE  LET sm == end_pass(c.sm, mu_of(c), mask(rhoprime_of(c), c.nonce), sk_of(c), o)
         IN CallInv([c EXCEPT !.sm = sm, !.nonce = next_nonce(c.nonce)])'
<1> DEFINE y == mask(rhoprime_of(c), c.nonce)
           sm == end_pass(c.sm, mu_of(c), y, sk_of(c), o)
           d == [c EXCEPT !.sm = sm, !.nonce = next_nonce(c.nonce)]
<1>1. CallOf(c) /\ RejectedBefore(c, c.nonce)' /\ CellsSecret(c.sm)' /\ MessageBehind(c)
  BY KeptCall DEF CallInv
<1>2. /\ sm = [i \in 1 .. CRYPTO_BYTES + Len(c.m) |-> sm[i]]
      /\ \A i \in 1 .. Len(c.m) : sm[CRYPTO_BYTES + i] = c.m[i]
      /\ \A i \in 1 .. CRYPTO_BYTES + Len(c.m) : sm[i] = c.sm[i] \/ sm[i].kind # "z"
  BY PassCells
<1> HIDE DEF sm
<1>3. DOMAIN c = CallFields
  BY <1>1 DEF CallOf
<1>4. /\ DOMAIN d = CallFields
      /\ d.pc = c.pc /\ d.seed = c.seed /\ d.m = c.m /\ d.ctx = c.ctx /\ d.rnd = c.rnd
      /\ d.nonce = next_nonce(c.nonce) /\ d.sm = sm
  BY <1>3 DEF CallFields
<1> HIDE DEF d
<1>5. /\ c.nonce \in 0 .. NONCE - 1 /\ NONCE \in Nat \ {0}
      /\ \/ c.nonce + 1 < NONCE /\ next_nonce(c.nonce) = c.nonce + 1
         \/ next_nonce(c.nonce) = 0
  <2>1. c.nonce \in 0 .. NONCE - 1 /\ NONCE \in Nat \ {0}
    BY <1>1, MldsaConstants DEF CallOf
  <2>2. CASE c.nonce + 1 < NONCE
    <3>1. (c.nonce + 1) % NONCE = c.nonce + 1
      BY <2>1, <2>2, SmallMod
    <3> QED
      BY <2>1, <2>2, <3>1 DEF next_nonce
  <2>3. CASE c.nonce + 1 = NONCE
    <3>1. NONCE % NONCE = 0
      <4>1. (NONCE * 1 + 0) % NONCE = 0
        BY <2>1, ModUnique
      <4>2. NONCE * 1 + 0 = NONCE
        BY <2>1
      <4> QED
        BY <4>1, <4>2
    <3> QED
      BY <2>1, <2>3, <3>1 DEF next_nonce
  <2> QED
    BY <2>1, <2>2, <2>3
<1>6. CallOf(d)
  <2>1. Requested(d)
    BY <1>1, <1>4 DEF CallOf, Requested
  <2>2. d.nonce \in 0 .. NONCE - 1
    BY <1>4, <1>5
  <2> QED
    BY <1>1, <1>4, <2>1, <2>2 DEF CallOf
<1>7. MessageBehind(d)
  BY <1>2, <1>4 DEF MessageBehind
<1>8. RejectedBefore(d, d.nonce)'
  <2>1. rhoprime_of(d) = rhoprime_of(c)
    BY <1>4, SameRequest
  <2>2. \A j \in 0 .. c.nonce - 1 :
          LET x == mask(rhoprime_of(c), j) IN x \in DOMAIN fate' /\ rejected(fate'[x])
    BY <1>1 DEF RejectedBefore
  <2>3. \A j \in 0 .. c.nonce :
          LET x == mask(rhoprime_of(c), j) IN x \in DOMAIN fate' /\ rejected(fate'[x])
    <3> SUFFICES ASSUME NEW j \in 0 .. c.nonce
                 PROVE  LET x == mask(rhoprime_of(c), j)
                        IN x \in DOMAIN fate' /\ rejected(fate'[x])
      OBVIOUS
    <3>1. CASE j = c.nonce
      BY <3>1
    <3>2. CASE j # c.nonce
      <4>1. j \in 0 .. c.nonce - 1
        BY <1>5, <3>2
      <4> QED
        BY <2>2, <4>1
    <3> QED
      BY <3>1, <3>2
  <2>4. \A j \in 0 .. d.nonce - 1 : j \in 0 .. c.nonce
    BY <1>4, <1>5
  <2> QED
    BY <2>1, <2>3, <2>4 DEF RejectedBefore
<1>9. CellsSecret(d.sm)'
  <2>1. DOMAIN sm = 1 .. CRYPTO_BYTES + Len(c.m)
    BY <1>2
  <2>2. DOMAIN c.sm = 1 .. CRYPTO_BYTES + Len(c.m)
    BY <1>1 DEF MessageBehind
  <2> QED
    BY <1>1, <1>2, <1>4, <2>1, <2>2 DEF CellsSecret, IsCell, Accepted
<1> QED
  BY <1>6, <1>7, <1>8, <1>9 DEF CallInv, d, sm

(* An accepted pass releases the signature of its mask.                       *)
LEMMA PassAccepted ==
  ASSUME NEW c, CallInv(c), c.pc = "signing", NEW o \in Fates, ~ rejected(o), FatesKept,
         mask(rhoprime_of(c), c.nonce) \in DOMAIN fate',
         fate'[mask(rhoprime_of(c), c.nonce)] = o
  PROVE  LET y == mask(rhoprime_of(c), c.nonce)
             sm == end_pass(c.sm, mu_of(c), y, sk_of(c), o)
             smlen == CRYPTO_BYTES + Len(c.m)
         IN /\ CallInv([c EXCEPT !.sm = sm, !.smlen = smlen, !.pc = "done"])'
            /\ ReleasedOf([pk |-> crypto_sign_keypair(c.seed).pk, ctx |-> c.ctx, m |-> c.m,
                           y |-> y, rnd |-> c.rnd, seed |-> c.seed,
                           sm |-> SubSeq(sm, 1, smlen)])'
<1> DEFINE y == mask(rhoprime_of(c), c.nonce)
           n == CRYPTO_BYTES + Len(c.m)
           sm == end_pass(c.sm, mu_of(c), y, sk_of(c), o)
           d == [c EXCEPT !.sm = sm, !.smlen = n, !.pc = "done"]
           r == [pk |-> crypto_sign_keypair(c.seed).pk, ctx |-> c.ctx, m |-> c.m,
                 y |-> y, rnd |-> c.rnd, seed |-> c.seed, sm |-> SubSeq(sm, 1, n)]
<1>1. CallOf(c) /\ RejectedBefore(c, c.nonce)' /\ CellsSecret(c.sm)' /\ MessageBehind(c)
  BY KeptCall DEF CallInv
<1>2. /\ sm = [i \in 1 .. CRYPTO_BYTES + Len(c.m) |-> sm[i]]
      /\ \A i \in 1 .. Len(c.m) : sm[CRYPTO_BYTES + i] = c.m[i]
      /\ \A i \in 1 .. CRYPTO_BYTES + Len(c.m) :
           sm[i] = c.sm[i] \/ sm[i].kind # "z" \/ sm[i].y = y
      /\ o = "accept" /\ sm = signed(y, c.m)
  BY PassCells
<1>3. y \in DOMAIN fate' /\ fate'[y] = "accept"
  BY <1>2
<1> HIDE DEF sm, y
<1>4. n \in Nat
  BY <1>1, MessageTypes DEF CallOf, Requested, CRYPTO_BYTES
<1> HIDE DEF n
<1>5. DOMAIN c = CallFields
  BY <1>1 DEF CallOf
<1>6. /\ DOMAIN d = CallFields
      /\ d.pc = "done" /\ d.seed = c.seed /\ d.m = c.m /\ d.ctx = c.ctx /\ d.rnd = c.rnd
      /\ d.nonce = c.nonce /\ d.sm = sm
  BY <1>5 DEF CallFields
<1> HIDE DEF d
<1>7. CallInv(d)'
  <2>1. Requested(d)
    BY <1>1, <1>6 DEF CallOf, Requested
  <2>2. CallOf(d)
    BY <1>1, <1>6, <2>1 DEF CallOf
  <2>3. MessageBehind(d)
    BY <1>2, <1>6 DEF MessageBehind
  <2>4. RejectedBefore(d, d.nonce)'
    <3>1. rhoprime_of(d) = rhoprime_of(c)
      BY <1>6, SameRequest
    <3> QED
      BY <1>1, <1>6, <3>1 DEF RejectedBefore
  <2>5. CellsSecret(d.sm)'
    <3>1. DOMAIN sm = 1 .. CRYPTO_BYTES + Len(c.m)
      BY <1>2
    <3>2. DOMAIN c.sm = 1 .. CRYPTO_BYTES + Len(c.m)
      BY <1>1 DEF MessageBehind
    <3>3. ASSUME NEW i \in 1 .. CRYPTO_BYTES + Len(c.m), sm[i].kind = "z"
          PROVE  sm[i].y \in DOMAIN fate' /\ fate'[sm[i].y] = "accept"
      <4>1. CASE sm[i] = c.sm[i]
        BY <1>1, <3>2, <3>3, <4>1 DEF CellsSecret, IsCell, Accepted
      <4>2. CASE sm[i].y = y
        BY <1>3, <4>2
      <4> QED
        BY <1>2, <3>3, <4>1, <4>2
    <3> QED
      BY <1>6, <3>1, <3>3 DEF CellsSecret, IsCell, Accepted
  <2> QED
    BY <2>2, <2>3, <2>4, <2>5 DEF CallInv
<1>8. SubSeq(sm, 1, n) = sm
  <2>1. sm = [i \in 1 .. n |-> sm[i]]
    BY <1>2 DEF n
  <2>2. SubSeq(sm, 1, n) = [i \in 1 .. (n - 1 + 1) |-> sm[i + 1 - 1]]
    BY <1>4
  <2>3. n - 1 + 1 = n /\ \A i \in 1 .. n : i + 1 - 1 = i
    BY <1>4
  <2>4. SubSeq(sm, 1, n) = [i \in 1 .. n |-> sm[i]]
    BY <2>2, <2>3
  <2> QED
    BY <2>1, <2>4
<1> HIDE DEF r
<1>9. /\ r.pk = crypto_sign_keypair(c.seed).pk /\ r.ctx = c.ctx /\ r.m = c.m
      /\ r.y = y /\ r.rnd = c.rnd /\ r.seed = c.seed /\ r.sm = sm
  BY <1>8 DEF r
<1>10. ReleasedOf(r)'
  <2>1. Requested(r) /\ Len(r.ctx) <= UINT8 - 1
    BY <1>1, <1>9 DEF CallOf, Requested
  <2>2. rhoprime_of(r) = rhoprime_of(c)
    BY <1>9, SameRequest
  <2>3. c.nonce \in 0 .. NONCE - 1 /\ r.y = mask(rhoprime_of(r), c.nonce)
    BY <1>1, <1>9, <2>2 DEF CallOf, y
  <2>4. RejectedBefore(r, c.nonce)'
    BY <1>1, <2>2 DEF RejectedBefore
  <2>5. Accepted(r.y)'
    BY <1>3, <1>9 DEF Accepted
  <2>6. r.sm = signed(r.y, r.m)
    BY <1>2, <1>9
  <2> QED
    BY <1>9, <2>1, <2>3, <2>4, <2>5, <2>6 DEF ReleasedOf
<1> QED
  BY <1>7, <1>10 DEF d, r, sm, y, n

-----------------------------------------------------------------------------
(* What is presented is a sequence, and its first three cells come from       *)
(* signatures.                                                                *)
LEMMA ReleasedShape ==
  ASSUME NEW r, ReleasedOf(r)
  PROVE  /\ Len(r.m) \in Nat /\ Len(r.sm) = CRYPTO_BYTES + Len(r.m)
         /\ IsSequence(r.sm)
<1>1. Len(r.m) \in Nat
  BY MessageTypes DEF ReleasedOf, Requested
<1>2. r.sm = [i \in 1 .. CRYPTO_BYTES + Len(r.m) |-> r.sm[i]]
  BY DEF ReleasedOf, signed
<1>3. CRYPTO_BYTES + Len(r.m) \in Nat
  BY <1>1 DEF CRYPTO_BYTES
<1>4. Len(r.sm) = CRYPTO_BYTES + Len(r.m)
  BY <1>2, <1>3, AsSequence
<1> QED
  BY <1>1, <1>2, <1>3, <1>4 DEF IsSequence

LEMMA PrefixHeads ==
  ASSUME NEW sm, IsSequence(sm), Heads(sm), NEW n \in 0 .. Len(sm)
  PROVE  /\ IsSequence(SubSeq(sm, 1, n)) /\ Heads(SubSeq(sm, 1, n))
         /\ Len(SubSeq(sm, 1, n)) = n
<1> DEFINE t == SubSeq(sm, 1, n)
<1>1. Len(sm) \in Nat /\ n \in Nat /\ n <= Len(sm)
  BY DEF IsSequence
<1>2. t = [i \in 1 .. (n - 1 + 1) |-> sm[i + 1 - 1]]
  BY <1>1
<1>3. n - 1 + 1 = n /\ \A i \in 1 .. n : i + 1 - 1 = i
  BY <1>1
<1> HIDE DEF t
<1>4. t = [i \in 1 .. n |-> sm[i]]
  BY <1>2, <1>3
<1>5. t = [i \in 1 .. n |-> t[i]]
  BY <1>4
<1>6. Len(t) = n
  BY <1>1, <1>5, AsSequence
<1>7. ASSUME NEW i \in 1 .. CRYPTO_BYTES, i <= n
      PROVE  \E r \in released : t[i] = r.sm[i]
  <2>1. i \in 1 .. n /\ i <= Len(sm)
    BY <1>1, <1>7 DEF CRYPTO_BYTES
  <2> QED
    BY <1>4, <2>1 DEF Heads
<1> QED
  BY <1>1, <1>5, <1>6, <1>7 DEF IsSequence, Heads, t

LEMMA Appended ==
  ASSUME NEW n \in Nat, NEW f, f = [i \in 1 .. n |-> f[i]], NEW b
  PROVE  /\ IsSequence(Append(f, b)) /\ Len(Append(f, b)) = n + 1
         /\ \A i \in 1 .. n : Append(f, b)[i] = f[i]
<1> DEFINE S == {f[i] : i \in 1 .. n} \cup {b}
           t == Append(f, b)
<1>1. f \in Seq(S) /\ b \in S /\ Len(f) = n
  BY AsSequence
<1> HIDE DEF S
<1>2. /\ t \in Seq(S) /\ Len(t) = Len(f) + 1
      /\ \A i \in 1 .. Len(f) : t[i] = f[i]
  BY <1>1, AppendProperties
<1> HIDE DEF t
<1>3. t = [i \in 1 .. Len(t) |-> t[i]] /\ Len(t) \in Nat
  BY <1>2, LenProperties
<1> QED
  BY <1>1, <1>2, <1>3 DEF IsSequence, t

LEMMA PresentedHeads ==
  ASSUME Releases, NEW sm \in Presented
  PROVE  IsSequence(sm) /\ Heads(sm)
<1>1. PICK r \in released :
        \/ sm \in {SubSeq(r.sm, 1, n) : n \in 0 .. Len(r.sm)}
        \/ sm \in {Append(r.sm, b) : b \in Byte}
        \/ sm \in {[r.sm EXCEPT ![i] = s.sm[i]] : s \in released, i \in 1 .. CRYPTO_BYTES}
  BY DEF Presented
<1> DEFINE len == Len(r.sm)
<1>2. /\ IsSequence(r.sm) /\ len \in Nat /\ len >= CRYPTO_BYTES
      /\ r.sm = [i \in 1 .. len |-> r.sm[i]]
  BY ReleasedShape DEF Releases, IsSequence, CRYPTO_BYTES
<1> HIDE DEF len
<1>3. Heads(r.sm)
  BY DEF Heads
<1>4. CASE sm \in {SubSeq(r.sm, 1, n) : n \in 0 .. Len(r.sm)}
  <2>1. PICK n \in 0 .. Len(r.sm) : sm = SubSeq(r.sm, 1, n)
    BY <1>4
  <2> QED
    BY <1>2, <1>3, <2>1, PrefixHeads
<1>5. CASE sm \in {Append(r.sm, b) : b \in Byte}
  <2>1. PICK b \in Byte : sm = Append(r.sm, b)
    BY <1>5
  <2>2. IsSequence(sm) /\ Len(sm) = len + 1 /\ \A i \in 1 .. len : sm[i] = r.sm[i]
    BY <1>2, <2>1, Appended
  <2>3. Heads(sm)
    <3>1. \A i \in 1 .. CRYPTO_BYTES : i \in 1 .. len
      BY <1>2 DEF CRYPTO_BYTES
    <3> QED
      BY <2>2, <3>1 DEF Heads
  <2> QED
    BY <2>2, <2>3
<1>6. CASE sm \in {[r.sm EXCEPT ![i] = s.sm[i]] : s \in released, i \in 1 .. CRYPTO_BYTES}
  <2>1. PICK s \in released, k \in 1 .. CRYPTO_BYTES : sm = [r.sm EXCEPT ![k] = s.sm[k]]
    BY <1>6
  <2>2. sm = [i \in 1 .. len |-> IF i = k THEN s.sm[i] ELSE r.sm[i]]
    BY <1>2, <2>1
  <2>3. sm = [i \in 1 .. len |-> sm[i]]
    BY <2>2
  <2>4. Len(sm) = len
    BY <1>2, <2>3, AsSequence
  <2>5. IsSequence(sm)
    BY <1>2, <2>3, <2>4 DEF IsSequence
  <2>6. Heads(sm)
    <3>1. \A i \in 1 .. CRYPTO_BYTES : i \in 1 .. len
      BY <1>2 DEF CRYPTO_BYTES
    <3> QED
      BY <2>2, <3>1 DEF Heads
  <2> QED
    BY <2>5, <2>6
<1> QED
  BY <1>1, <1>4, <1>5, <1>6

LEMMA HeadsGrow ==
  ASSUME released \subseteq released', NEW sm, Heads(sm)
  PROVE  Heads(sm)'
  BY DEF Heads

LEMMA LastKept ==
  ASSUME released \subseteq released', last' = last, Opened, Verified
  PROVE  Opened' /\ Verified'
<1>1. Opened'
  BY HeadsGrow DEF Opened
<1>2. Verified'
  BY HeadsGrow DEF Verified
<1> QED
  BY <1>1, <1>2

THEOREM Invariance == Spec => []IInv
<1>1. Init => IInv
  <2> SUFFICES ASSUME Init PROVE IInv
    OBVIOUS
  <2>1. Calls
    BY DEF Init, Calls, Begun, Idle
  <2>2. FatesExplored
    BY DEF Init, FatesExplored
  <2>3. Releases
    BY DEF Init, Releases
  <2>4. Opened /\ Verified
    BY DEF Init, Opened, Verified, NoCall
  <2> QED
    BY <2>1, <2>2, <2>3, <2>4 DEF IInv
<1>2. IInv /\ [Next]_vars => IInv'
  <2> SUFFICES ASSUME IInv, [Next]_vars PROVE IInv'
    OBVIOUS
  <2>0. Calls /\ FatesExplored /\ Releases /\ Opened /\ Verified
    BY DEF IInv
  <2>1. ASSUME NEW p \in Signers, NEW s \in Seeds, NEW m \in Messages, NEW ctx \in Contexts,
               NEW rnd \in Rnd, NEW inplace \in BOOLEAN, Sign(p, s, m, ctx, rnd, inplace)
        PROVE  IInv'
    <3> DEFINE ok == Len(ctx) <= UINT8 - 1
               sm == crypto_sign_copy(m, inplace)
               d == [pc |-> IF ok THEN "signing" ELSE "failed",
                     seed |-> s, m |-> m, ctx |-> ctx, rnd |-> rnd, nonce |-> 0,
                     sm |-> sm, smlen |-> IF ok THEN 0 ELSE Len(m)]
    <3>1. call' = [call EXCEPT ![p] = d] /\ UNCHANGED << fate, released, last >>
      BY <2>1 DEF Sign
    <3>2. /\ sm = [i \in 1 .. CRYPTO_BYTES + Len(m) |-> sm[i]]
          /\ \A i \in 1 .. Len(m) : sm[CRYPTO_BYTES + i] = m[i]
          /\ \A i \in 1 .. CRYPTO_BYTES + Len(m) : sm[i] \in Byte
      BY SignCopy
    <3> HIDE DEF sm, ok
    <3>3. /\ DOMAIN d = CallFields
          /\ d.seed = s /\ d.m = m /\ d.ctx = ctx /\ d.rnd = rnd /\ d.nonce = 0 /\ d.sm = sm
          /\ d.pc \in {"signing", "failed"} /\ (d.pc # "failed" => ok)
      BY DEF CallFields
    <3> HIDE DEF d
    <3>4. CallOf(d)
      <4>1. 0 \in 0 .. NONCE - 1
        BY MldsaConstants
      <4> QED
        BY <3>3, <4>1 DEF CallOf, Requested, ok
    <3>5. MessageBehind(d)
      BY <3>2, <3>3 DEF MessageBehind
    <3>6. RejectedBefore(d, d.nonce)'
      BY <3>3 DEF RejectedBefore
    <3>7. CellsSecret(d.sm)'
      <4>1. DOMAIN sm = 1 .. CRYPTO_BYTES + Len(m)
        BY <3>2
      <4>2. \A i \in DOMAIN sm : sm[i].kind # "z"
        BY <3>2, <4>1, MldsaConstants
      <4> QED
        BY <3>3, <4>2 DEF CellsSecret, IsCell
    <3>8. CallInv(d)'
      BY <3>4, <3>5, <3>6, <3>7 DEF CallInv
    <3>9. FatesKept
      BY <3>1 DEF FatesKept
    <3>10. Calls'
      <4>1. call' = [q \in Signers |-> IF q = p THEN d ELSE call[q]]
        BY <2>0, <3>1 DEF Calls
      <4>2. ASSUME NEW q \in Signers, call'[q].pc # "idle"
            PROVE  CallInv(call[q])'
        <5>1. CASE q = p
          BY <3>8, <4>1, <5>1
        <5>2. CASE q # p
          <6>1. PICK c : c = call[q]
            OBVIOUS
          <6>2. call'[q] = c
            BY <4>1, <5>2, <6>1
          <6>3. CallInv(c)
            BY <2>0, <4>2, <6>1, <6>2 DEF Calls, Begun
          <6>4. CallInv(c)'
            BY <3>9, <6>3, KeptCall
          <6> QED
            BY <6>2, <6>4
        <5> QED
          BY <5>1, <5>2
      <4>3. call' = [q \in Signers |-> call'[q]]
        BY <4>1
      <4> QED
        BY <4>2, <4>3 DEF Calls, Begun
    <3>11. FatesExplored' /\ Releases'
      BY <2>0, <3>1, <3>9, KeptReleased DEF FatesExplored, Releases
    <3>12. Opened' /\ Verified'
      BY <2>0, <3>1, LastKept
    <3> QED
      BY <3>10, <3>11, <3>12 DEF IInv
  <2>2. ASSUME NEW p \in Signers, NEW o \in Fates, Pass(p, o)
        PROVE  IInv'
    <3>1. PICK c : c = call[p]
      OBVIOUS
    <3>2. c.pc = "signing" /\ CallInv(c)
      BY <2>0, <2>2, <3>1 DEF Pass, Calls, Begun
    <3> DEFINE y == mask(rhoprime_of(c), c.nonce)
               sm == end_pass(c.sm, mu_of(c), y, sk_of(c), o)
               smlen == CRYPTO_BYTES + Len(c.m)
               d == [c EXCEPT !.sm = sm, !.nonce = next_nonce(c.nonce)]
               e == [c EXCEPT !.sm = sm, !.smlen = smlen, !.pc = "done"]
               r == [pk |-> crypto_sign_keypair(c.seed).pk, ctx |-> c.ctx, m |-> c.m,
                     y |-> y, rnd |-> c.rnd, seed |-> c.seed, sm |-> SubSeq(sm, 1, smlen)]
    <3>3. pass_mask(p) = y /\ mu(p) = mu_of(c) /\ keys(p).sk = sk_of(c)
      BY <3>1, <3>2, PassMask DEF CallInv
    <3>4. keys(p).pk = crypto_sign_keypair(c.seed).pk
      BY <3>1 DEF keys
    <3>5. /\ y \in DOMAIN fate => o = fate[y]
          /\ fate' = Learn(y, o)
          /\ \/ rejected(o) /\ call' = [call EXCEPT ![p] = d] /\ released' = released
             \/ ~ rejected(o) /\ call' = [call EXCEPT ![p] = e] /\ released' = released \cup {r}
          /\ last' = last
      BY <2>2, <3>1, <3>3, <3>4 DEF Pass
    <3>6. FatesKept /\ y \in DOMAIN fate' /\ fate'[y] = o /\ DOMAIN fate' = DOMAIN fate \cup {y}
      BY <3>5, Learned
    <3>7. rejected(o) => CallInv(d)'
      BY <3>2, <3>6, PassRejected
    <3>8. ~ rejected(o) => CallInv(e)' /\ ReleasedOf(r)'
      BY <3>2, <3>6, PassAccepted
    <3> HIDE DEF d, e, r, y
    <3>9. PICK f : call' = [call EXCEPT ![p] = f] /\ CallInv(f)'
      BY <3>5, <3>7, <3>8
    <3>10. Calls'
      <4>1. call' = [q \in Signers |-> IF q = p THEN f ELSE call[q]]
        BY <2>0, <3>9 DEF Calls
      <4>2. ASSUME NEW q \in Signers, call'[q].pc # "idle"
            PROVE  CallInv(call[q])'
        <5>1. CASE q = p
          BY <3>9, <4>1, <5>1
        <5>2. CASE q # p
          <6>1. PICK b : b = call[q]
            OBVIOUS
          <6>2. call'[q] = b
            BY <4>1, <5>2, <6>1
          <6>3. CallInv(b)
            BY <2>0, <4>2, <6>1, <6>2 DEF Calls, Begun
          <6>4. CallInv(b)'
            BY <3>6, <6>3, KeptCall
          <6> QED
            BY <6>2, <6>4
        <5> QED
          BY <5>1, <5>2
      <4>3. call' = [q \in Signers |-> call'[q]]
        BY <4>1
      <4> QED
        BY <4>2, <4>3 DEF Calls, Begun
    <3>11. FatesExplored'
      BY <2>0, <3>6 DEF FatesExplored, FatesKept
    <3>12. Releases'
      <4>1. \A x \in released : ReleasedOf(x)'
        BY <2>0, <3>6, KeptReleased DEF Releases
      <4> QED
        BY <3>5, <3>8, <4>1 DEF Releases
    <3>13. Opened' /\ Verified'
      BY <2>0, <3>5, LastKept
    <3> QED
      BY <3>10, <3>11, <3>12, <3>13 DEF IInv
  <2>3. ASSUME NEW sm \in Presented, NEW ctx \in Contexts, NEW pk \in Pks,
               NEW inplace \in BOOLEAN, Open(sm, ctx, pk, inplace)
        PROVE  IInv'
    <3> DEFINE r == crypto_sign_open_ctx(sm, ctx, pk, inplace)
    <3>1. /\ last' = [api |-> "open", sm |-> sm, ctx |-> ctx, pk |-> pk,
                      ok |-> r.ok, m |-> r.m, mlen |-> r.mlen]
          /\ UNCHANGED << call, fate, released >>
      BY <2>3 DEF Open
    <3> HIDE DEF r
    <3>2. /\ last'.api = "open" /\ last'.sm = sm /\ last'.ctx = ctx /\ last'.pk = pk
          /\ last'.ok = r.ok /\ last'.m = r.m /\ last'.mlen = r.mlen
      BY <3>1
    <3>3. IsSequence(sm) /\ Heads(sm)'
      BY <2>0, <3>1, PresentedHeads, HeadsGrow
    <3>4. Opened'
      BY <3>2, <3>3 DEF Opened, r, Pks
    <3>5. Verified'
      BY <3>2 DEF Verified
    <3>6. Calls' /\ FatesExplored' /\ Releases'
      <4>1. FatesKept
        BY <3>1 DEF FatesKept
      <4>2. Calls'
        BY <2>0, <3>1 DEF Calls, Begun, CallInv, RejectedBefore, CellsSecret, Accepted
      <4>3. FatesExplored' /\ Releases'
        BY <2>0, <3>1, <4>1, KeptReleased DEF FatesExplored, Releases
      <4> QED
        BY <4>2, <4>3
    <3> QED
      BY <3>4, <3>5, <3>6 DEF IInv
  <2>4. ASSUME NEW sm \in Presented, NEW m \in Messages, NEW ctx \in Contexts, NEW pk \in Pks,
               NEW n \in 0 .. Len(sm), Verify(SubSeq(sm, 1, n), m, ctx, pk)
        PROVE  IInv'
    <3> DEFINE sig == SubSeq(sm, 1, n)
    <3>1. /\ last' = [api |-> "verify", sm |-> sig \o m, siglen |-> Len(sig), ctx |-> ctx,
                      pk |-> pk, ok |-> crypto_sign_verify_ctx(sig, Len(sig), m, ctx, pk)]
          /\ UNCHANGED << call, fate, released >>
      BY <2>4 DEF Verify
    <3>2. IsSequence(sm) /\ Heads(sm)
      BY <2>0, PresentedHeads
    <3>3. IsSequence(sig) /\ Heads(sig)
      BY <3>2, PrefixHeads
    <3> HIDE DEF sig
    <3>4. /\ last'.api = "verify" /\ last'.sm = sig \o m /\ last'.siglen = Len(sig)
          /\ last'.ctx = ctx /\ last'.pk = pk
          /\ last'.ok = crypto_sign_verify_ctx(sig, Len(sig), m, ctx, pk)
      BY <3>1
    <3>5. Heads(sig)'
      BY <3>1, <3>3, HeadsGrow
    <3>6. Opened'
      BY <3>4 DEF Opened
    <3>7. Verified'
      BY <3>3, <3>4, <3>5 DEF Verified, Pks
    <3>8. Calls' /\ FatesExplored' /\ Releases'
      <4>1. FatesKept
        BY <3>1 DEF FatesKept
      <4>2. Calls'
        BY <2>0, <3>1 DEF Calls, Begun, CallInv, RejectedBefore, CellsSecret, Accepted
      <4>3. FatesExplored' /\ Releases'
        BY <2>0, <3>1, <4>1, KeptReleased DEF FatesExplored, Releases
      <4> QED
        BY <4>2, <4>3
    <3> QED
      BY <3>6, <3>7, <3>8 DEF IInv
  <2>5. CASE UNCHANGED vars
    <3>1. call' = call /\ fate' = fate /\ released' = released /\ last' = last
      BY <2>5 DEF vars
    <3>2. FatesKept
      BY <3>1 DEF FatesKept
    <3>3. Calls'
      BY <2>0, <3>1 DEF Calls, Begun, CallInv, RejectedBefore, CellsSecret, Accepted
    <3>4. FatesExplored' /\ Releases'
      BY <2>0, <3>1, <3>2, KeptReleased DEF FatesExplored, Releases
    <3>5. Opened' /\ Verified'
      BY <2>0, <3>1, LastKept
    <3> QED
      BY <3>3, <3>4, <3>5 DEF IInv
  <2> QED
    BY <2>1, <2>2, <2>3, <2>4, <2>5 DEF Next, NextSign, NextPass, NextOpen, NextVerify
<1> QED
  BY <1>1, <1>2, PTL DEF Spec

-----------------------------------------------------------------------------
(* The buffer of a caller never shows a response whose pass was rejected,     *)
(* though the C code uses it as scratch memory during the loop.               *)
THEOREM ResponsesStaySecret == Spec => []RejectedStaySecret
<1>1. IInv => RejectedStaySecret
  BY DEF IInv, Calls, CallInv, CellsSecret, Accepted, RejectedStaySecret
<1> QED
  BY <1>1, Invariance, PTL

(* Two signatures under one mask are one signature: the mask names the key,   *)
(* the message and the context, so that nothing is left to differ.            *)
THEOREM MasksSignOnce == Spec => []NoMaskReuse
<1>1. IInv => NoMaskReuse
  <2> SUFFICES ASSUME IInv, NEW r \in released, NEW s \in released, r.y = s.y
               PROVE  SubSeq(r.sm, 1, CRYPTO_BYTES) = SubSeq(s.sm, 1, CRYPTO_BYTES)
    BY DEF NoMaskReuse
  <2>1. ASSUME NEW x \in released
        PROVE  SubSeq(x.sm, 1, CRYPTO_BYTES) = [i \in 1 .. 3 |-> signature(x.y)[i]]
    <3>1. ReleasedOf(x)
      BY DEF IInv, Releases
    <3>2. Len(x.m) \in Nat
      BY <3>1, ReleasedShape
    <3>3. x.sm = signed(x.y, x.m)
      BY <3>1 DEF ReleasedOf
    <3>4. \A i \in 1 .. 3 : x.sm[i] = signature(x.y)[i]
      <4> SUFFICES ASSUME NEW i \in 1 .. 3 PROVE x.sm[i] = signature(x.y)[i]
        OBVIOUS
      <4>1. i \in 1 .. 3 + Len(x.m) /\ i <= 3
        BY <3>2
      <4> QED
        BY <3>3, <4>1 DEF signed, CRYPTO_BYTES
    <3>5. SubSeq(x.sm, 1, 3) = [i \in 1 .. 3 |-> x.sm[i]]
      OBVIOUS
    <3> QED
      BY <3>4, <3>5 DEF CRYPTO_BYTES
  <2> QED
    BY <2>1
<1> QED
  BY <1>1, Invariance, PTL

-----------------------------------------------------------------------------
(* The counters of the C loop, in uint16_t, and of the Rust loop.             *)
LEMMA ModPlus ==
  ASSUME NEW a \in Nat, NEW b \in Nat \ {0}
  PROVE  (a + b) % b = a % b
<1> DEFINE q == a \div b
           r == a % b
<1>1. a = b * q + r /\ r \in 0 .. b - 1 /\ q \in Nat
  BY DivMod
<1> HIDE DEF q, r
<1>2. a + b = b * (q + 1) + r /\ q + 1 \in Nat
  BY <1>1
<1>3. (b * (q + 1) + r) % b = r
  BY <1>1, <1>2, ModUnique
<1> QED
  BY <1>2, <1>3 DEF r

LEMMA MasksRound ==
  \E q \in Nat \ {0} : NONCE = L * q
<1> DEFINE q == NONCE \div L
<1>1. NONCE \in Nat \ {0} /\ L \in Nat \ {0, 1} /\ NONCE % L = 0
  BY MldsaConstants, LDividesNonce
<1>2. NONCE = L * q + (NONCE % L) /\ q \in Nat
  BY <1>1, DivMod
<1> HIDE DEF q
<1>3. NONCE = L * q
  BY <1>1, <1>2
<1>4. q # 0
  BY <1>1, <1>3
<1> QED
  BY <1>2, <1>3, <1>4

LEMMA TwinMask ==
  ASSUME NEW seed, NEW j \in Nat, L * j + L <= NONCE
  PROVE  expand_mask(seed, L * j) = mask(seed, j)
<1> DEFINE k == L * j
<1>1. NONCE \in Nat \ {0} /\ L \in Nat \ {0, 1}
  BY MldsaConstants
<1>2. k \in Nat /\ k + L <= NONCE
  BY <1>1
<1> HIDE DEF k
<1>3. ASSUME NEW i \in 1 .. L
      PROVE  (k + (i - 1)) % NONCE = k + (i - 1)
  <2>1. k + (i - 1) \in Nat /\ k + (i - 1) < NONCE
    BY <1>1, <1>2
  <2> QED
    BY <1>1, <2>1, SmallMod
<1>4. [i \in 1 .. L |-> (k + (i - 1)) % NONCE] = [i \in 1 .. L |-> k + (i - 1)]
  BY <1>3
<1> QED
  BY <1>4 DEF expand_mask, mask, uniform_gamma1, k

LEMMA MaskAgain ==
  ASSUME NEW seed, NEW q \in Nat \ {0}, NONCE = L * q, NEW n \in Nat, q <= n
  PROVE  mask(seed, n) = mask(seed, n - q)
<1> DEFINE k == L * (n - q)
<1>1. NONCE \in Nat \ {0} /\ L \in Nat \ {0, 1}
  BY MldsaConstants
<1>2. n - q \in Nat /\ L * n = L * (n - q) + L * q
  BY <1>1
<1>3. k \in Nat /\ L * n = k + NONCE
  BY <1>1, <1>2
<1> HIDE DEF k
<1>4. ASSUME NEW i \in 1 .. L
      PROVE  (L * n + (i - 1)) % NONCE = (k + (i - 1)) % NONCE
  <2>1. k + (i - 1) \in Nat /\ L * n + (i - 1) = (k + (i - 1)) + NONCE
    BY <1>1, <1>3
  <2>2. ((k + (i - 1)) + NONCE) % NONCE = (k + (i - 1)) % NONCE
    BY <1>1, <2>1, ModPlus
  <2> QED
    BY <2>1, <2>2
<1>5. [i \in 1 .. L |-> (L * n + (i - 1)) % NONCE] = [i \in 1 .. L |-> (k + (i - 1)) % NONCE]
  BY <1>4
<1> QED
  BY <1>5 DEF mask, uniform_gamma1, k

(* The C loop and the Rust loop sign under the first mask of the request      *)
(* whose pass is not rejected; the Rust loop panics before the C loop wraps   *)
(* round, but no C call ends after that either.                               *)
THEOREM TwinLoops == Spec => []TwinsAgree
<1>1. IInv => TwinsAgree
  <2> SUFFICES ASSUME IInv, NEW r \in released
               PROVE  LET sk == crypto_sign_keypair(r.seed).sk
                          out == {y \in DOMAIN fate : rejected(fate[y])}
                      IN raw_sign_mu(sk, r.rnd, message_hash(sk.tr, r.m, r.ctx), out) = {r.y}
    BY DEF TwinsAgree
  <2> DEFINE seed == rhoprime_of(r)
             out == {y \in DOMAIN fate : rejected(fate[y])}
             left == {k \in kappas(NONCE - 2) : expand_mask(seed, k) \notin out}
  <2>1. /\ ReleasedOf(r)
        /\ NONCE \in Nat \ {0} /\ L \in Nat \ {0, 1}
    BY MldsaConstants DEF IInv, Releases
  <2>2. PICK n \in 0 .. NONCE - 1 : r.y = mask(seed, n) /\ RejectedBefore(r, n)
    BY <2>1 DEF ReleasedOf
  <2>3. PICK q \in Nat \ {0} : NONCE = L * q
    BY MasksRound
  <2>4. \A j \in 0 .. n - 1 : mask(seed, j) \in out
    BY <2>2 DEF RejectedBefore
  <2>5. r.y \notin out
    BY <2>1 DEF ReleasedOf, Accepted, rejected
  <2> HIDE DEF seed, out
  <2>6. n < q
    <3> SUFFICES ASSUME q <= n PROVE FALSE
      BY <2>2, <2>3
    <3>1. mask(seed, n) = mask(seed, n - q)
      BY <2>3, MaskAgain
    <3>2. n - q \in 0 .. n - 1
      BY <2>3
    <3> QED
      BY <2>2, <2>4, <2>5, <3>1, <3>2
  <2>7. L * n + L <= NONCE /\ L * n \in 0 .. NONCE - 2
    <3>1. L * n + L = L * (n + 1)
      BY <2>1
    <3>2. n + 1 <= q
      BY <2>3, <2>6
    <3>3. L * (n + 1) <= L * q
      BY <2>1, <2>3, <3>2
    <3>4. L * n \in Nat
      BY <2>1
    <3> QED
      BY <2>1, <2>3, <3>1, <3>3, <3>4
  <2>8. L * n \in left
    <3>1. (L * n + 0) % L = 0
      BY <2>1, ModUnique
    <3>2. L * n + 0 = L * n
      BY <2>7
    <3>3. expand_mask(seed, L * n) = r.y
      BY <2>2, <2>7, TwinMask
    <3> QED
      BY <2>5, <2>7, <3>1, <3>2, <3>3 DEF kappas
  <2>9. ASSUME NEW k \in left
        PROVE  L * n <= k
    <3>1. k \in 0 .. NONCE - 2 /\ k % L = 0 /\ expand_mask(seed, k) \notin out
      BY DEF kappas
    <3> DEFINE j == k \div L
    <3>2. k = L * j + (k % L) /\ j \in Nat
      BY <2>1, <3>1, DivMod
    <3> HIDE DEF j
    <3>3. k = L * j
      BY <2>1, <3>1, <3>2
    <3> SUFFICES ASSUME j < n PROVE FALSE
      <4>1. ~ (j < n) => L * n <= L * j
        BY <2>1, <3>2
      <4> QED
        BY <3>3, <4>1
    <3>4. j + 1 <= n /\ j \in 0 .. n - 1
      BY <3>2
    <3>5. L * (j + 1) <= L * n /\ L * (j + 1) = L * j + L
      BY <2>1, <3>2, <3>4
    <3>6. L * j + L <= NONCE
      BY <2>1, <2>7, <3>2, <3>5
    <3>7. expand_mask(seed, k) = mask(seed, j)
      BY <3>2, <3>3, <3>6, TwinMask
    <3> QED
      BY <2>4, <3>1, <3>4, <3>7
  <2>10. Min(left) = L * n
    <3>1. left \subseteq Nat
      BY <2>1 DEF kappas
    <3> DEFINE least == CHOOSE x \in left : \A y \in left : x <= y
    <3> HIDE DEF left
    <3>2. least \in left /\ \A y \in left : least <= y
      BY <2>8, <2>9
    <3> HIDE DEF least
    <3>3. least = L * n
      <4>1. least <= L * n /\ L * n <= least
        BY <2>8, <2>9, <3>2, Zenon
      <4>2. least \in Nat /\ L * n \in Nat
        BY <2>8, <3>1, <3>2, Zenon
      <4> QED
        BY <4>1, <4>2
    <3> QED
      BY <3>3 DEF Min, least
  <2>11. expand_mask(seed, L * n) = r.y
    BY <2>2, <2>7, TwinMask
  <2> HIDE DEF left
  <2>12. LET sk == crypto_sign_keypair(r.seed).sk
         IN raw_sign_mu(sk, r.rnd, message_hash(sk.tr, r.m, r.ctx), out)
              = IF left = {} THEN {} ELSE {expand_mask(seed, Min(left))}
    BY DEF raw_sign_mu, seed, left, rhoprime_of, mu_of, sk_of
  <2> QED
    BY <2>8, <2>10, <2>11, <2>12 DEF out
<1> QED
  BY <1>1, Invariance, PTL

-----------------------------------------------------------------------------
(* What a released signature is made of.                                      *)
LEMMA SignatureCells ==
  ASSUME NEW r, ReleasedOf(r)
  PROVE  /\ \A i \in 1 .. 3 : r.sm[i] = signature(r.y)[i]
         /\ \A i \in 1 .. Len(r.m) : r.sm[3 + i] = r.m[i]
         /\ r.y.seed.mu = message_hash([crh |-> r.pk], r.m, r.ctx)
         /\ r.y.seed.key.k = r.seed /\ r.pk = [t1 |-> r.seed]
<1>1. Len(r.m) \in Nat
  BY ReleasedShape
<1>2. r.sm = [i \in 1 .. 3 + Len(r.m) |-> IF i <= 3 THEN signature(r.y)[i] ELSE r.m[i - 3]]
  BY DEF ReleasedOf, signed, CRYPTO_BYTES
<1>3. ASSUME NEW i \in 1 .. 3
      PROVE  r.sm[i] = signature(r.y)[i]
  <2>1. i \in 1 .. 3 + Len(r.m) /\ i <= 3
    BY <1>1
  <2> QED
    BY <1>2, <2>1
<1>4. ASSUME NEW i \in 1 .. Len(r.m)
      PROVE  r.sm[3 + i] = r.m[i]
  <2>1. 3 + i \in 1 .. 3 + Len(r.m) /\ ~(3 + i <= 3) /\ (3 + i) - 3 = i
    BY <1>1
  <2> QED
    BY <1>2, <2>1
<1>5. PICK n : r.y = mask(rhoprime_of(r), n)
  BY DEF ReleasedOf
<1>6. r.y.seed.mu = mu_of(r) /\ r.y.seed.key.k = r.seed
  BY <1>5, MaskFields
<1>7. r.pk = [t1 |-> r.seed] /\ sk_of(r).tr = [crh |-> r.pk]
  BY DEF ReleasedOf, sk_of, crypto_sign_keypair
<1> QED
  BY <1>3, <1>4, <1>6, <1>7 DEF mu_of

(* The cells of the signature of a mask, by name.                             *)
c_of(y) == challenge(y.seed.mu, pack_w1(y))

hashIs(x, y) == x = signature(y)[1] /\ x = c_of(y) /\ x.mu = y.seed.mu /\ x.w1 = pack_w1(y)
responseIs(x, y) ==
  /\ x = signature(y)[2] /\ x.kind = "z" /\ x.short
  /\ x.y = y /\ x.c = c_of(y) /\ x.s1 = y.seed.key.k
hintIs(x, y) ==
  /\ x = signature(y)[3] /\ x.kind = "h" /\ x.exact /\ x.light
  /\ x.y = y /\ x.c = c_of(y)
signs(r) ==
  /\ hashIs(r.sm[1], r.y) /\ responseIs(r.sm[2], r.y) /\ hintIs(r.sm[3], r.y)
  /\ r.y.seed.mu = message_hash([crh |-> r.pk], r.m, r.ctx)
  /\ r.y.seed.key.k = r.pk.t1 /\ r.pk = [t1 |-> r.pk.t1]

LEMMA SignatureFields ==
  ASSUME NEW y
  PROVE  /\ hashIs(signature(y)[1], y)
         /\ responseIs(signature(y)[2], y)
         /\ hintIs(signature(y)[3], y)
<1>1. /\ signature(y)[1] = c_of(y)
      /\ signature(y)[2] = response(y, c_of(y), crypto_sign_keypair(y.seed.key.k).sk, "accept")
      /\ signature(y)[3] = make_hint(y, c_of(y), "accept")
  BY DEF signature, c_of
<1>2. crypto_sign_keypair(y.seed.key.k).sk.s1 = y.seed.key.k
  BY DEF crypto_sign_keypair
<1>3. hashIs(signature(y)[1], y)
  BY <1>1 DEF hashIs, c_of, challenge
<1>4. responseIs(signature(y)[2], y)
  <2> DEFINE z == response(y, c_of(y), crypto_sign_keypair(y.seed.key.k).sk, "accept")
  <2>1. z.kind = "z" /\ z.y = y /\ z.c = c_of(y) /\ z.s1 = y.seed.key.k
    BY <1>2 DEF response
  <2>2. z.short
    BY DEF response
  <2> HIDE DEF z
  <2>3. signature(y)[2] = z
    BY <1>1 DEF z
  <2> QED
    BY <2>1, <2>2, <2>3, Zenon DEF responseIs
<1>5. hintIs(signature(y)[3], y)
  <2> DEFINE h == make_hint(y, c_of(y), "accept")
  <2>1. h.kind = "h" /\ h.y = y /\ h.c = c_of(y)
    BY DEF make_hint
  <2>2. h.exact /\ h.light
    BY DEF make_hint
  <2> HIDE DEF h
  <2>3. signature(y)[3] = h
    BY <1>1 DEF h
  <2> QED
    BY <2>1, <2>2, <2>3, Zenon DEF hintIs
<1> QED
  BY <1>3, <1>4, <1>5

LEMMA Signs ==
  ASSUME NEW r, ReleasedOf(r)
  PROVE  signs(r)
<1>1. /\ r.sm[1] = signature(r.y)[1] /\ r.sm[2] = signature(r.y)[2] /\ r.sm[3] = signature(r.y)[3]
      /\ r.y.seed.mu = message_hash([crh |-> r.pk], r.m, r.ctx)
      /\ r.y.seed.key.k = r.seed /\ r.pk = [t1 |-> r.seed]
  BY SignatureCells
<1>2. hashIs(r.sm[1], r.y) /\ responseIs(r.sm[2], r.y) /\ hintIs(r.sm[3], r.y)
  BY <1>1, SignatureFields, Zenon
<1> QED
  BY <1>1, <1>2 DEF signs

LEMMA CommitmentSome ==
  ASSUME NEW y
  PROVE  pack_w1(y) # << >>
<1>1. 1 \in DOMAIN pack_w1(y)
  BY DEF pack_w1, W1_BYTES
<1>2. 1 \notin DOMAIN << >>
  OBVIOUS
<1> QED
  BY <1>1, <1>2

(* verify accepts a released signature over what was signed, ...              *)
LEMMA VerifySigned ==
  ASSUME NEW r, ReleasedOf(r), NEW sig, \A i \in 1 .. 3 : sig[i] = r.sm[i]
  PROVE  crypto_sign_verify_ctx(sig, 3, r.m, r.ctx, r.pk)
<1> DEFINE y == r.y
<1>1. signs(r) /\ sig[1] = r.sm[1] /\ sig[2] = r.sm[2] /\ sig[3] = r.sm[3]
  BY Signs
<1>2. /\ hashIs(sig[1], y) /\ responseIs(sig[2], y) /\ hintIs(sig[3], y)
      /\ y.seed.mu = message_hash([crh |-> r.pk], r.m, r.ctx)
      /\ r.pk.t1 = y.seed.key.k
  BY <1>1, Zenon DEF signs
<1> HIDE DEF y
<1>3. use_hint(sig[2], sig[3], sig[1], r.pk) = pack_w1(y)
  BY <1>2 DEF use_hint, hashIs, responseIs, hintIs
<1>4. unpack_sig(sig) /\ sig[2].short
  BY <1>2 DEF unpack_sig, IsCell, responseIs, hintIs
<1>5. sig[1] = challenge(message_hash([crh |-> r.pk], r.m, r.ctx), pack_w1(y))
  BY <1>2 DEF hashIs, c_of
<1>6. Len(r.ctx) <= UINT8 - 1
  BY DEF ReleasedOf
<1> QED
  BY <1>3, <1>4, <1>5, <1>6 DEF crypto_sign_verify_ctx, CRYPTO_BYTES

(* ... and of cells that come from signatures it accepts nothing else: the    *)
(* response names the mask, and the mask names the other cells, the key, the  *)
(* message and the context.                                                   *)
LEMMA VerifyOnlySigned ==
  ASSUME Releases, NEW sig, \A i \in 1 .. 3 : \E r \in released : sig[i] = r.sm[i],
         NEW m, IsSequence(m), NEW ctx \in Contexts, NEW pk \in Pks,
         crypto_sign_verify_ctx(sig, 3, m, ctx, pk)
  PROVE  \E r \in released : /\ r.pk = pk /\ r.ctx = ctx /\ r.m = m
                             /\ \A i \in 1 .. 3 : sig[i] = r.sm[i]
<1>1. PICK r1 \in released : sig[1] = r1.sm[1]
  OBVIOUS
<1>2. PICK r \in released : sig[2] = r.sm[2]
  OBVIOUS
<1>3. PICK r3 \in released : sig[3] = r3.sm[3]
  OBVIOUS
<1>4. ReleasedOf(r1) /\ ReleasedOf(r) /\ ReleasedOf(r3)
  BY DEF Releases
<1> DEFINE y1 == r1.y
           y == r.y
           y3 == r3.y
           w == use_hint(sig[2], sig[3], sig[1], pk)
<1>5. signs(r1) /\ signs(r) /\ signs(r3)
  BY <1>4, Signs, Zenon
<1>6. /\ hashIs(sig[1], y1) /\ responseIs(sig[2], y) /\ hintIs(sig[3], y3)
      /\ hashIs(r.sm[1], y) /\ hintIs(r.sm[3], y)
      /\ y.seed.mu = message_hash([crh |-> r.pk], r.m, r.ctx)
      /\ y.seed.key.k = r.pk.t1 /\ r.pk = [t1 |-> r.pk.t1]
  BY <1>1, <1>2, <1>3, <1>5, Zenon DEF signs
<1>7. /\ Len(ctx) <= UINT8 - 1
      /\ sig[1] = challenge(message_hash([crh |-> pk], m, ctx), w)
  BY DEF crypto_sign_verify_ctx
<1> HIDE DEF y1, y, y3, w
<1>8. w # << >>
  <2>1. sig[1].w1 = pack_w1(y1)
    BY <1>6, Zenon DEF hashIs
  <2>2. sig[1].w1 = w
    BY <1>7 DEF challenge
  <2>3. pack_w1(y1) # << >>
    BY CommitmentSome, Zenon
  <2> QED
    BY <2>1, <2>2, <2>3, Zenon
<1>9. sig[2].y = sig[3].y /\ sig[2].c = sig[1] /\ sig[2].s1 = pk.t1
  BY <1>8, Zenon DEF use_hint, w
<1>10. y3 = y
  BY <1>6, <1>9, Zenon DEF responseIs, hintIs
<1>11. sig[1] = c_of(y)
  BY <1>6, <1>9, Zenon DEF responseIs
<1>12. \A i \in 1 .. 3 : sig[i] = r.sm[i]
  <2>1. sig[1] = r.sm[1]
    BY <1>6, <1>11, Zenon DEF hashIs
  <2>2. sig[3] = r.sm[3]
    BY <1>6, <1>10, Zenon DEF hintIs
  <2> QED
    BY <1>2, <2>1, <2>2
<1>13. r.pk = pk
  <2>1. r.pk.t1 = pk.t1
    BY <1>6, <1>9, Zenon DEF responseIs
  <2>2. PICK s \in Seeds : pk = [t1 |-> s]
    BY DEF Pks, crypto_sign_keypair
  <2>3. pk = [t1 |-> pk.t1]
    BY <2>2
  <2> QED
    BY <1>6, <2>1, <2>3, Zenon
<1>14. message_hash([crh |-> pk], m, ctx) = message_hash([crh |-> r.pk], r.m, r.ctx)
  <2>1. sig[1].mu = y.seed.mu
    BY <1>11 DEF c_of, challenge
  <2>2. sig[1].mu = message_hash([crh |-> pk], m, ctx)
    BY <1>7 DEF challenge
  <2> QED
    BY <1>6, <2>1, <2>2, Zenon
<1>15. r.ctx = ctx /\ r.m = m
  <2> DEFINE A == Byte \cup {m[i] : i \in 1 .. Len(m)}
  <2>1. m \in Seq(A)
    <3>1. Len(m) \in Nat /\ m = [i \in 1 .. Len(m) |-> m[i]]
      BY DEF IsSequence
    <3> QED
      BY <3>1
  <2>2. r.m \in Seq(Byte) /\ r.ctx \in Seq(Byte) /\ ctx \in Seq(Byte) /\ Byte \subseteq A
    BY <1>4, SignConstants DEF ReleasedOf, Requested
  <2> HIDE DEF A
  <2>3. r.m \in Seq(A) /\ r.ctx \in Seq(A) /\ ctx \in Seq(A)
    BY <2>2, SeqMonotonic
  <2>4. Len(r.ctx) <= UINT8 - 1
    BY <1>4 DEF ReleasedOf
  <2> QED
    BY <1>7, <1>14, <2>1, <2>3, <2>4, MessageHash
<1> QED
  BY <1>12, <1>13, <1>15

joined(w, s, t) ==
  /\ w = [i \in 1 .. Len(s) + Len(t) |-> w[i]] /\ Len(w) = Len(s) + Len(t)
  /\ \A i \in 1 .. Len(s) : w[i] = s[i]
  /\ \A i \in 1 .. Len(t) : w[Len(s) + i] = t[i]

LEMMA Joined ==
  ASSUME NEW s, NEW t, IsSequence(s), IsSequence(t)
  PROVE  joined(s \o t, s, t)
<1> DEFINE A == {s[i] : i \in 1 .. Len(s)} \cup {t[i] : i \in 1 .. Len(t)}
           w == s \o t
           k == Len(s)
           n == Len(t)
<1>1. s \in Seq(A)
  BY DEF IsSequence
<1>2. t \in Seq(A)
  BY DEF IsSequence
<1>3. k \in Nat /\ n \in Nat
  BY DEF IsSequence
<1> HIDE DEF A
<1>4. /\ w \in Seq(A) /\ Len(w) = k + n
      /\ \A i \in 1 .. k + n : w[i] = IF i <= k THEN s[i] ELSE t[i - k]
  BY <1>1, <1>2, ConcatProperties, Zenon
<1>5. w = [i \in 1 .. Len(w) |-> w[i]]
  BY <1>4, LenProperties
<1> HIDE DEF w, k, n
<1>6. \A i \in 1 .. k : i \in 1 .. k + n /\ i <= k
  BY <1>3
<1>7. \A i \in 1 .. n : k + i \in 1 .. k + n /\ ~(k + i <= k) /\ (k + i) - k = i
  BY <1>3
<1>8. /\ w = [i \in 1 .. k + n |-> w[i]] /\ Len(w) = k + n
      /\ \A i \in 1 .. k : w[i] = s[i]
      /\ \A i \in 1 .. n : w[k + i] = t[i]
  BY <1>4, <1>5, <1>6, <1>7
<1> QED
  BY <1>8 DEF joined, w, k, n

(* The bytes of a signature and of a message are those released with it       *)
(* exactly when the signature is the one released, and the message too.       *)
splits(r, sig, m) == r.sm = sig \o m <=> r.m = m /\ \A i \in 1 .. 3 : sig[i] = r.sm[i]

LEMMA SplitSigned ==
  ASSUME NEW r, ReleasedOf(r), NEW sig, IsSequence(sig), Len(sig) = 3, NEW m, IsSequence(m)
  PROVE  splits(r, sig, m)
<1> DEFINE w == sig \o m
           n == Len(m)
           k == Len(r.m)
<1>1. /\ w = [i \in 1 .. 3 + n |-> w[i]] /\ Len(w) = 3 + n /\ n \in Nat
      /\ \A i \in 1 .. 3 : w[i] = sig[i]
      /\ \A i \in 1 .. n : w[3 + i] = m[i]
  <2>1. joined(w, sig, m)
    BY Joined, Zenon
  <2> QED
    BY <2>1 DEF joined, IsSequence
<1>2. m = [i \in 1 .. n |-> m[i]]
  BY DEF IsSequence
<1>3. k \in Nat /\ Len(r.sm) = 3 + k /\ r.sm = [i \in 1 .. 3 + k |-> r.sm[i]]
  BY ReleasedShape DEF IsSequence, CRYPTO_BYTES
<1>4. \A i \in 1 .. k : r.sm[3 + i] = r.m[i]
  BY SignatureCells
<1>5. r.m = [i \in 1 .. k |-> r.m[i]]
  BY MessageTypes DEF ReleasedOf, Requested
<1> HIDE DEF w, n, k
<1>6. ASSUME r.sm = w
      PROVE  r.m = m /\ \A i \in 1 .. 3 : sig[i] = r.sm[i]
  <2>1. k = n
    BY <1>1, <1>3, <1>6
  <2>2. \A i \in 1 .. n : r.m[i] = m[i]
    BY <1>1, <1>4, <1>6, <2>1
  <2>3. r.m = m
    BY <1>2, <1>5, <2>1, <2>2
  <2> QED
    BY <1>1, <1>6, <2>3
<1>7. ASSUME r.m = m, \A i \in 1 .. 3 : sig[i] = r.sm[i]
      PROVE  r.sm = w
  <2>1. k = n
    BY <1>7 DEF k, n
  <2>2. ASSUME NEW i \in 1 .. 3 + n PROVE r.sm[i] = w[i]
    <3>1. CASE i <= 3
      <4>1. i \in 1 .. 3
        BY <1>1, <3>1
      <4> QED
        BY <1>1, <1>7, <4>1
    <3>2. CASE ~(i <= 3)
      <4>1. i - 3 \in 1 .. n /\ 3 + (i - 3) = i
        BY <1>1, <3>2
      <4>2. w[3 + (i - 3)] = m[i - 3] /\ r.sm[3 + (i - 3)] = r.m[i - 3]
        BY <1>1, <1>4, <2>1, <4>1
      <4> QED
        BY <1>7, <4>1, <4>2
    <3> QED
      BY <3>1, <3>2
  <2> QED
    BY <1>1, <1>3, <2>1, <2>2
<1> QED
  BY <1>6, <1>7 DEF splits, w

LEMMA VerifyBoolean ==
  \A sig, siglen, m, ctx, pk : crypto_sign_verify_ctx(sig, siglen, m, ctx, pk) \in BOOLEAN
  BY DEF crypto_sign_verify_ctx

(* So verify says of cells that come from signatures whether they were        *)
(* released.                                                                  *)
verdict(sig, m, ctx, pk) ==
  crypto_sign_verify_ctx(sig, 3, m, ctx, pk) <=> SignedAs(sig \o m, ctx, pk) # {}

LEMMA Verdict ==
  ASSUME Releases, NEW sig, IsSequence(sig), Len(sig) = 3, Heads(sig),
         NEW m, IsSequence(m), NEW ctx \in Contexts, NEW pk \in Pks
  PROVE  verdict(sig, m, ctx, pk)
<1>1. \A r \in released : ReleasedOf(r) /\ splits(r, sig, m)
  BY SplitSigned, Zenon DEF Releases
<1>2. \A i \in 1 .. 3 : \E r \in released : sig[i] = r.sm[i]
  BY DEF Heads, CRYPTO_BYTES
<1>3. ASSUME crypto_sign_verify_ctx(sig, 3, m, ctx, pk)
      PROVE  SignedAs(sig \o m, ctx, pk) # {}
  <2>1. PICK r \in released : /\ r.pk = pk /\ r.ctx = ctx /\ r.m = m
                              /\ \A i \in 1 .. 3 : sig[i] = r.sm[i]
    BY <1>2, <1>3, VerifyOnlySigned
  <2>2. r.sm = sig \o m
    BY <1>1, <2>1, Zenon DEF splits
  <2> QED
    BY <2>1, <2>2, Zenon DEF SignedAs
<1>4. ASSUME SignedAs(sig \o m, ctx, pk) # {}
      PROVE  crypto_sign_verify_ctx(sig, 3, m, ctx, pk)
  <2>1. PICK r \in released : r.sm = sig \o m /\ r.ctx = ctx /\ r.pk = pk
    BY <1>4, Zenon DEF SignedAs
  <2>2. r.m = m /\ \A i \in 1 .. 3 : sig[i] = r.sm[i]
    BY <1>1, <2>1, Zenon DEF splits
  <2>3. crypto_sign_verify_ctx(sig, 3, r.m, r.ctx, r.pk)
    BY <1>1, <2>2, VerifySigned, Zenon
  <2> QED
    BY <2>1, <2>2, <2>3, Zenon
<1> QED
  BY <1>3, <1>4, Zenon DEF verdict

(* A detached signature verifies over exactly the message, context and key it *)
(* was made for, and at its whole length (crypto_sign_verify_ctx).            *)
THEOREM DetachedExact == Spec => []VerifyExact
<1>1. IInv => VerifyExact
  <2> SUFFICES ASSUME IInv, last.api = "verify"
               PROVE  last.ok = (/\ last.siglen = CRYPTO_BYTES
                                 /\ SignedAs(last.sm, last.ctx, last.pk) # {})
    BY DEF VerifyExact
  <2>1. Releases /\ last.ctx \in Contexts /\ last.pk \in Pks
    BY DEF IInv, Verified
  <2>2. PICK sig : \E m \in Messages :
          /\ IsSequence(sig) /\ Heads(sig) /\ Len(sig) = last.siglen
          /\ last.sm = sig \o m
          /\ last.ok = crypto_sign_verify_ctx(sig, last.siglen, m, last.ctx, last.pk)
    BY DEF IInv, Verified
  <2>3. PICK m \in Messages :
          /\ IsSequence(sig) /\ Heads(sig) /\ Len(sig) = last.siglen
          /\ last.sm = sig \o m
          /\ last.ok = crypto_sign_verify_ctx(sig, last.siglen, m, last.ctx, last.pk)
    BY <2>2
  <2>4. last.ok \in BOOLEAN
    BY <2>3, VerifyBoolean
  <2>5. IsSequence(m)
    BY MessageTypes DEF IsSequence
  <2>6. CASE last.siglen = 3
    <3>1. verdict(sig, m, last.ctx, last.pk)
      BY <2>1, <2>3, <2>5, <2>6, Verdict, Zenon
    <3> QED
      BY <2>3, <2>4, <2>6, <3>1 DEF verdict, CRYPTO_BYTES
  <2>7. CASE last.siglen # 3
    BY <2>3, <2>7 DEF crypto_sign_verify_ctx, CRYPTO_BYTES
  <2> QED
    BY <2>6, <2>7
<1> QED
  BY <1>1, Invariance, PTL

-----------------------------------------------------------------------------
(* What is given to open is cut into a signature and a message.               *)
tail(sm, n) == SubSeq(sm, 4, n + 3)

LEMMA Cut ==
  ASSUME NEW n \in Nat, NEW sm, IsSequence(sm), Len(sm) = n + 3
  PROVE  /\ tail(sm, n) = [i \in 1 .. n |-> sm[i + 3]]
         /\ IsSequence(tail(sm, n)) /\ Len(tail(sm, n)) = n
         /\ sm = SubSeq(sm, 1, 3) \o tail(sm, n)
<1> DEFINE h == SubSeq(sm, 1, 3)
           t == tail(sm, n)
<1>1. t = [i \in 1 .. (n + 3 - 4 + 1) |-> sm[i + 4 - 1]]
  BY DEF tail
<1>2. n + 3 - 4 + 1 = n /\ \A i \in 1 .. n : i + 4 - 1 = i + 3
  OBVIOUS
<1>3. h = [i \in 1 .. (3 - 1 + 1) |-> sm[i + 1 - 1]]
  OBVIOUS
<1>4. h = [i \in 1 .. 3 |-> sm[i]]
  <2>1. 3 - 1 + 1 = 3 /\ \A i \in 1 .. 3 : i + 1 - 1 = i
    OBVIOUS
  <2> HIDE DEF h
  <2> QED
    BY <1>3, <2>1
<1> HIDE DEF h, t
<1>5. t = [i \in 1 .. n |-> sm[i + 3]]
  BY <1>1, <1>2
<1>6. t = [i \in 1 .. n |-> t[i]] /\ h = [i \in 1 .. 3 |-> h[i]]
  BY <1>4, <1>5
<1>7. Len(t) = n /\ Len(h) = 3
  BY <1>6, AsSequence
<1>8. IsSequence(t) /\ IsSequence(h)
  BY <1>6, <1>7 DEF IsSequence
<1> DEFINE w == h \o t
<1>9. joined(w, h, t)
  BY <1>8, Joined, Zenon
<1> HIDE DEF w
<1>10. /\ w = [i \in 1 .. 3 + n |-> w[i]]
       /\ \A i \in 1 .. 3 : w[i] = h[i]
       /\ \A i \in 1 .. n : w[3 + i] = t[i]
  BY <1>7, <1>9 DEF joined
<1>11. sm = [i \in 1 .. 3 + n |-> sm[i]]
  BY DEF IsSequence
<1>12. ASSUME NEW i \in 1 .. 3 + n PROVE w[i] = sm[i]
  <2>1. CASE i <= 3
    <3>1. i \in 1 .. 3
      BY <2>1
    <3> QED
      BY <1>4, <1>10, <3>1
  <2>2. CASE ~(i <= 3)
    <3>1. i - 3 \in 1 .. n /\ 3 + (i - 3) = i /\ (i - 3) + 3 = i
      BY <2>2
    <3>2. w[3 + (i - 3)] = t[i - 3] /\ t[i - 3] = sm[(i - 3) + 3]
      BY <1>5, <1>10, <3>1
    <3> QED
      BY <3>1, <3>2
  <2> QED
    BY <2>1, <2>2
<1>13. w = sm
  BY <1>10, <1>11, <1>12
<1> QED
  BY <1>5, <1>7, <1>8, <1>13 DEF t, h, w

(* What open leaves when it accepts is the message, wherever the buffer was;  *)
(* when it does not, zeros.                                                   *)
opens(o, n, sm, v) ==
  /\ o.ok \in BOOLEAN /\ (o.ok <=> v)
  /\ v => o.mlen = n /\ SubSeq(o.m, 1, o.mlen) = tail(sm, n)
  /\ ~ v => o.mlen = 0 /\ \A i \in 1 .. n + 3 : o.m[i] = Zero

LEMMA OpenLong ==
  ASSUME NEW n \in Nat, NEW sm, IsSequence(sm), Len(sm) = n + 3,
         NEW ctx, NEW pk, NEW inplace \in BOOLEAN
  PROVE  opens(crypto_sign_open_ctx(sm, ctx, pk, inplace), n, sm,
               crypto_sign_verify_ctx(SubSeq(sm, 1, 3), 3, tail(sm, n), ctx, pk))
<1> DEFINE o == crypto_sign_open_ctx(sm, ctx, pk, inplace)
           v == crypto_sign_verify_ctx(SubSeq(sm, 1, 3), 3, tail(sm, n), ctx, pk)
           kept == [i \in 1 .. n + 3 |-> IF i <= n THEN sm[3 + i] ELSE Old]
           moves == MoveCells(sm, 3, 0, Upward(n))
           zeros == [i \in 1 .. n + 3 |-> Zero]
           out == IF inplace THEN sm ELSE [i \in 1 .. Len(sm) |-> Old]
           copied == [i \in 1 .. Len(sm) |-> IF i <= Len(sm) - 3 THEN sm[3 + i] ELSE out[i]]
           inside == MoveCells(sm, 3, 0, Upward(Len(sm) - 3))
<1>1. Len(sm) >= 3 /\ Len(sm) - 3 = n /\ 3 + 1 = 4
  OBVIOUS
<1>2. o = IF v THEN [ok |-> TRUE, m |-> IF inplace THEN moves ELSE kept, mlen |-> n]
          ELSE [ok |-> FALSE, m |-> zeros, mlen |-> 0]
  <2>1. v = crypto_sign_verify_ctx(SubSeq(sm, 1, 3), 3, SubSeq(sm, 3 + 1, Len(sm)), ctx, pk)
    BY <1>1 DEF tail
  <2>2. o = IF Len(sm) >= 3 /\ crypto_sign_verify_ctx(SubSeq(sm, 1, 3), 3,
                                     SubSeq(sm, 3 + 1, Len(sm)), ctx, pk)
            THEN [ok |-> TRUE, m |-> IF inplace THEN inside ELSE copied, mlen |-> Len(sm) - 3]
            ELSE [ok |-> FALSE, m |-> [i \in 1 .. Len(sm) |-> Zero], mlen |-> 0]
    BY Zenon DEF crypto_sign_open_ctx, CRYPTO_BYTES
  <2>3. inside = moves
    BY <1>1
  <2>4. ~ inplace => copied = kept
    BY <1>1
  <2>5. zeros = [i \in 1 .. Len(sm) |-> Zero]
    OBVIOUS
  <2> HIDE DEF o, v, inside, moves, copied, kept, zeros
  <2>6. CASE v
    BY <1>1, <2>1, <2>2, <2>3, <2>4, <2>6
  <2>7. CASE ~ v
    BY <1>1, <2>1, <2>2, <2>5, <2>7
  <2> QED
    BY <2>6, <2>7
<1>3. sm = [i \in 1 .. n + 3 |-> sm[i]]
  BY DEF IsSequence
<1>4. moves = [j \in 1 .. n + 3 |-> IF j <= n THEN sm[j + 3] ELSE sm[j]]
  BY <1>3, MovedDown
<1>5. tail(sm, n) = [i \in 1 .. n |-> sm[i + 3]]
  BY Cut
<1> HIDE DEF o, v, moves
<1>6. CASE v
  <2> DEFINE b == IF inplace THEN moves ELSE kept
  <2>1. o.ok = TRUE /\ o.m = b /\ o.mlen = n
    BY <1>2, <1>6
  <2>2. \A i \in 1 .. n : i \in 1 .. n + 3 /\ i <= n /\ 3 + i = i + 3
    OBVIOUS
  <2>3. \A i \in 1 .. n : b[i] = sm[i + 3]
    BY <1>4, <2>2
  <2> HIDE DEF b
  <2>4. SubSeq(b, 1, n) = [i \in 1 .. (n - 1 + 1) |-> b[i + 1 - 1]]
    OBVIOUS
  <2>5. n - 1 + 1 = n /\ \A i \in 1 .. n : i + 1 - 1 = i
    OBVIOUS
  <2>6. SubSeq(b, 1, n) = [i \in 1 .. n |-> b[i]]
    BY <2>4, <2>5
  <2>7. SubSeq(b, 1, n) = tail(sm, n)
    BY <1>5, <2>3, <2>6
  <2> QED
    BY <1>6, <2>1, <2>7 DEF opens, o, v
<1>7. CASE ~ v
  <2>1. o.ok = FALSE /\ o.m = zeros /\ o.mlen = 0
    BY <1>2, <1>7
  <2> QED
    BY <1>7, <2>1 DEF opens, o, v
<1> QED
  BY <1>6, <1>7

shut(o, n) == o.ok = FALSE /\ o.mlen = 0 /\ \A i \in 1 .. n : o.m[i] = Zero

LEMMA OpenShort ==
  ASSUME NEW sm, Len(sm) \in Nat, Len(sm) < 3, NEW ctx, NEW pk, NEW inplace \in BOOLEAN
  PROVE  shut(crypto_sign_open_ctx(sm, ctx, pk, inplace), Len(sm))
<1>1. ~(Len(sm) >= 3)
  OBVIOUS
<1>2. crypto_sign_open_ctx(sm, ctx, pk, inplace)
        = [ok |-> FALSE, m |-> [i \in 1 .. Len(sm) |-> Zero], mlen |-> 0]
  BY <1>1 DEF crypto_sign_open_ctx, CRYPTO_BYTES
<1> QED
  BY <1>2 DEF shut

(* open gives back the message that was signed, from exactly the bytes that a *)
(* signer returned, under its key and its context, and nothing but zeros      *)
(* otherwise, whether the message moves inside one buffer or into another     *)
(* (crypto_sign_ctx, crypto_sign_open_ctx).                                   *)
THEOREM OpensExactly == Spec => []OpenExact
<1>1. IInv => OpenExact
  <2> DEFINE sm == last.sm
             ctx == last.ctx
             pk == last.pk
             asked == SignedAs(sm, ctx, pk)
  <2> SUFFICES ASSUME IInv, last.api = "open"
               PROVE  /\ last.ok = (asked # {})
                      /\ last.ok => \A r \in asked : SubSeq(last.m, 1, last.mlen) = r.m
                      /\ ~ last.ok => last.mlen = 0 /\ \A i \in 1 .. Len(sm) : last.m[i] = Zero
    BY DEF OpenExact
  <2>1. Releases /\ IsSequence(sm) /\ Heads(sm) /\ ctx \in Contexts /\ pk \in Pks
    BY DEF IInv, Opened
  <2>2. PICK inplace \in BOOLEAN :
          LET o == crypto_sign_open_ctx(sm, ctx, pk, inplace)
          IN last.ok = o.ok /\ last.m = o.m /\ last.mlen = o.mlen
    BY DEF IInv, Opened
  <2> DEFINE o == crypto_sign_open_ctx(sm, ctx, pk, inplace)
  <2>3. last.ok = o.ok /\ last.m = o.m /\ last.mlen = o.mlen
    BY <2>2
  <2>4. Len(sm) \in Nat
    BY <2>1 DEF IsSequence
  <2>5. \A r \in asked : r \in released /\ ReleasedOf(r) /\ r.sm = sm
    BY <2>1 DEF SignedAs, Releases
  <2>6. CASE Len(sm) < 3
    <3>1. shut(o, Len(sm))
      BY <2>4, <2>6, OpenShort, Zenon
    <3>2. asked = {}
      <4> SUFFICES ASSUME NEW r \in asked PROVE FALSE
        OBVIOUS
      <4>1. ReleasedOf(r) /\ r.sm = sm
        BY <2>5
      <4>2. Len(r.m) \in Nat /\ Len(r.sm) = 3 + Len(r.m)
        BY <4>1, ReleasedShape DEF CRYPTO_BYTES
      <4> QED
        BY <2>4, <2>6, <4>1, <4>2
    <3> HIDE DEF o, asked
    <3> QED
      BY <2>3, <3>1, <3>2 DEF shut
  <2>7. CASE ~(Len(sm) < 3)
    <3> DEFINE n == Len(sm) - 3
               sig == SubSeq(sm, 1, 3)
               m == tail(sm, n)
               v == crypto_sign_verify_ctx(sig, 3, m, ctx, pk)
    <3>1. n \in Nat /\ Len(sm) = n + 3
      BY <2>4, <2>7
    <3>2. IsSequence(sig) /\ Len(sig) = 3 /\ Heads(sig)
      BY <2>1, <2>4, <2>7, PrefixHeads
    <3> HIDE DEF n
    <3>3. IsSequence(m) /\ Len(m) = n /\ sm = sig \o m
      BY <2>1, <3>1, Cut
    <3>4. opens(o, n, sm, v)
      BY <2>1, <3>1, OpenLong, Zenon
    <3> HIDE DEF sig, m, o
    <3>5. verdict(sig, m, ctx, pk)
      BY <2>1, <3>2, <3>3, Verdict, Zenon
    <3>6. v <=> asked # {}
      BY <3>3, <3>5, Zenon DEF verdict
    <3>7. \A r \in asked : r.m = m
      <4> SUFFICES ASSUME NEW r \in asked PROVE r.m = m
        OBVIOUS
      <4>1. ReleasedOf(r) /\ r.sm = sm
        BY <2>5
      <4>2. splits(r, sig, m)
        BY <3>2, <3>3, <4>1, SplitSigned, Zenon
      <4> QED
        BY <3>3, <4>1, <4>2, Zenon DEF splits
    <3>8. o.ok = (asked # {})
      BY <3>4, <3>6 DEF opens
    <3>9. o.ok => SubSeq(o.m, 1, o.mlen) = m
      BY <3>4, Zenon DEF opens, m
    <3>10. ~ o.ok => o.mlen = 0 /\ \A i \in 1 .. Len(sm) : o.m[i] = Zero
      BY <3>1, <3>4, Zenon DEF opens
    <3> QED
      BY <2>3, <3>7, <3>8, <3>9, <3>10, Zenon
  <2> QED
    BY <2>6, <2>7
<1> QED
  BY <1>1, Invariance, PTL
=============================================================================
