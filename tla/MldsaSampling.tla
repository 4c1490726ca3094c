--------------------------- MODULE MldsaSampling ---------------------------
(***************************************************************************)
(* crypto.rs and sampling.rs of ml-dsa-0.1.1: the sponge, and the samplers  *)
(* that read it.  A sponge that squeezes goes on where it stopped.          *)
(***************************************************************************)
EXTENDS MldsaParam

CONSTANTS Shake(_, _),     \* the digest of a function, "G" or "H", and an input
          ShakeByte(_, _), \* the output byte of a digest at a position
          NTT_BUF,         \* bytes rej_ntt_poly squeezes first, 840 in the code
          BOUNDED_BUF,     \* bytes rej_bounded_poly does, 272 in the code
          U16_MAX,
          MaxSqueezes      \* bound: squeezes after the buffer that a sampler needs

ASSUME SamplingConstants ==
  /\ {NTT_BUF, BOUNDED_BUF, U16_MAX, MaxSqueezes} \subseteq Nat
  /\ NTT_BUF % 3 = 0

ShakeState(function) == [function |-> function, input |-> << >>, pos |-> 0]
G == ShakeState("G")
H == ShakeState("H")

absorb(ctx, input) == [ctx EXCEPT !.input = @ \o input]

squeeze(ctx, len) ==
  LET digest == Shake(ctx.function, ctx.input)
  IN [bytes |-> Array([n \in 1 .. len |-> ShakeByte(digest, ctx.pos + n - 1)]),
      ctx |-> [ctx EXCEPT !.pos = @ + len]]

squeeze_new(ctx, len) == squeeze(ctx, len).bytes

to_le_bytes(x) == << x % 256, x \div 256 >>
-----------------------------------------------------------------------------
NoElem == -1

bit_set(z, i) == bit(z[1 + i \div 8], i % 8) = 1

coeff_from_three_bytes(b) ==
  LET b2p == IF b[3] > 127 THEN b[3] - 128 ELSE b[3]
      z == b2p * 65536 + b[2] * 256 + b[1]
  IN IF z < Q THEN z ELSE NoElem

coeff_from_half_byte(b) ==
  LET e == IF Eta = 2 THEN b % 5 ELSE b
  IN IF b >= (IF Eta = 2 THEN 15 ELSE 9) THEN NoElem
     ELSE IF e <= Eta THEN Eta - e ELSE ElemNeg(e - Eta)

coeffs_from_byte(z) ==
  << coeff_from_half_byte(z % 16), coeff_from_half_byte(z \div 16) >>
-----------------------------------------------------------------------------
(* The coefficients a, a sequence, with candidate x if it is one and there    *)
(* is room.                                                                   *)
push(a, x) == IF Len(a) < N /\ x # NoElem THEN Append(a, x) ELSE a

(* The candidates in a chunk of bytes: one in three bytes, two in one. *)
candidates(b) ==
  IF Len(b) = 3 THEN << coeff_from_three_bytes(b) >> ELSE coeffs_from_byte(b[1])

push_all(a, c) == IF Len(c) = 1 THEN push(a, c[1]) ELSE push(push(a, c[1]), c[2])

(* a with the candidates in each whole chunk of bytes. *)
fill(a, bytes, width) ==
  LET after[n \in 0 .. Len(bytes) \div width] ==
        IF n = 0 THEN a
        ELSE push_all(after[n - 1], candidates(Slice(bytes, (n - 1) * width, width)))
  IN after[Len(bytes) \div width]

(* A sampler which, past its buffer, reads the stream from the start again. *)
past_buffer_again(ctx, buf) == ctx

past_buffer(ctx, buf) == squeeze(ctx, buf).ctx

(* A buffer first, then chunk by chunk until there are N coefficients. *)
collect(ctx, buf, width) ==
  LET more[n \in 0 .. MaxSqueezes] ==
        IF n = 0 THEN [a |-> fill(<< >>, squeeze(ctx, buf).bytes, width),
                       ctx |-> past_buffer(ctx, buf)]
        ELSE LET p == more[n - 1]
                 next == squeeze(p.ctx, width)
             IN IF Len(p.a) = N THEN p
                ELSE [a |-> fill(p.a, next.bytes, width), ctx |-> next.ctx]
  IN more[MaxSqueezes].a

rejection_sample(ctx, buf, width) ==
  LET a == collect(ctx, buf, width) IN Array([i \in Coeff |-> a[i + 1]])

ntt_stream(rho, r, s) == absorb(absorb(absorb(G, rho), << s >>), << r >>)
bounded_stream(rho, r) == absorb(absorb(H, rho), to_le_bytes(r))

rej_ntt_poly(rho, r, s) == rejection_sample(ntt_stream(rho, r, s), NTT_BUF, 3)
rej_bounded_poly(rho, r) == rejection_sample(bounded_stream(rho, r), BOUNDED_BUF, 1)

expand_a(rho) ==
  Array([r \in Rows |-> Array([s \in Columns |-> rej_ntt_poly(rho, r, s)])])

expand_s(k, rho, base) ==
  Array([r \in 0 .. k - 1 |-> rej_bounded_poly(rho, r + base)])

(* mu + r wraps in a release build. *)
expand_mask(rho, mu) ==
  Array([r \in Columns |->
     unpack_mask(squeeze_new(absorb(absorb(H, rho),
                                    to_le_bytes((mu + r) % (U16_MAX + 1))), SampleSize))])
-----------------------------------------------------------------------------
(* The next byte of the sponge that is at most i, and the sponge after it. *)
draw(ctx, i) ==
  LET at[p \in Nat] ==
        IF squeeze([ctx EXCEPT !.pos = p], 1).bytes[1] <= i THEN p ELSE at[p + 1]
      p == at[ctx.pos]
  IN squeeze([ctx EXCEPT !.pos = p], 1)

(* A broken move, made after the sign was placed. *)
place_late(c, i, j, sign) == [c EXCEPT ![i] = sign, ![j] = sign]

(* What was at j moves to i, and j gets a sign. *)
place(c, i, j, sign) == [c EXCEPT ![i] = c[j], ![j] = sign]

(* The last place that step n of the shuffle may swap with. *)
top(n) == N - TAU + n - 1

(* A shuffle from the back: the polynomial and the sponge after each step. *)
shuffle(rho) ==
  LET signs == squeeze(absorb(H, rho), 8)
      step[n \in 0 .. TAU] ==
        IF n = 0 THEN [c |-> ZeroPoly, ctx |-> signs.ctx]
        ELSE LET p == step[n - 1]
                 d == draw(p.ctx, top(n))
             IN [c |-> place(p.c, top(n), d.bytes[1],
                             IF bit_set(signs.bytes, n - 1) THEN Q - 1 ELSE 1),
                 ctx |-> d.ctx]
  IN step

sample_in_ball(rho) == shuffle(rho)[TAU].c
=============================================================================
