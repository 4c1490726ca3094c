---------------------------- MODULE MldsaScheme ----------------------------
(***************************************************************************)
(* The functions of target/pqclean/sign.c and of the Rust signer            *)
(* (ml-dsa-0.1.1), over ideal hashes and an ideal lattice: a hash is the    *)
(* record of what was absorbed, and what an algebraic equation decides is   *)
(* decided by comparing the terms that went into it.                        *)
(*                                                                          *)
(* Memory is counted in cells, records of some kind.  A signature has       *)
(* three: the challenge hash ctilde, the response z and the hint h.  A byte *)
(* of a message or a context has one.                                       *)
(***************************************************************************)
EXTENDS Naturals, Sequences, FiniteSetsExt

CONSTANTS Seeds,    \* what randombytes may yield for a key pair
          Byte,     \* bytes of messages and contexts
          Zero,     \* the byte 0
          Old,      \* a byte that an output buffer holds before the call
          L,        \* polynomials in a mask
          NONCE,    \* values of a uint16_t, 2^16 in the code
          UINT8     \* values of a uint8_t, 256 in the code

ASSUME MldsaConstants ==
  /\ {Zero, Old} \subseteq Byte
  /\ \A b \in Byte : b.kind = "byte"
  /\ L \in Nat \ {0, 1}
  /\ NONCE \in Nat \ {0}
  /\ UINT8 \in Nat \ {0}

(* L = 4 in this parameter set: masks are aligned in the range of the counter. *)
ASSUME LDividesNonce == NONCE % L = 0

CRYPTO_BYTES == 3

(* K * POLYW1_PACKEDBYTES: the packed commitment is longer than ctilde. *)
W1_BYTES == 2

Outcomes == {"accept", "z", "w0", "ct0", "hint"}

IsCell(cell, kind) == cell.kind = kind
-----------------------------------------------------------------------------
(* Everything in a key pair is expanded from one seed. *)
crypto_sign_keypair(seed) ==
  LET pk == [t1 |-> seed]
  IN [pk |-> pk, sk |-> [tr |-> [crh |-> pk], key |-> [k |-> seed], s1 |-> seed]]

(* A broken message_hash, with the length byte of the context left out. *)
message_hash_unframed(tr, m, ctx) == [tr |-> tr, in |-> << 0 >> \o ctx \o m]

message_hash(tr, m, ctx) == [tr |-> tr, in |-> << 0, Len(ctx) % UINT8 >> \o ctx \o m]

(* A broken rhoprime, derived from the randomness and not from the message. *)
rhoprime_message_free(sk, rnd, mu) == [key |-> sk.key, rnd |-> rnd]

rhoprime(sk, rnd, mu) == [key |-> sk.key, rnd |-> rnd, mu |-> mu]

(* The counters the polynomials of the mask of one pass are expanded from. *)
uniform_gamma1(nonce) == [i \in 1 .. L |-> (L * nonce + (i - 1)) % NONCE]

mask(seed, nonce) == [seed |-> seed, kappa |-> uniform_gamma1(nonce)]

(* The high bits of A y, cut into the cells they are packed to. *)
pack_w1(y) == [i \in 1 .. W1_BYTES |-> [kind |-> "w1", y |-> y, part |-> i]]

challenge(mu, w1) == [kind |-> "c", mu |-> mu, w1 |-> w1]

(* z = y + c s1. *)
response(y, c, sk, o) ==
  [kind |-> "z", y |-> y, c |-> c, s1 |-> sk.s1, short |-> o # "z"]

(* A hint is exact if the low bits were in range before and after ct0. *)
make_hint(y, c, o) ==
  [kind |-> "h", y |-> y, c |-> c, exact |-> o \notin {"w0", "ct0"}, light |-> o # "hint"]

rejected(o) == o \in {"z", "w0", "ct0", "hint"}

(* sig with the cells of one pass: w1 first, ctilde over its beginning. *)
commit_pass(sm, mu, y) ==
  LET w1 == pack_w1(y)
      c == challenge(mu, w1)
  IN [i \in 1 .. Len(sm) |-> IF i = 1 THEN c ELSE IF i <= W1_BYTES THEN w1[i] ELSE sm[i]]

pack_sig(sm, z, h) == [sm EXCEPT ![2] = z, ![3] = h]

(* A broken end of a pass: the signature is packed before the checks. *)
end_pass_packed(sm, mu, y, sk, o) ==
  LET buf == commit_pass(sm, mu, y)
  IN pack_sig(buf, response(y, buf[1], sk, o), make_hint(y, buf[1], o))

(* What sig holds when a pass has ended in o. *)
end_pass(sm, mu, y, sk, o) ==
  LET buf == commit_pass(sm, mu, y)
  IN IF rejected(o) THEN buf
     ELSE pack_sig(buf, response(y, buf[1], sk, o), make_hint(y, buf[1], o))
-----------------------------------------------------------------------------
(* A loop that moves n cells of a buffer, from src + i to dst + i, for the    *)
(* offsets i in the order given.                                              *)
MoveCells(buf, src, dst, order) ==
  LET after[i \in 0 .. Len(order)] ==
        IF i = 0 THEN buf
        ELSE [after[i - 1] EXCEPT ![dst + order[i]] = after[i - 1][src + order[i]]]
  IN after[Len(order)]

(* A broken order for a copy to higher addresses. *)
Downward_swapped(n) == [i \in 1 .. n |-> i]

Downward(n) == [i \in 1 .. n |-> n + 1 - i]
Upward(n) == [i \in 1 .. n |-> i]

(* The first loop of crypto_sign_ctx.  In place, m is the beginning of sm. *)
crypto_sign_copy(m, inplace) ==
  LET olds(n) == [i \in 1 .. n |-> Old]
  IN IF inplace THEN MoveCells(m \o olds(CRYPTO_BYTES), 0, CRYPTO_BYTES, Downward(Len(m)))
     ELSE olds(CRYPTO_BYTES) \o m

use_hint(z, h, c, pk) ==
  IF z.y = h.y /\ z.c = c /\ h.c = c /\ h.exact /\ z.s1 = pk.t1
  THEN pack_w1(z.y) ELSE << >>

unpack_sig(sig) == IsCell(sig[2], "z") /\ IsCell(sig[3], "h") /\ sig[3].light

crypto_sign_verify_ctx(sig, siglen, m, ctx, pk) ==
  /\ Len(ctx) <= UINT8 - 1
  /\ siglen = CRYPTO_BYTES
  /\ unpack_sig(sig)
  /\ sig[2].short
  /\ sig[1] = challenge(message_hash([crh |-> pk], m, ctx), use_hint(sig[2], sig[3], sig[1], pk))

(* crypto_sign_open: m is a buffer of smlen cells, or sm itself. *)
crypto_sign_open_ctx(sm, ctx, pk, inplace) ==
  LET smlen == Len(sm)
      mlen == smlen - CRYPTO_BYTES
      out == IF inplace THEN sm ELSE [i \in 1 .. smlen |-> Old]
      moved == IF inplace THEN MoveCells(sm, CRYPTO_BYTES, 0, Upward(mlen))
               ELSE [i \in 1 .. smlen |-> IF i <= mlen THEN sm[CRYPTO_BYTES + i] ELSE out[i]]
  IN IF /\ smlen >= CRYPTO_BYTES
        /\ crypto_sign_verify_ctx(SubSeq(sm, 1, CRYPTO_BYTES), CRYPTO_BYTES,
                                  SubSeq(sm, CRYPTO_BYTES + 1, smlen), ctx, pk)
     THEN [ok |-> TRUE, m |-> moved, mlen |-> mlen]
     ELSE [ok |-> FALSE, m |-> [i \in 1 .. smlen |-> Zero], mlen |-> 0]
-----------------------------------------------------------------------------
(* The Rust signer.  The counter of a pass is that of its first polynomial,   *)
(* and the loop ends before the largest 16-bit value.                         *)
expand_mask(seed, kappa) == [seed |-> seed, kappa |-> [r \in 1 .. L |-> kappa + (r - 1)]]

(* A broken range that leaves out the last multiple of L. *)
kappas_short(last) == {k \in 0 .. last - L : k % L = 0}

kappas(last) == {k \in 0 .. last : k % L = 0}

(* The masks a call signs under, when the masks in out are those whose pass   *)
(* is rejected: that of the first pass left, or none when the loop runs out   *)
(* and panics.                                                                *)
raw_sign_mu(sk, rnd, mu, out) ==
  LET seed == rhoprime(sk, rnd, mu)
      left == {k \in kappas(NONCE - 2) : expand_mask(seed, k) \notin out}
  IN IF left = {} THEN {} ELSE {expand_mask(seed, Min(left))}
=============================================================================
