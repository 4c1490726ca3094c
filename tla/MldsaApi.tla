------------------------------ MODULE MldsaApi ------------------------------
(***************************************************************************)
(* Signing and verifying of ml-dsa-0.1.1 (signing.rs, verifying.rs, lib.rs).*)
(* Every route in gives the mu and the rnd of the call or is refused; the   *)
(* rejection loop follows, a pass at a time.  A message comes in parts.     *)
(***************************************************************************)
EXTENDS MldsaKeys, MldsaHint

(* The streams the callers of a closure or a generator may meet. *)
RngFails == << >>
Zeros == [n \in 1 .. B32 |-> 0]
-----------------------------------------------------------------------------
absorb_all(ctx, parts) ==
  LET after[n \in 0 .. Len(parts)] ==
        IF n = 0 THEN ctx ELSE absorb(after[n - 1], parts[n])
  IN after[Len(parts)]

(* A broken header, without the length of the context. *)
mu_new_unframed(tr, ctx) == absorb(absorb(absorb(H, tr), << 0 >>), ctx)

(* MuBuilder.  The length is truncated to a byte. *)
mu_new(tr, ctx) ==
  absorb(absorb(absorb(absorb(H, tr), << 0 >>), << Len(ctx) % 256 >>), ctx)

mu_message(builder, M) == squeeze_new(absorb_all(builder, M), B64)
mu_internal(tr, Mp) == squeeze_new(absorb_all(absorb(H, tr), Mp), B64)

(* The closure of a digest writes parts into the builder, then may fail. *)
mu_digest(tr, parts, ok) ==
  IF ok THEN [mu |-> mu_message(mu_new(tr, << >>), parts)] ELSE Refused

(* The length of the context is not looked at. *)
compute_mu(vk, parts, ok, ctx) ==
  IF ok THEN [mu |-> mu_message(mu_new(vk.tr, ctx), parts)] ELSE Refused
-----------------------------------------------------------------------------
sign_mu_deterministic(mu) == [mu |-> mu, rnd |-> Zeros]

sign_mu_randomized(mu, rng) ==
  IF rng = RngFails THEN Refused ELSE [mu |-> mu, rnd |-> rng]

raw_sign_deterministic(esk, Mp, ctx) ==
  IF Len(ctx) > 255 THEN Refused
  ELSE sign_mu_deterministic(mu_message(mu_new(esk.tr, ctx), Mp))

raw_sign_randomized(esk, Mp, ctx, rng) ==
  IF Len(ctx) > 255 \/ rng = RngFails THEN Refused
  ELSE [mu |-> mu_message(mu_new(esk.tr, ctx), Mp), rnd |-> rng]

sign_internal(esk, Mp, rnd) == [mu |-> mu_internal(esk.tr, Mp), rnd |-> rnd]

try_sign_digest(esk, parts, ok) ==
  IF ok THEN sign_mu_deterministic(mu_digest(esk.tr, parts, ok).mu) ELSE Refused

try_sign_digest_with_rng(esk, parts, ok, rng) ==
  IF ok THEN sign_mu_randomized(mu_digest(esk.tr, parts, ok).mu, rng) ELSE Refused
-----------------------------------------------------------------------------
rhopp(esk, start) ==
  squeeze_new(absorb(absorb(absorb(H, esk.K), start.rnd), start.mu), B64)

(* A broken first check, which forgets the low bits. *)
leaks_mask(z, r0) == VecNorm(z) >= GAMMA1_MINUS_BETA

leaks(z, r0) == VecNorm(z) >= GAMMA1_MINUS_BETA \/ VecNorm(r0) >= GAMMA2_MINUS_BETA

(* A broken second check, of the norm only. *)
unhintable_norm(ct0, h) == VecNorm(ct0) >= Gamma2

unhintable(ct0, h) == VecNorm(ct0) >= Gamma2 \/ hamming_weight(h) > Omega

(* One pass of the loop, from the last of its stages to the first: its values,*)
(* and whether it ends the loop.                                              *)
decide(p, z, h) ==
  [y |-> p.y, w |-> p.w, c_tilde |-> p.c_tilde, c |-> p.c, w_cs2 |-> p.w_cs2,
   ct0 |-> p.ct0,
   signature |-> [c_tilde |-> p.c_tilde, z |-> VecModPlusMinus(Q, z), h |-> h],
   accepted |-> ~leaks(z, VecLowBits(p.w_cs2)) /\ ~unhintable(p.ct0, h)]

hint(p, z) == decide(p, z, HintNew(VecNeg(p.ct0), VecAdd(p.w_cs2, p.ct0)))

times(c_hat, v_hat) == ntt_inverse_vec(NttVecScale(c_hat, v_hat))

respond(esk, p, c_hat) ==
  hint([y |-> p.y, w |-> p.w, c_tilde |-> p.c_tilde, c |-> p.c,
        w_cs2 |-> VecSub(p.w, times(c_hat, esk.s2_hat)),
        ct0 |-> times(c_hat, esk.t0_hat)],
       VecAdd(p.y, times(c_hat, esk.s1_hat)))

challenge(esk, y, w, c_tilde, c) ==
  respond(esk, [y |-> y, w |-> w, c_tilde |-> c_tilde, c |-> c], ntt(c))

commit(esk, mu, y, w) ==
  LET c_tilde == squeeze_new(absorb(absorb(H, mu), encode_w1(VecHighBits(w))), Lambda)
  IN challenge(esk, y, w, c_tilde, sample_in_ball(c_tilde))

signing_pass(esk, mu, seed, kappa) ==
  LET y == expand_mask(seed, kappa)
  IN commit(esk, mu, y, Product(esk.A_hat, ntt_vec(y)))
-----------------------------------------------------------------------------
sig_encode(sigma) ==
  concat_sig(sigma.c_tilde, encode_z(sigma.z), bit_pack(sigma.h))

signature(c_tilde, z, h) ==
  IF h = NoHint \/ VecNorm(z) >= GAMMA1_MINUS_BETA THEN Refused
  ELSE [c_tilde |-> c_tilde, z |-> z, h |-> h]

(* try_from and decode: the size, then the hint and the norm. *)
sig_decode(enc) ==
  LET parts == split_sig(enc)
  IN IF Len(enc) # SignatureSize THEN Refused
     ELSE signature(parts[1], decode_z(parts[2]), bit_unpack(parts[3]))

raw_verify_mu(vk, mu, sigma) ==
  LET c_hat == ntt(sample_in_ball(sigma.c_tilde))
      Az_hat == NttMatVec(vk.A_hat, ntt_vec(sigma.z))
      wp_approx == ntt_inverse_vec(NttVecSub(Az_hat, NttVecScale(c_hat, vk.t1_2d_hat)))
      w1p == HintUse(sigma.h, wp_approx)
  IN sigma.c_tilde = squeeze_new(absorb(absorb(H, mu), encode_w1(w1p)), Lambda)

raw_verify_with_context(vk, M, ctx, sigma) ==
  Len(ctx) <= 255 /\ raw_verify_mu(vk, mu_message(mu_new(vk.tr, ctx), M), sigma)

verify_digest(vk, parts, ok, sigma) ==
  ok /\ raw_verify_mu(vk, mu_digest(vk.tr, parts, ok).mu, sigma)

verify_internal(vk, M, sigma) == raw_verify_mu(vk, mu_internal(vk.tr, M), sigma)
=============================================================================
