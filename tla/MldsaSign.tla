----------------------------- MODULE MldsaSign -----------------------------
(***************************************************************************)
(* Callers of crypto_sign and crypto_sign_open of ML-DSA-44.  A signer's    *)
(* call is one step per pass of the rejection loop.  Which pass is rejected *)
(* by which check is what the mask decides: fate records it once it is      *)
(* known, so a mask met again ends the same way.                            *)
(*                                                                          *)
(* released is a history variable: the calls that returned 0, with the      *)
(* bytes the caller got.  last is the last call of open or verify.          *)
(***************************************************************************)
EXTENDS MldsaScheme

CONSTANTS Signers, Messages, Contexts,
          Rnd,         \* what randombytes may leave in rnd, when it fails too
          Fates,       \* the outcomes of passes to explore
          MaxReleased  \* bound on the calls of crypto_sign

ASSUME SignConstants ==
  /\ Messages \subseteq Seq(Byte)
  /\ Contexts \subseteq Seq(Byte)
  /\ Fates \subseteq Outcomes

VARIABLES call, fate, released, last

vars == << call, fate, released, last >>

Idle == [pc |-> "idle"]
NoCall == [api |-> "none"]

Init ==
  /\ call = [p \in Signers |-> Idle]
  /\ fate = << >>
  /\ released = {}
  /\ last = NoCall
-----------------------------------------------------------------------------
keys(p) == crypto_sign_keypair(call[p].seed)

(* What is hashed is the message where it was moved to. *)
moved(p) == SubSeq(call[p].sm, CRYPTO_BYTES + 1, Len(call[p].sm))
mu(p) == message_hash(keys(p).sk.tr, moved(p), call[p].ctx)
seed_of(p) == rhoprime(keys(p).sk, call[p].rnd, mu(p))
pass_mask(p) == mask(seed_of(p), call[p].nonce)

(* crypto_sign_ctx up to the loop: the message is moved behind the signature, *)
(* then the context is checked; smlen grows by mlen whatever happened.        *)
Sign(p, seed, m, ctx, rnd, inplace) ==
  /\ call[p].pc = "idle"
  /\ Cardinality({q \in Signers : call[q].pc # "idle"}) < MaxReleased
  /\ LET ok == Len(ctx) <= UINT8 - 1
     IN call' = [call EXCEPT ![p] =
          [pc |-> IF ok THEN "signing" ELSE "failed",
           seed |-> seed, m |-> m, ctx |-> ctx, rnd |-> rnd, nonce |-> 0,
           sm |-> crypto_sign_copy(m, inplace),
           smlen |-> IF ok THEN 0 ELSE Len(m)]]
  /\ UNCHANGED << fate, released, last >>

Learn(y, o) == [x \in DOMAIN fate \cup {y} |-> IF x = y THEN o ELSE fate[x]]

(* A broken counter stays where it is. *)
next_nonce_stuck(nonce) == nonce

next_nonce(nonce) == (nonce + 1) % NONCE

(* One pass from rej: to the next goto rej, or to the return. *)
Pass(p, o) ==
  LET c == call[p]
      y == pass_mask(p)
      sm == end_pass(c.sm, mu(p), y, keys(p).sk, o)
      smlen == CRYPTO_BYTES + Len(c.m)
  IN /\ c.pc = "signing"
     /\ y \in DOMAIN fate => o = fate[y]
     /\ fate' = Learn(y, o)
     /\ IF rejected(o)
        THEN /\ call' = [call EXCEPT ![p].sm = sm, ![p].nonce = next_nonce(c.nonce)]
             /\ UNCHANGED released
        ELSE /\ call' = [call EXCEPT ![p].sm = sm, ![p].smlen = smlen, ![p].pc = "done"]
             /\ released' = released \cup
                  {[pk |-> keys(p).pk, ctx |-> c.ctx, m |-> c.m, y |-> y,
                    rnd |-> c.rnd, seed |-> c.seed, sm |-> SubSeq(sm, 1, smlen)]}
     /\ UNCHANGED last

(* Signed messages on their way: whole, cut short, followed by one byte more, *)
(* or with one cell taken from another.                                       *)
Presented ==
  UNION {{SubSeq(r.sm, 1, n) : n \in 0 .. Len(r.sm)}
         \cup {Append(r.sm, b) : b \in Byte}
         \cup {[r.sm EXCEPT ![i] = s.sm[i]] :
               s \in released, i \in 1 .. CRYPTO_BYTES} : r \in released}

(* open and verify keep no state: one call of them in a behaviour shows what  *)
(* each of many would.                                                        *)
Open(sm, ctx, pk, inplace) ==
  LET r == crypto_sign_open_ctx(sm, ctx, pk, inplace)
  IN /\ last = NoCall
     /\ last' = [api |-> "open", sm |-> sm, ctx |-> ctx, pk |-> pk,
                 ok |-> r.ok, m |-> r.m, mlen |-> r.mlen]
     /\ UNCHANGED << call, fate, released >>

(* A signature of siglen cells on its own, over some message. *)
Verify(sig, m, ctx, pk) ==
  /\ last = NoCall
  /\ last' = [api |-> "verify", sm |-> sig \o m, siglen |-> Len(sig), ctx |-> ctx, pk |-> pk,
              ok |-> crypto_sign_verify_ctx(sig, Len(sig), m, ctx, pk)]
  /\ UNCHANGED << call, fate, released >>

Pks == {crypto_sign_keypair(s).pk : s \in Seeds}

NextSign == \E p \in Signers, s \in Seeds, m \in Messages, ctx \in Contexts, rnd \in Rnd,
               inplace \in BOOLEAN : Sign(p, s, m, ctx, rnd, inplace)
NextPass == \E p \in Signers, o \in Fates : Pass(p, o)
NextOpen == \E sm \in Presented, ctx \in Contexts, pk \in Pks, inplace \in BOOLEAN :
               Open(sm, ctx, pk, inplace)
NextVerify == \E sm \in Presented, m \in Messages, ctx \in Contexts, pk \in Pks :
                \E n \in 0 .. Len(sm) : Verify(SubSeq(sm, 1, n), m, ctx, pk)

Next == NextSign \/ NextPass \/ NextOpen \/ NextVerify

Spec == Init /\ [][Next]_vars

(* A call under way goes on: nothing in the loop waits. *)
FairSpec == Spec /\ \A p \in Signers : WF_vars(\E o \in Fates : Pass(p, o))
-----------------------------------------------------------------------------
Begun == {p \in Signers : call[p].pc # "idle"}

SignedAs(sm, ctx, pk) == {r \in released : r.sm = sm /\ r.ctx = ctx /\ r.pk = pk}

(* open gives back the message that was signed, from exactly the bytes that a *)
(* signer returned, under its key and its context; whatever else it is given, *)
(* it leaves nothing but zeros and the length 0.  This holds for messages     *)
(* longer than a signature, moved inside one buffer by crypto_sign_ctx and    *)
(* crypto_sign_open_ctx, and at the longest context                           *)
(* (crypto_sign_signature_ctx, crypto_sign_verify_ctx).                       *)
OpenExact ==
  last.api = "open" =>
    LET signed == SignedAs(last.sm, last.ctx, last.pk)
    IN /\ last.ok = (signed # {})
       /\ last.ok => \A r \in signed : SubSeq(last.m, 1, last.mlen) = r.m
       /\ ~ last.ok => last.mlen = 0 /\ \A i \in 1 .. Len(last.sm) : last.m[i] = Zero

(* A detached signature verifies over exactly the message, context and key it *)
(* was made for, and at its whole length (crypto_sign_verify_ctx).            *)
VerifyExact ==
  last.api = "verify" =>
    last.ok = (last.siglen = CRYPTO_BYTES /\ SignedAs(last.sm, last.ctx, last.pk) # {})

(* Two signatures that left their signers under one mask are one signature,   *)
(* even when randombytes repeats itself or fails unnoticed: rhoprime is       *)
(* derived from the message too, and each pass moves on to another mask       *)
(* (crypto_sign_signature_ctx, polyvecl_uniform_gamma1).                      *)
NoMaskReuse ==
  \A r, s \in released : r.y = s.y => SubSeq(r.sm, 1, CRYPTO_BYTES) = SubSeq(s.sm, 1, CRYPTO_BYTES)

(* sig is scratch memory during the loop, and it is the caller's: a response  *)
(* to a challenge is in there only if its pass was accepted                   *)
(* (crypto_sign_signature_ctx, the checks before pack_sig).                   *)
RejectedStaySecret ==
  \A p \in Begun : \A i \in DOMAIN call[p].sm :
    IsCell(call[p].sm[i], "z") => /\ call[p].sm[i].y \in DOMAIN fate
                                  /\ fate[call[p].sm[i].y] = "accept"

(* The C loop and the Rust loop sign a request under the same mask            *)
(* (the goto loop of crypto_sign_signature_ctx, raw_sign_mu of signing.rs).   *)
TwinsAgree ==
  \A r \in released :
    LET sk == crypto_sign_keypair(r.seed).sk
        out == {y \in DOMAIN fate : rejected(fate[y])}
    IN raw_sign_mu(sk, r.rnd, message_hash(sk.tr, r.m, r.ctx), out) = {r.y}

MasksLeft(p) ==
  {n \in 0 .. NONCE - 1 : LET y == mask(seed_of(p), n)
                          IN y \in DOMAIN fate => ~ rejected(fate[y])}

(* A call ends unless every mask its counter can reach has been rejected; the *)
(* C loop then goes round for ever (nonce++ in crypto_sign_signature_ctx).    *)
SigningEnds ==
  \A p \in Signers :
    call[p].pc = "signing" ~> (call[p].pc = "done" \/ (call[p].pc = "signing" /\ MasksLeft(p) = {}))
=============================================================================
