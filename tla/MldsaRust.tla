----------------------------- MODULE MldsaRust -----------------------------
(***************************************************************************)
(* A holder of an ml-dsa-0.1.1 key and a verifier of its signatures, with   *)
(* bytes between them.  The holder obtains a key from a generator or from   *)
(* bytes, signs by any route, one step per pass of the rejection loop, and  *)
(* sends the encoded signature; it may arrive altered, and is verified by   *)
(* any route, under the holder's key or another.                            *)
(***************************************************************************)
EXTENDS MldsaApi

CONSTANTS Seeds,          \* what the generator yields
          Pkcs8Documents, \* private-key documents to import
          ExpandedKeys,   \* expanded keys to import
          SignRequests, VerifyRequests,
          OtherKey,       \* an encoded verifying key of somebody else
          Alterations     \* what may happen to the bytes: functions on positions

Routes == {"plain", "context", "digest", "mu", "internal"}

ASSUME KeysWellFormed ==
  /\ Seeds \subseteq [1 .. B32 -> Byte]
  /\ ExpandedKeys \subseteq [1 .. SigningKeySize -> Byte]
  /\ \A info \in Pkcs8Documents : info.value \in Seq(Byte)

ASSUME RequestsWellFormed ==
  \A q \in SignRequests \cup VerifyRequests :
    /\ q.route \in Routes
    /\ q.random \in BOOLEAN /\ q.ok \in BOOLEAN
    /\ q.rng \in {RngFails} \cup [1 .. B32 -> Byte]
    /\ q.ctx \in Seq(Byte) /\ q.parts \in Seq(Seq(Byte))

VARIABLES key,     \* the key held and where it is from
          call,    \* the signing call: its request, seed, kappa and last pass
          wire,    \* the bytes that arrived
          verdict, \* the last verification
          status   \* of the last operation

vars == << key, call, wire, verdict, status >>

NoKey == [from |-> "nowhere"]
NoCall == [request |-> "none"]
NoPass == [accepted |-> FALSE]
NoWire == [bytes |-> << >>]
NoVerdict == [ok |-> FALSE]

Init ==
  /\ key = NoKey
  /\ call = NoCall
  /\ wire = NoWire
  /\ verdict = NoVerdict
  /\ status = "ok"

Running == status # "panic"
Signing == call # NoCall /\ ~call.pass.accepted
Released == call # NoCall /\ call.pass.accepted
Passed == call # NoCall /\ call.pass # NoPass
-----------------------------------------------------------------------------
Hold(from, esk, seed, vk) ==
  /\ key' = [from |-> from, esk |-> esk, seed |-> seed, vk |-> vk]
  /\ status' = "ok"
  /\ UNCHANGED << call, wire, verdict >>

Refuse == status' = "refused" /\ UNCHANGED << key, call, wire, verdict >>
Panic == status' = "panic" /\ UNCHANGED << key, call, wire, verdict >>

HoldPair(from, sk) ==
  IF sk = Refused THEN Refuse ELSE Hold(from, sk.expanded_key, sk.seed, sk.verifying_key)

Generate(seed) == HoldPair("seed", from_seed(seed))

GenerateFails == Refuse

ImportPkcs8(info) == HoldPair("pkcs8", from_pkcs8(info))

(* There is no seed to keep. *)
HoldExpanded(esk) == Hold("expanded", esk, << >>, verifying_key(esk))

ImportExpanded(enc) ==
  IF ~ExpandedUnpackable(enc) THEN Panic ELSE HoldExpanded(from_expanded(enc))

Obtain ==
  /\ key = NoKey /\ Running
  /\ \/ \E seed \in Seeds : Generate(seed)
     \/ GenerateFails
     \/ \E info \in Pkcs8Documents : ImportPkcs8(info)
     \/ \E enc \in ExpandedKeys : ImportExpanded(enc)
-----------------------------------------------------------------------------
(* What each route hashes and draws with key k, or that it refuses. *)
Started(k, q) ==
  CASE q.route = "plain" ->
         IF q.random THEN raw_sign_randomized(k.esk, q.parts, << >>, q.rng)
         ELSE raw_sign_deterministic(k.esk, q.parts, << >>)
    [] q.route = "context" ->
         IF q.random THEN raw_sign_randomized(k.esk, q.parts, q.ctx, q.rng)
         ELSE raw_sign_deterministic(k.esk, q.parts, q.ctx)
    [] q.route = "digest" ->
         IF q.random THEN try_sign_digest_with_rng(k.esk, q.parts, q.ok, q.rng)
         ELSE try_sign_digest(k.esk, q.parts, q.ok)
    [] q.route = "mu" ->
         LET m == compute_mu(k.vk, q.parts, q.ok, q.ctx)
         IN IF m = Refused THEN Refused
            ELSE IF q.random THEN sign_mu_randomized(m.mu, q.rng)
            ELSE sign_mu_deterministic(m.mu)
    [] q.route = "internal" -> sign_internal(k.esk, q.parts, q.rng)

Enter(q, start) ==
  IF start = Refused THEN Refuse
  ELSE /\ call' = [request |-> q, mu |-> start.mu, seed |-> rhopp(key.esk, start),
                   kappa |-> 0, pass |-> NoPass]
       /\ wire' = NoWire /\ verdict' = NoVerdict /\ status' = "ok"
       /\ UNCHANGED key

Begin(q) ==
  /\ key # NoKey /\ Running /\ ~Signing
  /\ Enter(q, Started(key, q))

Pass ==
  /\ Signing /\ Running /\ call.kappa < U16_MAX
  /\ call' = [call EXCEPT !.pass = signing_pass(key.esk, call.mu, call.seed, call.kappa),
                          !.kappa = @ + L]
  /\ UNCHANGED << key, wire, verdict, status >>

(* unreachable!, which a wide kappa keeps from happening. *)
Exhausted ==
  /\ Signing /\ Running /\ call.kappa >= U16_MAX
  /\ Panic
-----------------------------------------------------------------------------
Sent == sig_encode(call.pass.signature)

(* The bytes, with those that a says in their place. *)
altered(a, bytes) ==
  [n \in 1 .. SignatureSize |-> IF n \in DOMAIN a THEN a[n] ELSE bytes[n]]

Arrive(alteration) ==
  /\ Released /\ Running /\ wire = NoWire
  /\ wire' = [bytes |-> altered(alteration, Sent)]
  /\ UNCHANGED << key, call, verdict, status >>

ArriveShort ==
  /\ Released /\ Running /\ wire = NoWire
  /\ wire' = [bytes |-> SubSeq(Sent, 1, SignatureSize - 1)]
  /\ UNCHANGED << key, call, verdict, status >>

VerifiedBy(vk, q, sigma) ==
  CASE q.route = "plain" -> raw_verify_with_context(vk, q.parts, << >>, sigma)
    [] q.route = "context" -> raw_verify_with_context(vk, q.parts, q.ctx, sigma)
    [] q.route = "digest" -> verify_digest(vk, q.parts, q.ok, sigma)
    [] q.route = "mu" -> LET m == compute_mu(vk, q.parts, q.ok, q.ctx)
                         IN m # Refused /\ raw_verify_mu(vk, m.mu, sigma)
    [] q.route = "internal" -> verify_internal(vk, q.parts, sigma)

Accepts(vk, q, sigma) == sigma # Refused /\ VerifiedBy(vk, q, sigma)

(* One verification of each arrival: it leaves everything as it was. *)
Verify(q, own) ==
  /\ wire # NoWire /\ verdict = NoVerdict /\ Running
  /\ verdict' = [request |-> q, own |-> own,
                 ok |-> Accepts(vk_decode(IF own THEN vk_encode(key.vk) ELSE OtherKey), q,
                                sig_decode(wire.bytes))]
  /\ UNCHANGED << key, call, wire, status >>

Next ==
  \/ Obtain
  \/ \E q \in SignRequests : Begin(q)
  \/ Pass
  \/ Exhausted
  \/ \E alteration \in Alterations : Arrive(alteration)
  \/ ArriveShort
  \/ \E q \in VerifyRequests, own \in BOOLEAN : Verify(q, own)

Spec == Init /\ [][Next]_vars
-----------------------------------------------------------------------------
Fresh == key # NoKey /\ call = NoCall /\ status = "ok"

(* The signed residue that x stands for. *)
signed(x) == IF x > Q \div 2 THEN x - Q ELSE x

(* The product of f and g modulo X^N + 1. *)
Convolution(f, g) ==
  LET term(i, k) == IF i <= k THEN f[i] * g[k - i] ELSE -(f[i] * g[N + k - i])
      sum(k) == LET s[n \in 0 .. N] == IF n = 0 THEN 0 ELSE s[n - 1] + term(n - 1, k)
                IN s[N]
  IN [k \in Coeff |-> sum(k) % Q]

(* f + g is h, without the code's reductions. *)
IsSum(f, g, h) == \A i \in Coeff : (f[i] + g[i]) % Q = h[i]

RowTimes(row, v) ==
  LET s[n \in 0 .. L] ==
        IF n = 0 THEN ZeroPoly
        ELSE LET p == Convolution(ntt_inverse(row[n - 1]), v[n - 1])
                 before == s[n - 1]
             IN [i \in Coeff |-> (before[i] + p[i]) % Q]
  IN s[L]

(* The transforms stand for products of polynomials: w is A y, z is y + c s1, *)
(* the low part is w - c s2 and ct0 is c t0, with products written out.  A    *)
(* root read out of turn or a stage of the wrong length breaks one of them.   *)
TransformExact ==
  Passed =>
    LET p == call.pass
        esk == key.esk
    IN /\ \A r \in Rows : p.w[r] = RowTimes(esk.A_hat[r], p.y)
       /\ \A s \in Columns :
            IsSum(p.y[s], Convolution(p.c, esk.s1[s]), p.signature.z[s])
       /\ \A r \in Rows : IsSum(p.w_cs2[r], Convolution(p.c, esk.s2[r]), p.w[r])
       /\ \A r \in Rows : p.ct0[r] = Convolution(p.c, esk.t0[r])

DecomposedExactly(x, r1, r0) ==
  /\ r1 \in 0 .. (Q - 1) \div TwoGamma2 - 1
  /\ (r1 * TwoGamma2 + r0 - x) % Q = 0
  /\ r0 \in -Gamma2 .. Gamma2 /\ (r0 = -Gamma2 => r1 = 0)

SplitExactly(x, r1, r0) ==
  r1 * 2^D + r0 = x /\ r0 \in 1 - Pow2DMinus1 .. Pow2DMinus1

(* Division without a divide instruction is exact and its remainder centered, *)
(* on every residue the loop commits to: x = r1 2 gamma2 + r0 with r0 at most *)
(* gamma2 in size, -gamma2 only where the top wraps to 0; and power2round     *)
(* splits x with r0 in the range t0 is packed in.                             *)
DivisionExact ==
  Passed =>
    \A r \in Rows, i \in Coeff :
      LET x == call.pass.w[r][i]
      IN /\ DecomposedExactly(x, high_bits(x), signed(low_bits(x)))
         /\ SplitExactly(x, power2round(x)[1], signed(power2round(x)[2]))

(* What the verifier recovers: where c t0 is within the range of the loop's   *)
(* check, the hint turns the high bits of what it can compute into those of   *)
(* w - c s2, in rejected passes as in the last.                               *)
HintRecovers ==
  Passed =>
    \A r \in Rows, i \in Coeff :
      LET low == call.pass.w_cs2[r][i]
          ct0 == call.pass.ct0[r][i]
      IN infinity_norm(ct0) < Gamma2 =>
           use_hint(call.pass.signature.h[r][i], ElemAdd(low, ct0)) = high_bits(low)

(* Signer and verifier round alike: the divisions are exact up to the topmost *)
(* residues, and the hint makes up for c t0 on every coefficient.             *)
RoundingExact == DivisionExact /\ HintRecovers
-----------------------------------------------------------------------------
(* The first N candidates of a stream, wherever the buffer ended. *)
FirstOf(cand) ==
  LET at[n \in Nat] == IF cand[n] # NoElem THEN n ELSE at[n + 1]
      nth[j \in Coeff] == IF j = 0 THEN at[0] ELSE at[nth[j - 1] + 1]
  IN [j \in Coeff |-> cand[nth[j]]]

Stream(ctx, n) == squeeze([ctx EXCEPT !.pos = n], 1).bytes[1]

Triples(ctx) ==
  [n \in Nat |-> coeff_from_three_bytes(
                   << Stream(ctx, 3 * n), Stream(ctx, 3 * n + 1), Stream(ctx, 3 * n + 2) >>)]
Nibbles(ctx) ==
  [n \in Nat |-> coeff_from_half_byte(
                   (Stream(ctx, n \div 2) \div (IF n % 2 = 0 THEN 1 ELSE 16)) % 16)]

(* The seed of the secrets: the second of three read from one stream. *)
rhoprime(seed) == squeeze_new(squeeze(absorb(H, seed \o << K, L >>), B32).ctx, B64)

(* A polynomial sampled by rejection is the first N acceptable candidates of  *)
(* one stream of its own, whether they fill the buffer or run past it: the    *)
(* matrix reads column then row after rho, the secrets are numbered on from   *)
(* s1 to s2.                                                                  *)
RejectionExact ==
  Fresh /\ key.from = "seed" =>
    LET Secret(n) == FirstOf(Nibbles(absorb(H, rhoprime(key.seed) \o << n, 0 >>)))
    IN /\ \A r \in Rows, s \in Columns :
            key.esk.A_hat[r][s] = FirstOf(Triples(absorb(G, key.esk.rho \o << s, r >>)))
       /\ \A s \in Columns : key.esk.s1[s] = Secret(s)
       /\ \A r \in Rows : key.esk.s2[r] = Secret(L + r)

(* The challenge has TAU coefficients of size one, in signing and in          *)
(* verifying, though the shuffle moves what it placed before.                 *)
ChallengeWeight ==
  Passed =>
    LET set == {i \in Coeff : call.pass.c[i] # 0}
    IN Cardinality(set) = TAU /\ \A i \in set : call.pass.c[i] \in {1, Q - 1}

(* Vectors whose coefficients are at most bound in size. *)
Short(S, bound, v) ==
  /\ v \in [S -> Polynomial]
  /\ \A r \in S, i \in Coeff : infinity_norm(v[r][i]) <= bound

(* The samplers found what they look for within the bound on squeezes: N      *)
(* coefficients of each polynomial, and a place in range at each step of the  *)
(* shuffle.                                                                   *)
Found ==
  /\ key # NoKey =>
       /\ \A r \in Rows, s \in Columns :
            Len(collect(ntt_stream(key.esk.rho, r, s), NTT_BUF, 3)) = N
       /\ key.from # "expanded" =>
            \A n \in 0 .. K + L - 1 :
              Len(collect(bounded_stream(rhoprime(key.seed), n), BOUNDED_BUF, 1)) = N
  /\ Passed =>
       LET step == shuffle(call.pass.c_tilde)
       IN \A n \in 1 .. TAU : draw(step[n - 1].ctx, top(n)).bytes[1] <= top(n)

(* What they return is in its range. *)
Sampled ==
  /\ key # NoKey =>
       /\ key.esk.A_hat \in [Rows -> [Columns -> Polynomial]]
       /\ key.from # "expanded" =>
            Short(Columns, Eta, key.esk.s1) /\ Short(Rows, Eta, key.esk.s2)
  /\ Passed => call.pass.c \in Polynomial

(* What is sampled depends on the stream alone, not on where its buffer ended,*)
(* and has the shape that the norms of the scheme rest on.                    *)
SamplersExact == Found /\ RejectionExact /\ ChallengeWeight /\ Sampled
-----------------------------------------------------------------------------
IsKey(esk, back) == back = esk /\ ct_eq(back, esk)
IsKeyPair(k, back) ==
  back # Refused /\ back.expanded_key = k.esk /\ back.verifying_key = k.vk

(* However a key came in or goes out and comes back, it is one key: the       *)
(* verifying key, its hash included, is the one its encoding and its document *)
(* give back; the expanded key is what its bytes and its document give back,  *)
(* derived parts included, and equality that skips those tells no lies.       *)
KeyRoutesAgree ==
  Fresh =>
    /\ key.vk = verifying_key(key.esk)
    /\ vk_decode(vk_encode(key.vk)) = key.vk
    /\ from_spki(to_public_key_der(key.vk)) = key.vk
    /\ IsKey(key.esk, from_expanded(to_expanded(key.esk)))
    /\ key.from # "expanded" =>
         /\ key.esk.tr = key.vk.tr
         /\ IsKeyPair(key, from_pkcs8(to_pkcs8_der([seed |-> key.seed])))

(* A key whose hash and low part are those of its own verifying key: an       *)
(* import takes both as they come.                                            *)
Sound ==
  /\ key.esk.tr = key.vk.tr
  /\ key.esk.t0 = VecPower2Round(VecAdd(Product(key.esk.A_hat, key.esk.s1_hat), key.esk.s2))[2]

(* What a request signs: the framed message M' of FIPS 204. *)
Joined(parts) ==
  LET s[n \in 0 .. Len(parts)] == IF n = 0 THEN << >> ELSE s[n - 1] \o parts[n] IN s[Len(parts)]
Content(q) ==
  CASE q.route = "internal" -> Joined(q.parts)
    [] q.route \in {"plain", "digest"} -> << 0, 0 >> \o Joined(q.parts)
    [] OTHER -> << 0, Len(q.ctx) >> \o q.ctx \o Joined(q.parts)
-----------------------------------------------------------------------------
(* What the transforms and the samplers leave in a pass are residues.         *)
Residues ==
  Passed => {call.pass.w, call.pass.w_cs2, call.pass.ct0} \subseteq [Rows -> Polynomial]

(* No encoder is handed what it cannot hold: a seed's vectors fit their       *)
(* packing, a released signature its ranges and its Omega indices, and no     *)
(* bytes that arrive trip the decoder's assertion; and what the roundings are *)
(* handed are residues.                                                       *)
AssertionsHold ==
  /\ Residues
  /\ Fresh => ExpandedPackable(key.esk)
  /\ Released => /\ packable_vec(L, Gamma1 - 1, Gamma1, call.pass.signature.z)
                 /\ hamming_weight(call.pass.signature.h) <= Omega
  /\ wire # NoWire /\ Len(wire.bytes) = SignatureSize =>
       unpackable_vec(L, Gamma1 - 1, Gamma1, split_sig(wire.bytes)[2])

CanonicalOr(y, h) ==
  IF h = NoHint THEN ~qseal_hint_canonical(y)
  ELSE qseal_hint_canonical(y) /\ bit_pack(h) = y

(* A hint has one encoding: whatever two bytes of a released one are changed  *)
(* to, bit_unpack takes it exactly when the C reference does, and what it     *)
(* takes packs to the same bytes again.                                       *)
HintCanonical ==
  Released /\ wire = NoWire =>
    LET y == split_sig(Sent)[3]
        Values(n) == IF n <= Omega THEN 0 .. N - 1 ELSE 0 .. Omega + 1
    IN \A m, n \in 1 .. HintSize : m < n =>
         \A a \in Values(m), b \in Values(n) :
           LET x == [y EXCEPT ![m] = a, ![n] = b] IN CanonicalOr(x, bit_unpack(x))

(* The routes that look at the length of a context. *)
ContextFits(q) == q.route = "context" => Len(q.ctx) <= 255

(* What is released by any route verifies by every route to the same content, *)
(* after both the signature and the key have been encoded and decoded.        *)
SignedVerifies ==
  verdict # NoVerdict /\ verdict.own /\ wire.bytes = Sent /\ Sound =>
    LET q == verdict.request
    IN q.ok /\ ContextFits(q) /\ Content(q) = Content(call.request) => verdict.ok

=============================================================================
