---------------------------- MODULE MCMldsaRust ----------------------------
(***************************************************************************)
(* ml-dsa-0.1.1 over a field of 769 elements and polynomials of 8           *)
(* coefficients.  The sponge is a small mixing function, whose matrix       *)
(* stream and challenge stream are skewed so that the candidates of a small *)
(* field are often acceptable.                                              *)
(***************************************************************************)
EXTENDS MldsaRust, MldsaSets, TLC

(* Two lanes over the input, eight bytes after eight: a recursion as deep as  *)
(* the longest input is too deep for TLC.                                     *)
MCShake(function, input) ==
  LET mixed(p, b) == << (p[1] * 251 + b + 1) % 46337, (p[2] * 4093 + b * 7 + p[1]) % 46327 >>
      block(p, n) ==
        LET s[i \in 8 * (n - 1) .. Len(input)] ==
              IF i = 8 * (n - 1) THEN p ELSE mixed(s[i - 1], input[i])
        IN s[IF 8 * n < Len(input) THEN 8 * n ELSE Len(input)]
      lanes[n \in 0 .. (Len(input) + 7) \div 8] ==
        IF n = 0 THEN IF function = "G" THEN << 17, 29 >> ELSE << 23, 31 >>
        ELSE CHOOSE d \in {block(p, n) : p \in {lanes[n - 1]}} : TRUE
      d == lanes[(Len(input) + 7) \div 8]
  IN [a |-> d[1], b |-> d[2],
      stream |-> IF function = "G" THEN "matrix"
                 ELSE IF Len(input) = Lambda THEN "challenge" ELSE "plain"]

MCShakeByte(digest, pos) ==
  LET x == (digest.a + 7919 * (pos + 1)) % 46337
      y == (x * x + digest.b) % 46337
      z == (((y * y) % 46337) + x + digest.b) % 46337
  IN CASE digest.stream = "matrix" /\ pos % 3 = 2 ->
            IF z % 8 = 0 THEN 1 ELSE IF z % 2 = 0 THEN 128 ELSE 0
       [] digest.stream = "matrix" /\ pos % 3 = 1 -> z % 4
       [] digest.stream = "challenge" /\ pos >= 8 -> z % 12
       [] OTHER -> (z \div 3) % 256

Request(route, random, rng, ctx, parts, ok) ==
  [route |-> route, random |-> random, rng |-> rng, ctx |-> ctx, parts |-> parts,
   ok |-> ok]

Rnd == << 3, 4 >>
None == << >>
LongContext == [n \in 1 .. 256 |-> 1]

MCSignRequests ==
  { Request("plain", FALSE, None, None, << << 7 >>, << 8 >> >>, TRUE),
    Request("plain", TRUE, Rnd, None, << << 7 >> >>, TRUE),
    Request("context", FALSE, None, << 7 >>, << << 8 >> >>, TRUE),
    Request("context", TRUE, Rnd, << 7 >>, << << 8 >> >>, TRUE),
    Request("context", TRUE, RngFails, << 7 >>, << << 8 >> >>, TRUE),
    Request("context", FALSE, None, LongContext, << << 8 >> >>, TRUE),
    Request("digest", FALSE, None, None, << << 7 >>, << 8 >> >>, TRUE),
    Request("digest", FALSE, None, None, << << 7 >> >>, FALSE),
    Request("digest", TRUE, Rnd, None, << << 7 >> >>, TRUE),
    Request("mu", FALSE, None, << 7 >>, << << 8 >> >>, TRUE),
    Request("mu", TRUE, Rnd, << 7 >>, << << 8 >> >>, TRUE),
    Request("mu", TRUE, RngFails, << 7 >>, << << 8 >> >>, TRUE),
    Request("mu", FALSE, None, LongContext, << << 8 >> >>, TRUE),
    Request("internal", TRUE, Rnd, None, << << 0, 1, 7 >>, << 8 >> >>, TRUE) }

MCVerifyRequests ==
  { Request("plain", FALSE, None, None, << << 7 >>, << 8 >> >>, TRUE),
    Request("plain", FALSE, None, None, << << 7 >> >>, TRUE),
    Request("context", FALSE, None, << 7 >>, << << 8 >> >>, TRUE),
    Request("context", FALSE, None, LongContext, << << 8 >> >>, TRUE),
    Request("digest", FALSE, None, None, << << 7, 8 >> >>, TRUE),
    Request("digest", FALSE, None, None, << << 7, 8 >> >>, FALSE),
    Request("mu", FALSE, None, << 7 >>, << << 8 >> >>, TRUE),
    Request("mu", FALSE, None, LongContext, << << 8 >> >>, TRUE),
    Request("internal", FALSE, None, None, << << 0, 1, 7, 8 >> >>, TRUE) }

MCSeeds == { << 1, 5 >>, << 1, 2 >> }

MCPkcs8Documents ==
  LET good == to_pkcs8_der([seed |-> << 1, 5 >>])
  IN { good, [good EXCEPT !.oid = "another"], [good EXCEPT !.tag = 1],
       [good EXCEPT !.value = << 1 >>], [good EXCEPT !.value = << 1, 2, 3 >>],
       [good EXCEPT !.trailing = TRUE] }

(* A key as exported, one with the hash of another key, one with a low part   *)
(* of another, one out of range.                                              *)
MCExpandedKeys ==
  LET bytes == to_expanded(from_seed(<< 1, 5 >>).expanded_key)
  IN { bytes, [bytes EXCEPT ![2 * B32 + 1] = (@ + 1) % 256],
       [bytes EXCEPT ![SigningKeySize] = (@ + 128) % 256],
       [bytes EXCEPT ![2 * B32 + B64 + 1] = 255] }

MCOtherKey == vk_encode(from_seed(<< 9, 9 >>).verifying_key)

(* Nothing; a byte of the challenge, of the response and of the hint's        *)
(* padding; a response out of range.                                          *)
MCAlterations ==
  { << >>, (1 :> 0), (Lambda + 3 :> 77), (Lambda + ZSize + Omega :> 1),
    [n \in Lambda + 1 .. Lambda + 9 |-> 0] }
=============================================================================
