----------------------------- MODULE QsealPair ------------------------------
(***************************************************************************)
(* Pair binding (QSEAL-v0.1 7.1; qseal/demo/src/main.rs, tbs.rs): several   *)
(* applets, each with an ECDSA and an ML-DSA key, sign TBS-V1 and TBS-V2    *)
(* assertions, and verifiers check component signatures from anywhere under *)
(* the pairs of public keys that were certified to them, the right pairs    *)
(* and the wrong ones.                                                      *)
(*                                                                          *)
(* A key is named by its applet: the ECDSA and the ML-DSA key of applet a   *)
(* are both a here.  accepted is a history variable.                        *)
(***************************************************************************)
EXTENDS QsealTbs

CONSTANTS
  Applets,
  Requests,
  Certified,  \* pairs of public keys [ec, ml] verifiers take for one applet
  AppletId    \* [Applets -> << issuer_id, ak_id >>]; names may collide

ASSUME CertifiedPairs == Certified \subseteq [ ec : Applets, ml : Applets ]

VARIABLES signed,   \* set of [half, key, ctx, tbs]
          accepted  \* set of [version, pk, tbs]

vars == << signed, accepted >>

QSEAL_CTX_V2 == "Q-SEAL/v2"
EmptyCtx == ""
ZeroCommitment == << "zeros" >>

pk_of(a) == [ ec |-> a, ml |-> a ]

applet(a, version) ==
  [ version |-> version, issuer_id |-> AppletId[a][1], ak_id |-> AppletId[a][2],
    issued_at |-> 1 ]

\* SHA-256 over the domain tag and the two keys, taken as collision free.
pair_commitment(pk) == << "QSEAL-PAIR-HYB1", pk.ec, pk.ml >>

Sig(half, key, ctx, tbs) == [ half |-> half, key |-> key, ctx |-> ctx, tbs |-> tbs ]

hybrid_sign(a, tbs) ==
  { Sig("ecdsa", a, EmptyCtx, tbs), Sig("mldsa", a, EmptyCtx, tbs) }

(* A broken signer: the context string of another protocol. *)
hybrid_sign_v2_off_ctx(a, tbs) ==
  { Sig("ecdsa", a, EmptyCtx, tbs), Sig("mldsa", a, "Cap-V1", tbs) }

hybrid_sign_v2(a, tbs) ==
  { Sig("ecdsa", a, EmptyCtx, tbs), Sig("mldsa", a, QSEAL_CTX_V2, tbs) }

-----------------------------------------------------------------------------
verify_both(pk, tbs, sig_c, sig_pq) ==
  /\ sig_c = Sig("ecdsa", pk.ec, EmptyCtx, tbs)
  /\ sig_pq = Sig("mldsa", pk.ml, EmptyCtx, tbs)

Commitment(tbs) == qseal_tbs_v2_parse(tbs, << >>).t.pair_commitment

(* A broken verifier: signatures only, no recompute-and-compare. *)
verify_v2_unbound(pk, tbs, sig_c, sig_pq) ==
  /\ sig_c = Sig("ecdsa", pk.ec, EmptyCtx, tbs)
  /\ sig_pq = Sig("mldsa", pk.ml, QSEAL_CTX_V2, tbs)

verify_v2(pk, tbs, sig_c, sig_pq) ==
  /\ Commitment(tbs) = pair_commitment(pk)
  /\ sig_c = Sig("ecdsa", pk.ec, EmptyCtx, tbs)
  /\ sig_pq = Sig("mldsa", pk.ml, QSEAL_CTX_V2, tbs)

-----------------------------------------------------------------------------
v1_of(a, r) == qseal_create_assertion(r, applet(a, 1))
v2_of(a, r, commitment) == create_assertion_v2(r, applet(a, 2), commitment)

\* The commitments the demo puts into a transcript.
Commitments(a) == { pair_commitment(pk_of(a)), ZeroCommitment }

Init == signed = {} /\ accepted = {}

AssertV1(a, r) ==
  /\ signed' = signed \cup hybrid_sign(a, v1_of(a, r))
  /\ UNCHANGED accepted

AssertV2(a, r, commitment) ==
  /\ signed' = signed \cup hybrid_sign_v2(a, v2_of(a, r, commitment))
  /\ UNCHANGED accepted

(* The demo's context probe: TBS-V2 bytes signed as V1 signs. *)
ProbeV2(a, r) ==
  /\ signed' = signed \cup
       hybrid_sign(a, v2_of(a, r, pair_commitment(pk_of(a))))
  /\ UNCHANGED accepted

VerifyV1(pk, sig_c, sig_pq) ==
  /\ Len(sig_c.tbs) = 1 + Len(V1Order)
  /\ verify_both(pk, sig_c.tbs, sig_c, sig_pq)
  /\ accepted' = accepted \cup {[version |-> 1, pk |-> pk, tbs |-> sig_c.tbs]}
  /\ UNCHANGED signed

VerifyV2(pk, sig_c, sig_pq) ==
  /\ Len(sig_c.tbs) = 1 + Len(V2Order)
  /\ verify_v2(pk, sig_c.tbs, sig_c, sig_pq)
  /\ accepted' = accepted \cup {[version |-> 2, pk |-> pk, tbs |-> sig_c.tbs]}
  /\ UNCHANGED signed

Next ==
  \/ \E a \in Applets, r \in Requests :
       \/ AssertV1(a, r)
       \/ \E commitment \in Commitments(a) : AssertV2(a, r, commitment)
       \/ ProbeV2(a, r)
  \/ \E pk \in Certified, sig_c, sig_pq \in signed :
       VerifyV1(pk, sig_c, sig_pq) \/ VerifyV2(pk, sig_c, sig_pq)

Spec == Init /\ [][Next]_vars
-----------------------------------------------------------------------------
(* A TBS-V2 assertion is accepted only under a pair of keys that one applet   *)
(* holds, whatever pairs were certified and however component signatures were *)
(* peeled off and recombined; and that applet made it as a V2 assertion, its  *)
(* ML-DSA half under the reserved context (verify_v2, hybrid_sign_v2,         *)
(* pair_commitment).                                                          *)
PairBound ==
  \A acc \in accepted : acc.version = 2 =>
    \E a \in Applets : /\ acc.pk = pk_of(a)
                       /\ hybrid_sign_v2(a, acc.tbs) \subseteq signed

(* What an applet asserts in V2 with its own commitment is accepted under its *)
(* certified pair, and a transcript with the commitment zeroed under none     *)
(* (qseal_tbs_v2_serialize, verify_v2; scenario 7 of the demo).               *)
OwnAssertionAccepted ==
  \A a \in Applets, r \in Requests, pk \in Certified :
    LET takes(commitment) ==
          LET tbs == v2_of(a, r, commitment)
          IN \E sig_c, sig_pq \in signed : verify_v2(pk, tbs, sig_c, sig_pq)
    IN /\ ~takes(ZeroCommitment)
       /\ /\ pk = pk_of(a)
          /\ hybrid_sign_v2(a, v2_of(a, r, pair_commitment(pk))) \subseteq signed
          => takes(pair_commitment(pk))
=============================================================================
