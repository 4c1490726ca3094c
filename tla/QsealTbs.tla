------------------------------ MODULE QsealTbs ------------------------------
(***************************************************************************)
(* The Q-SEAL transcripts TBS-V1 and TBS-V2, the applet's validation gate   *)
(* and CREATE_ASSERTION (qseal/ref, and their twins in qseal/demo/src).     *)
(*                                                                          *)
(* Field values are opaque but for the enumerations the gate checks, which  *)
(* are numbers.  A request and an applet identity are records over disjoint *)
(* fields, a decoded transcript one over both.  Encoded bytes are the tuple *)
(* of the magic and the fields in wire order: every field has a fixed width *)
(* and offset, and no operation reads part of one.                          *)
(***************************************************************************)
EXTENDS Naturals, Sequences, SequencesExt

RequestFields ==
  { "suite_id", "assertion_type", "assertion_origin", "verifier_id",
    "request_id", "nonce", "policy_id", "expires_at", "subject_ref",
    "object_hash_algorithm", "object_length", "object_digest",
    "associated_claim_digest" }

AppletFields == { "version", "issuer_id", "ak_id", "issued_at" }

QSEAL_MAGIC == "QSEAL"

\* The fields after the magic, in the order both serializers write them.
V1Order ==
  << "version", "suite_id", "assertion_type", "assertion_origin", "issuer_id",
     "verifier_id", "ak_id", "request_id", "nonce", "policy_id", "issued_at",
     "expires_at", "subject_ref", "object_hash_algorithm", "object_length",
     "object_digest", "associated_claim_digest" >>

\* TBS-V2 has the pair commitment directly after ak_id.
V2Order == InsertAt(V1Order, 8, "pair_commitment")

Fields(order) == { order[i] : i \in DOMAIN order }

Encode(order, t) ==
  << QSEAL_MAGIC >> \o [i \in DOMAIN order |-> t[order[i]]]

(* A transcript without the magic leaves the caller's struct t as it was. *)
Decode(order, in, t) ==
  IF in[1] # QSEAL_MAGIC
  THEN [ ok |-> FALSE, t |-> t ]
  ELSE [ ok |-> TRUE,
         t |-> [ f \in Fields(order) |->
                   in[1 + CHOOSE i \in DOMAIN order : order[i] = f] ] ]

(* The aliased serializer of tbs_v1.c: issuer_id in the verifier_id slot. *)
qseal_tbs_serialize_aliased(t) ==
  Encode(V1Order, [t EXCEPT !.verifier_id = t.issuer_id])

(* The serializer of tbs_v2.c that leaves the commitment's slot zero. *)
qseal_tbs_v2_serialize_nocommit(t) ==
  Encode(V2Order, [t EXCEPT !.pair_commitment = << "zeros" >>])

qseal_tbs_serialize(t) == Encode(V1Order, t)
qseal_tbs_parse(in, t) == Decode(V1Order, in, t)
qseal_tbs_v2_serialize(t) == Encode(V2Order, t)
qseal_tbs_v2_parse(in, t) == Decode(V2Order, in, t)

-----------------------------------------------------------------------------
HYB_1 == 1
SHA_256 == 1
PROFILE_ACTION_OBSERVED == 4

qseal_validate_request(r, a) ==
  /\ a.version = 1
  /\ r.suite_id = HYB_1
  /\ r.assertion_type \in 1..6 \ {PROFILE_ACTION_OBSERVED}
  /\ r.assertion_origin \in 1..3
  /\ r.object_hash_algorithm = SHA_256

(* Challenge fields from the request, identity and clock from the applet. *)
qseal_create_assertion(r, a) ==
  qseal_tbs_serialize(
    [ f \in RequestFields \cup AppletFields |->
        IF f \in AppletFields THEN a[f] ELSE r[f] ])

create_assertion_v2(r, a, pair_commitment) ==
  qseal_tbs_v2_serialize(
    [ f \in RequestFields \cup AppletFields \cup {"pair_commitment"} |->
        IF f = "pair_commitment" THEN pair_commitment
        ELSE IF f \in AppletFields THEN a[f] ELSE r[f] ])

ZeroBytes == << "zeros" >>

(* A malformed request zeroes the output and is not signed. *)
qseal_create_assertion_checked(r, a) ==
  IF qseal_validate_request(r, a)
  THEN [ ok |-> TRUE, out |-> qseal_create_assertion(r, a) ]
  ELSE [ ok |-> FALSE, out |-> ZeroBytes ]
=============================================================================
