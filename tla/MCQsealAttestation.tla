------------------------- MODULE MCQsealAttestation -------------------------
(***************************************************************************)
(* Requests of qseal/demo/src/main.rs and their variants: its sample        *)
(* request, a second challenge, the same request_id under another nonce,    *)
(* and one request for every way to be malformed.                           *)
(***************************************************************************)
EXTENDS QsealAttestation

Sample ==
  [ suite_id |-> 1, assertion_type |-> 1, assertion_origin |-> 1,
    verifier_id |-> 1, request_id |-> 1, nonce |-> 1, policy_id |-> 7,
    expires_at |-> 60, subject_ref |-> 2, object_hash_algorithm |-> 1,
    object_length |-> 42, object_digest |-> 17, associated_claim_digest |-> 34 ]

OtherNonce == [ Sample EXCEPT !.nonce = 2 ]
OtherVerifier == [ Sample EXCEPT !.verifier_id = 2 ]

(* Validation: every enumeration at its edges. *)
EdgeRequests ==
  { [Sample EXCEPT !.suite_id = x] : x \in {1, 2} }
  \cup { [Sample EXCEPT !.assertion_type = x] : x \in 0..7 }
  \cup { [Sample EXCEPT !.assertion_origin = x] : x \in 0..4 }
  \cup { [Sample EXCEPT !.object_hash_algorithm = x] : x \in 0..2 }
  \cup { OtherVerifier }

(* Transport: two challenges, each asked for again and again, over one store. *)
TransportRequests == { Sample, OtherNonce }

KeysOf(R) == { << r.verifier_id, r.request_id, r.nonce >> : r \in R }
                \cup { << 0, 0, 0 >> }
SigningKeys == KeysOf({Sample, OtherVerifier})
TransportKeys == KeysOf(TransportRequests)

(* With the applet clock at 1: the demo's tampered transcript, a forged ECDSA *)
(* half over it, and the ML-DSA half by another key, over both transcripts.   *)
SampleTbs == qseal_create_assertion(Sample,
  [ version |-> 1, issuer_id |-> 101, ak_id |-> 102, issued_at |-> 1 ])
TamperedTbs == [ SampleTbs EXCEPT ![11] = 99 ]
MCForeign ==
  { [ seq |-> 0, total |-> 3, data |-> TamperedTbs ],
    [ seq |-> 1, total |-> 3, data |-> << "ecdsa", 102, TamperedTbs >> ],
    [ seq |-> 2, total |-> 3, data |-> << "mldsa", 666, SampleTbs >> ],
    [ seq |-> 2, total |-> 3, data |-> << "mldsa", 666, TamperedTbs >> ] }
Nothing == {}
=============================================================================
