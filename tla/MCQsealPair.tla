---------------------------- MODULE MCQsealPair -----------------------------
(***************************************************************************)
(* Two applets under one name, every pair of their keys certified, and the  *)
(* demo's sample request put to both.                                       *)
(***************************************************************************)
EXTENDS QsealPair

CONSTANTS appletA, appletB

MCApplets == {appletA, appletB}
MCCertified == [ ec : MCApplets, ml : MCApplets ]
MCAppletId == [ a \in MCApplets |-> << 101, 102 >> ]

Sample ==
  [ suite_id |-> 1, assertion_type |-> 1, assertion_origin |-> 1,
    verifier_id |-> 1, request_id |-> 1, nonce |-> 1, policy_id |-> 7,
    expires_at |-> 60, subject_ref |-> 2, object_hash_algorithm |-> 1,
    object_length |-> 42, object_digest |-> 17, associated_claim_digest |-> 34 ]
MCRequests == { Sample }
=============================================================================
