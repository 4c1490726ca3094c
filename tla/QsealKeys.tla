----------------------------- MODULE QsealKeys ------------------------------
(***************************************************************************)
(* What the Q-SEAL challenge stores have in common: the keys they compare,   *)
(* verifier_id || request_id || nonce, opaque here, and the form of an       *)
(* answer, the verdict with the successor store.                             *)
(***************************************************************************)
EXTENDS Naturals

CONSTANT ChallengeKeys

Answer(ok, store) == [ ok |-> ok, store |-> store ]
=============================================================================
