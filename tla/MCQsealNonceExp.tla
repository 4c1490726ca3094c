-------------------------- MODULE MCQsealNonceExp ---------------------------
(***************************************************************************)
(* The evicting store over a few instants: more keys than slots, and time   *)
(* for a slot to be filled, to expire and to be filled again.               *)
(***************************************************************************)
EXTENDS QsealNonceExp
=============================================================================
