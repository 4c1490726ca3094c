---------------------------- MODULE MCQsealNonce ----------------------------
(***************************************************************************)
(* The two challenge stores over a handful of keys, more of them than the   *)
(* array has slots.                                                         *)
(***************************************************************************)
EXTENDS QsealNonce
=============================================================================
