------------------------------ MODULE MCHqcKem ------------------------------
(***************************************************************************)
(* Two holders, of equal or different versions and seeds, and two           *)
(* ciphertexts that can be recombined; one message that does not decrypt.   *)
(***************************************************************************)
EXTENDS HqcKem

CONSTANTS m1, m2
MCMessages == {m1, m2}
MCUndecryptable == {m2}
=============================================================================
