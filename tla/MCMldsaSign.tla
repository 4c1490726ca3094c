---------------------------- MODULE MCMldsaSign ----------------------------
(***************************************************************************)
(* Two signers, with messages shorter and longer than a signature, and      *)
(* contexts up to one byte too long for a one-bit uint8_t.                  *)
(***************************************************************************)
EXTENDS MldsaSign, TLC

Symmetric == Permutations(Signers) \cup Permutations(Seeds)

b0 == [kind |-> "byte", value |-> 0]
b1 == [kind |-> "byte", value |-> 1]
Bytes == {b0, b1}
LongMessages == {<< >>, << b1 >>, << b1, b0, b1, b0 >>}
ShortMessages == {<< >>, << b1 >>}
ThreeContexts == {<< >>, << b1 >>, << b1, b1 >>}
TwoContexts == {<< >>, << b1 >>}
NoContext == {<< >>}
AllFates == Outcomes
TwoFates == {"accept", "ct0"}
=============================================================================
