----------------------------- MODULE SingleUse ------------------------------
(***************************************************************************)
(* What an anti-replay store promises, whatever it is built from: the       *)
(* sequence of tokens admitted through a store never repeats one, and is no *)
(* longer than the store's capacity.  Implemented by the NonceStore of the  *)
(* Cap-V1 verifiers (CapVerifier), by the Q-SEAL challenge store alone      *)
(* (QsealNonce) and by the verifier at the end of an attestation            *)
(* (QsealAttestation).                                                      *)
(***************************************************************************)
EXTENDS Naturals, Sequences

CONSTANTS Stores, Tokens, Capacity

VARIABLE admitted  \* [Stores -> Seq(Tokens)], in order of admission

Spent(s) == { admitted[s][i] : i \in DOMAIN admitted[s] }

Init == admitted = [s \in Stores |-> << >>]

Admit(s, t) ==
  /\ t \notin Spent(s)
  /\ Len(admitted[s]) < Capacity
  /\ admitted' = [admitted EXCEPT ![s] = Append(@, t)]

Next == \E s \in Stores, t \in Tokens : Admit(s, t)

Spec == Init /\ [][Next]_admitted
=============================================================================
