----------------------------- MODULE QsealNonce -----------------------------
(***************************************************************************)
(* One stream of presentations, each a challenge key with the verdict of    *)
(* the signature and policy checks, decided by the C store and by the       *)
(* demo's HashSet side by side.  admitted and demo_admitted are history     *)
(* variables: the keys each of them let through, in order.                  *)
(***************************************************************************)
EXTENDS QsealStore, Sequences

VARIABLES store,         \* qseal_nonce_store_t
          set,           \* the demo's HashSet
          admitted, demo_admitted

vars == << store, set, admitted, demo_admitted >>

Init ==
  /\ store \in FreshStores
  /\ set = {}
  /\ admitted = << >>
  /\ demo_admitted = << >>

Note(log, ok, k) == IF ok THEN Append(log, k) ELSE log

Present(ok, k) ==
  LET c == qseal_nonce_accept(store, ok, k)
      d == accept_once(set, ok, k)
  IN /\ store' = c.store
     /\ admitted' = Note(admitted, c.ok, k)
     /\ set' = d.store
     /\ demo_admitted' = Note(demo_admitted, d.ok, k)

Next == \E ok \in BOOLEAN, k \in ChallengeKeys : Present(ok, k)

Spec == Init /\ [][Next]_vars
-----------------------------------------------------------------------------
TypeOK ==
  /\ store \in NonceStore
  /\ set \subseteq ChallengeKeys
  /\ admitted \in Seq(ChallengeKeys)
  /\ demo_admitted \in Seq(ChallengeKeys)

(* The two stores are twins until the array is full: the array has let        *)
(* through exactly what the HashSet has, in the same order, and once it is    *)
(* full it has let through its first QSEAL_STORE_CAP keys and no other, while *)
(* the HashSet goes on (qseal_nonce_accept, NonceStore::accept_once).         *)
TwinsUntilFull ==
  /\ Len(admitted) <= Len(demo_admitted)
  /\ \A i \in DOMAIN admitted : admitted[i] = demo_admitted[i]
  /\ Len(admitted) < QSEAL_STORE_CAP => admitted = demo_admitted

(* Whatever the slots held before and in whatever order validated, invalid    *)
(* and repeated presentations come, the keys admitted through the array are   *)
(* those of a single-use store of QSEAL_STORE_CAP tokens (qseal_nonce_accept, *)
(* qseal_nonce_seen).                                                         *)
Abstract == INSTANCE SingleUse WITH
  Stores <- {"qseal"}, Tokens <- ChallengeKeys, Capacity <- QSEAL_STORE_CAP,
  admitted <- [s \in {"qseal"} |-> admitted]

ImplementsSingleUse == Abstract!Spec
=============================================================================
