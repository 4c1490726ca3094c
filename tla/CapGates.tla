------------------------------ MODULE CapGates ------------------------------
(***************************************************************************)
(* The bounded stores of a Cap-V1 verifier and the gates that thread them   *)
(* (cap/src/lib.rs).  A gate is a pure function: it takes the store the     *)
(* caller holds and returns the verdict with the successor store, here a    *)
(* record [ok, store].                                                      *)
(***************************************************************************)
EXTENDS Capability

CONSTANT STORE_CAP  \* capacity of both stores; 8 in the code

ASSUME StoreCapAssumption == STORE_CAP \in Nat \ {0}

Slots == 0..(STORE_CAP - 1)

NonceStore == [ used : [Slots -> ReplayKeys], len : Nat ]
RevocationStore == [ revoked : [Slots -> CapIds], len : Nat ]

EmptyNonceStore == [ used |-> [i \in Slots |-> ZeroKey], len |-> 0 ]
EmptyRevocationStore == [ revoked |-> [i \in Slots |-> ZeroId], len |-> 0 ]

(* The slots that count: used[0..len], with len clamped to the capacity. *)
LivePrefix(len) == 0..((IF len > STORE_CAP THEN STORE_CAP ELSE len) - 1)

-----------------------------------------------------------------------------
store_contains(store, key) ==
  \E i \in LivePrefix(store.len) : store.used[i] = key

(* A broken store: the key is checked and never remembered. *)
consume_forgotten(store, key) == store

consume(store, key) ==
  [ used |-> [store.used EXCEPT ![store.len] = key], len |-> store.len + 1 ]

Verdict(ok, store) == [ ok |-> ok, store |-> store ]

(* A broken bound: the check lets one more in than the append has room for. *)
accept_once_overfull(gate_ok, key, store) ==
  IF ~gate_ok \/ store_contains(store, key) \/ store.len > STORE_CAP
  THEN Verdict(FALSE, store)
  ELSE Verdict(TRUE, consume(store, key))

(* A broken gate: a rejected presentation takes a slot too. *)
accept_once_burning(gate_ok, key, store) ==
  IF store_contains(store, key) \/ store.len >= STORE_CAP
  THEN Verdict(FALSE, store)
  ELSE Verdict(gate_ok, consume(store, key))

(* Single use of a presentation whose stateless gate said gate_ok. *)
accept_once(gate_ok, key, store) ==
  IF ~gate_ok \/ store_contains(store, key) \/ store.len >= STORE_CAP
  THEN Verdict(FALSE, store)
  ELSE Verdict(TRUE, consume(store, key))

accept_leaf_once(cap, verifier_id, now, sig_ok, store) ==
  accept_once(accept_leaf(cap, verifier_id, now, sig_ok),
              replay_key(cap), store)

accept_chain_once(caps, verifier_id, now, sigs_ok, store) ==
  IF Len(caps) = 0
  THEN Verdict(FALSE, store)
  ELSE accept_once(accept_chain(caps, verifier_id, now, sigs_ok),
                   replay_key(caps[Len(caps)]), store)

-----------------------------------------------------------------------------
is_revoked(rs, cap_id) ==
  \E i \in LivePrefix(rs.len) : rs.revoked[i] = cap_id

(* A broken list: revoking an id again takes another slot. *)
revoke_again(rs, cap_id) ==
  IF rs.len >= STORE_CAP
  THEN Verdict(FALSE, rs)
  ELSE Verdict(TRUE, [ revoked |-> [rs.revoked EXCEPT ![rs.len] = cap_id],
                       len |-> rs.len + 1 ])

revoke(rs, cap_id) ==
  IF is_revoked(rs, cap_id) THEN Verdict(TRUE, rs)
  ELSE IF rs.len >= STORE_CAP THEN Verdict(FALSE, rs)
  ELSE Verdict(TRUE, [ revoked |-> [rs.revoked EXCEPT ![rs.len] = cap_id],
                       len |-> rs.len + 1 ])

-----------------------------------------------------------------------------
(* The deployment gates. *)
accept_leaf_full(cap, verifier_id, now, issuer_pk, sig_ok, store, revoked) ==
  IF \/ is_revoked(revoked, cap.cap_id)
     \/ ~valid_field_values(cap)
     \/ ~accept_leaf_signed(cap, verifier_id, now, issuer_pk, sig_ok)
  THEN Verdict(FALSE, store)
  ELSE accept_leaf_once(cap, verifier_id, now, sig_ok, store)

(* What every link of a presented chain must pass before the chain gate. *)
link_admissible(cap, pk, revoked) ==
  /\ ~is_revoked(revoked, cap.cap_id)
  /\ valid_field_values(cap)
  /\ key_id(pk) = cap.issuer_id

(* A broken gate: revocation consulted for the presented leaf alone. *)
accept_chain_leafonly(caps, verifier_id, now, pks, sigs_ok, store, revoked) ==
  IF \/ Len(caps) > 0 /\ is_revoked(revoked, caps[Len(caps)].cap_id)
     \/ \E i \in 1..Len(caps) : \/ ~valid_field_values(caps[i])
                               \/ key_id(pks[i]) # caps[i].issuer_id
  THEN Verdict(FALSE, store)
  ELSE accept_chain_once(caps, verifier_id, now, sigs_ok, store)

accept_chain_full(caps, verifier_id, now, pks, sigs_ok, store, revoked) ==
  IF \E i \in 1..Len(caps) : ~link_admissible(caps[i], pks[i], revoked)
  THEN Verdict(FALSE, store)
  ELSE accept_chain_once(caps, verifier_id, now, sigs_ok, store)
=============================================================================
