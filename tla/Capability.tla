----------------------------- MODULE Capability -----------------------------
(***************************************************************************)
(* The Cap-V1 token and the stateless checks a verifier runs on it          *)
(* (cap/src/lib.rs).  Ids, digests and nonces are opaque values: the code   *)
(* only compares them.  The two bitmask fields, action and flags, are the   *)
(* sets of their bits, so "no bit outside the parent's mask"                *)
(* ((child & !parent) == 0) is set inclusion.  Times and depths are         *)
(* naturals: the code compares them and never computes with them, so their  *)
(* widths (u64, u8) cannot matter.                                          *)
(***************************************************************************)
EXTENDS Naturals, Sequences

CONSTANTS
  Versions, Suites, CapTypes,  \* values of version, suite_id, cap_type
  Flags, Actions,              \* the bits of the flags and action masks
  KeyIds,                      \* 16-byte key commitments: issuer_id, subject_id
  CapIds, Nonces,              \* values of cap_id / parent_id and of nonce
  Resources, Digests, Audiences,
  VERSION_V1, SUITE_HYB1, FLAG_DELEGATE,
  ZeroId,                      \* the all-zero id: the parent_id of a root
  ZeroNonce                    \* the all-zero nonce

ASSUME CapabilityConstants ==
  /\ VERSION_V1 \in Versions
  /\ SUITE_HYB1 \in Suites
  /\ FLAG_DELEGATE \in Flags
  /\ ZeroId \in CapIds
  /\ ZeroNonce \in Nonces

CapV1 ==
  [ version : Versions, suite_id : Suites, cap_type : CapTypes,
    flags : SUBSET Flags, issuer_id : KeyIds, subject_id : KeyIds,
    parent_id : CapIds, cap_id : CapIds, resource_id : Resources,
    action : SUBSET Actions, max_depth : Nat, constraints_digest : Digests,
    not_before : Nat, not_after : Nat, nonce : Nonces, audience_id : Audiences ]

-----------------------------------------------------------------------------
(* The bytes a signature covers: the magic prefix and every field, each at a *)
(* fixed offset, in wire order.                                              *)
serialize(c) ==
  << "CAPV1", c.version, c.suite_id, c.cap_type, c.flags, c.issuer_id,
     c.subject_id, c.parent_id, c.cap_id, c.resource_id, c.action,
     c.max_depth, c.constraints_digest, c.not_before, c.not_after, c.nonce,
     c.audience_id >>

parse(b) ==
  [ version |-> b[2], suite_id |-> b[3], cap_type |-> b[4], flags |-> b[5],
    issuer_id |-> b[6], subject_id |-> b[7], parent_id |-> b[8],
    cap_id |-> b[9], resource_id |-> b[10], action |-> b[11],
    max_depth |-> b[12], constraints_digest |-> b[13], not_before |-> b[14],
    not_after |-> b[15], nonce |-> b[16], audience_id |-> b[17] ]

signed_message(cap) == serialize(cap)

(* A model key is the 16-byte commitment followed by 16 more bytes; key_id   *)
(* reads the commitment back.                                                *)
committing_to(id) == << id, "zeros" >>
key_id(pk) == pk[1]

-----------------------------------------------------------------------------
(* A broken link check: a child may keep its parent's whole depth budget. *)
valid_delegation_keeping_depth(parent, child) ==
  /\ child.issuer_id = parent.subject_id
  /\ child.parent_id = parent.cap_id
  /\ child.resource_id = parent.resource_id
  /\ child.audience_id = parent.audience_id
  /\ child.suite_id = parent.suite_id
  /\ child.cap_type = parent.cap_type
  /\ child.constraints_digest = parent.constraints_digest
  /\ FLAG_DELEGATE \in parent.flags
  /\ child.flags \subseteq parent.flags
  /\ parent.max_depth > 0
  /\ child.max_depth <= parent.max_depth
  /\ child.action \subseteq parent.action
  /\ child.not_before >= parent.not_before
  /\ child.not_after <= parent.not_after
  /\ child.not_before <= child.not_after

(* One link of a delegation chain. *)
valid_delegation(parent, child) ==
  /\ child.issuer_id = parent.subject_id
  /\ child.parent_id = parent.cap_id
  /\ child.resource_id = parent.resource_id
  /\ child.audience_id = parent.audience_id
  /\ child.suite_id = parent.suite_id
  /\ child.cap_type = parent.cap_type
  /\ child.constraints_digest = parent.constraints_digest
  /\ FLAG_DELEGATE \in parent.flags
  /\ child.flags \subseteq parent.flags
  /\ parent.max_depth > 0
  /\ child.max_depth < parent.max_depth
  /\ child.action \subseteq parent.action
  /\ child.not_before >= parent.not_before
  /\ child.not_after <= parent.not_after
  /\ child.not_before <= child.not_after

(* x holds no more authority than root. *)
chain_invariant(root, x) ==
  /\ x.action \subseteq root.action
  /\ x.flags \subseteq root.flags
  /\ x.max_depth <= root.max_depth
  /\ x.not_before >= root.not_before
  /\ x.not_after <= root.not_after
  /\ x.resource_id = root.resource_id
  /\ x.audience_id = root.audience_id
  /\ x.suite_id = root.suite_id
  /\ x.cap_type = root.cap_type
  /\ x.constraints_digest = root.constraints_digest

is_root(cap) == cap.parent_id = ZeroId

valid_field_values(cap) ==
  /\ cap.version = VERSION_V1
  /\ cap.suite_id = SUITE_HYB1

(* The single-use key: cap_id followed by the nonce, nothing of the verifier. *)
replay_key(cap) == << cap.cap_id, cap.nonce >>
ReplayKeys == CapIds \X Nonces
ZeroKey == << ZeroId, ZeroNonce >>

-----------------------------------------------------------------------------
(* A broken gate: any audience's token will do. *)
accept_leaf_any_audience(cap, verifier_id, now, sig_ok) ==
  sig_ok /\ cap.not_before <= now /\ now <= cap.not_after

(* The stateless gates. sig_ok is the caller's verdict of the hybrid check   *)
(* over signed_message(cap).                                                 *)
accept_leaf(cap, verifier_id, now, sig_ok) ==
  /\ sig_ok
  /\ cap.audience_id = verifier_id
  /\ cap.not_before <= now
  /\ now <= cap.not_after

accept_leaf_signed(cap, verifier_id, now, issuer_pk, sig_ok) ==
  /\ key_id(issuer_pk) = cap.issuer_id
  /\ accept_leaf(cap, verifier_id, now, sig_ok)

(* The chain gate: caps[1] is the root, caps[Len(caps)] the presented leaf.  *)
(* The code's two early-return loops have no other effect than their         *)
(* conjunction.                                                              *)
accept_chain(caps, verifier_id, now, sigs_ok) ==
  /\ Len(caps) > 0
  /\ is_root(caps[1])
  /\ \A i \in 1..Len(caps) : sigs_ok[i]
  /\ \A i \in 2..Len(caps) : valid_delegation(caps[i-1], caps[i])
  /\ accept_leaf(caps[Len(caps)], verifier_id, now, sigs_ok[Len(caps)])
=============================================================================
