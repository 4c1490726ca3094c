---------------------------- MODULE CapVerifier -----------------------------
(***************************************************************************)
(* Agents that sign capabilities, verifiers that admit them through         *)
(* accept_leaf_full and accept_chain_full, and revocation (cap/src/lib.rs,  *)
(* driven as cap/demo/src/main.rs drives it).                               *)
(*                                                                          *)
(* A verifier v answers for audience AudienceOf[v]; its used-token store is *)
(* StoreOf[v] and its revocation list is its own.  Replicas of one verifier *)
(* are several v with the same audience: CAP-V1 requires them to share the  *)
(* store, which is the assumption OneStorePerAudience.                      *)
(*                                                                          *)
(* signed is the world's signatures: who signed which token under which of  *)
(* the two HYB-1 schemes.  granted and confirmed are history variables: the *)
(* presentations a store's verifiers accepted, in order, and the ids a      *)
(* verifier was told are revoked (revoke returned true); refused holds the  *)
(* ids revoke turned down.                                                  *)
(***************************************************************************)
EXTENDS CapGates, FiniteSets

CONSTANTS
  Keys,           \* hybrid key pairs
  commit,         \* hyb1_key_id: the commitment of each key's public half
  Verifiers, Stores, AudienceOf, StoreOf,
  Times,          \* the instants a presentation can be made at
  Presentations,  \* what callers present: token chains with a key per link
  PreSigned,      \* <<key, token>> pairs hybrid-signed before the start
  Signable,       \* <<key, token>> pairs a key holder may hybrid-sign later
  HalfSignable,   \* pairs where only the ECDSA half covers the token
  Revocable       \* <<verifier, cap_id>> revocation requests

ASSUME VerifierConstants ==
  /\ commit \in [Keys -> KeyIds]
  /\ AudienceOf \in [Verifiers -> Audiences]
  /\ StoreOf \in [Verifiers -> Stores]
  /\ Times \subseteq Nat
  /\ \A p \in Presentations : /\ p.caps \in Seq(CapV1)
                              /\ p.keys \in Seq(Keys)
                              /\ Len(p.keys) = Len(p.caps)
  /\ PreSigned \subseteq Keys \X CapV1
  /\ Signable \subseteq Keys \X CapV1
  /\ HalfSignable \subseteq Keys \X CapV1
  /\ Revocable \subseteq Verifiers \X CapIds

ASSUME OneStorePerAudience ==
  \A v, w \in Verifiers :
    AudienceOf[v] = AudienceOf[w] => StoreOf[v] = StoreOf[w]

VARIABLES
  signed,     \* set of [scheme, key, cap]
  store,      \* [Stores -> NonceStore]
  revoked,    \* [Verifiers -> RevocationStore]
  granted,    \* [Stores -> Seq(Grant)]
  confirmed,  \* [Verifiers -> SUBSET CapIds]
  refused     \* [Verifiers -> SUBSET CapIds]: refused revocations

vars == << signed, store, revoked, granted, confirmed, refused >>

Schemes == {"ecdsa", "mldsa"}

Grant == [ verifier : Verifiers, caps : Seq(CapV1), keys : Seq(Keys),
           now : Times, chain : BOOLEAN, dead : SUBSET CapIds ]

Leaf(caps) == caps[Len(caps)]

-----------------------------------------------------------------------------
(* A signature verifies for a token iff the key signed a token with the same *)
(* signed bytes.                                                             *)
verifies(scheme, key, cap) ==
  \E s \in signed : /\ s.scheme = scheme
                    /\ s.key = key
                    /\ signed_message(s.cap) = signed_message(cap)

(* A broken verifier: either signature suffices. *)
hybrid_verify_either(key, cap) ==
  verifies("ecdsa", key, cap) \/ verifies("mldsa", key, cap)

hybrid_verify(key, cap) ==
  verifies("ecdsa", key, cap) /\ verifies("mldsa", key, cap)

sigs_of(p) == [i \in 1..Len(p.caps) |-> hybrid_verify(p.keys[i], p.caps[i])]
pks_of(p) == [i \in 1..Len(p.keys) |-> committing_to(commit[p.keys[i]])]

-----------------------------------------------------------------------------
Init ==
  /\ signed = { [scheme |-> s, key |-> kc[1], cap |-> kc[2]] :
                  s \in Schemes, kc \in PreSigned }
  /\ store = [s \in Stores |-> EmptyNonceStore]
  /\ revoked = [v \in Verifiers |-> EmptyRevocationStore]
  /\ granted = [s \in Stores |-> << >>]
  /\ confirmed = [v \in Verifiers |-> {}]
  /\ refused = [v \in Verifiers |-> {}]

(* A key holder signs the serialized token under both schemes. *)
hybrid_sign(key, cap) ==
  /\ signed' = signed \cup { [scheme |-> s, key |-> key, cap |-> cap] :
                               s \in Schemes }
  /\ UNCHANGED << store, revoked, granted, confirmed, refused >>

(* A token circulates whose ML-DSA half was made over other bytes. *)
classical_sign(key, cap) ==
  /\ signed' = signed \cup { [scheme |-> "ecdsa", key |-> key, cap |-> cap] }
  /\ UNCHANGED << store, revoked, granted, confirmed, refused >>

(* The store and the history after a gate returned result to v's caller. *)
Settle(v, p, now, chain, result) ==
  LET s == StoreOf[v]
      grant == [ verifier |-> v, caps |-> p.caps, keys |-> p.keys,
                 now |-> now, chain |-> chain, dead |-> confirmed[v] ]
  IN /\ store' = [store EXCEPT ![s] = result.store]
     /\ granted' = IF result.ok
                   THEN [granted EXCEPT ![s] = Append(@, grant)]
                   ELSE granted
     /\ UNCHANGED << signed, revoked, confirmed, refused >>

leaf_verdict(v, p, now) ==
  accept_leaf_full(p.caps[1], AudienceOf[v], now, pks_of(p)[1],
                   sigs_of(p)[1], store[StoreOf[v]], revoked[v])

chain_verdict(v, p, now) ==
  accept_chain_full(p.caps, AudienceOf[v], now, pks_of(p), sigs_of(p),
                    store[StoreOf[v]], revoked[v])

PresentLeaf(v, p, now) ==
  /\ Len(p.caps) = 1
  /\ Settle(v, p, now, FALSE, leaf_verdict(v, p, now))

PresentChain(v, p, now) ==
  Settle(v, p, now, TRUE, chain_verdict(v, p, now))

Revoke(v, id) ==
  LET result == revoke(revoked[v], id)
  IN /\ revoked' = [revoked EXCEPT ![v] = result.store]
     /\ confirmed' = IF result.ok THEN [confirmed EXCEPT ![v] = @ \cup {id}]
                     ELSE confirmed
     /\ refused' = IF result.ok THEN refused
                   ELSE [refused EXCEPT ![v] = @ \cup {id}]
     /\ UNCHANGED << signed, store, granted >>

Next ==
  \/ \E kc \in Signable : hybrid_sign(kc[1], kc[2])
  \/ \E kc \in HalfSignable : classical_sign(kc[1], kc[2])
  \/ \E v \in Verifiers, p \in Presentations, now \in Times :
       PresentLeaf(v, p, now) \/ PresentChain(v, p, now)
  \/ \E vid \in Revocable : Revoke(vid[1], vid[2])

Spec == Init /\ [][Next]_vars
-----------------------------------------------------------------------------
(* The shapes of the state; what the arrays hold is StoresExact's to say.     *)
TypeOK ==
  /\ signed \subseteq [ scheme : Schemes, key : Keys, cap : CapV1 ]
  /\ store \in [Stores -> NonceStore]
  /\ revoked \in [Verifiers -> RevocationStore]
  /\ granted \in [Stores -> Seq(Grant)]
  /\ confirmed \in [Verifiers -> SUBSET CapIds]
  /\ refused \in [Verifiers -> SUBSET CapIds]

Grants == UNION { { granted[s][i] : i \in DOMAIN granted[s] } : s \in Stores }

(* No token is admitted twice as the presented leaf, at any replica of any    *)
(* verifier, through either deployment gate: the audience binding keeps it to *)
(* one audience, the shared store to one use there (accept_leaf_full,         *)
(* accept_chain_full, accept_leaf_once, accept_chain_once).                   *)
NoReplay ==
  \A s, t \in Stores : \A i \in DOMAIN granted[s], j \in DOMAIN granted[t] :
    Leaf(granted[s][i].caps) = Leaf(granted[t][j].caps) => s = t /\ i = j

(* Every link of an admitted presentation was signed, both halves and over    *)
(* exactly the token admitted, by a key whose commitment the token names as   *)
(* issuer; and past the first link that issuer is the delegate the link       *)
(* before named (hybrid_verify, signed_message, the key binding of the gates).*)
GrantsSigned ==
  \A g \in Grants : \A i \in DOMAIN g.caps :
    /\ \A scheme \in Schemes :
         [scheme |-> scheme, key |-> g.keys[i], cap |-> g.caps[i]] \in signed
    /\ commit[g.keys[i]] = g.caps[i].issuer_id
    /\ i > 1 => g.caps[i].issuer_id = g.caps[i-1].subject_id

(* A chain is admitted only from a root down, every later link holding no     *)
(* more authority than every earlier one, each hop paid for out of the        *)
(* earlier link's depth, and the whole chain in force: the verifier checks    *)
(* audience and time on the leaf alone, yet every ancestor names this         *)
(* audience and has the instant in its window (valid_delegation, accept_chain,*)
(* and the claim of accept_chain2's comment).                                 *)
GrantsAttenuate ==
  \A g \in Grants : g.chain =>
    /\ is_root(g.caps[1])
    /\ \A j \in DOMAIN g.caps : \A i \in 1..j :
         /\ chain_invariant(g.caps[i], g.caps[j])
         /\ g.caps[j].max_depth + (j - i) <= g.caps[i].max_depth
    /\ \A i \in DOMAIN g.caps :
         /\ g.caps[i].audience_id = AudienceOf[g.verifier]
         /\ g.caps[i].not_before <= g.now /\ g.now <= g.caps[i].not_after

(* Once revoke has confirmed an id to a verifier, that verifier admits no     *)
(* presentation with that id on any of its links, through either gate.        *)
RevocationSticks ==
  \A g \in Grants : \A i \in DOMAIN g.caps : g.caps[i].cap_id \notin g.dead

(* revoke turns an id down only when STORE_CAP distinct other ids are already *)
(* revoked: repeating a revocation costs no slot, and an id turned down is    *)
(* never one that was confirmed.                                              *)
RefusedOnlyWhenFull ==
  \A v \in Verifiers : refused[v] # {} =>
    /\ Cardinality(confirmed[v]) = STORE_CAP
    /\ refused[v] \cap confirmed[v] = {}

(* The presentation is one the spec wants admitted, judged on its tokens.     *)
Authorised(v, p, now) ==
  /\ p.caps # << >>
  /\ is_root(p.caps[1])
  /\ \A i \in DOMAIN p.caps :
       /\ valid_field_values(p.caps[i])
       /\ hybrid_verify(p.keys[i], p.caps[i])
       /\ commit[p.keys[i]] = p.caps[i].issuer_id
       /\ p.caps[i].cap_id \notin confirmed[v]
       /\ i > 1 => valid_delegation(p.caps[i-1], p.caps[i])
  /\ Leaf(p.caps).audience_id = AudienceOf[v]
  /\ now \in Leaf(p.caps).not_before .. Leaf(p.caps).not_after

(* The chain gate turns an authorised presentation away only if its leaf was  *)
(* admitted through this store before, or STORE_CAP presentations were: a     *)
(* rejected call, a reset slot or the zero padding of the array costs nobody  *)
(* admission (accept_chain_full, "rejects do not append").                    *)
DenialHasCause ==
  \A v \in Verifiers, p \in Presentations, now \in Times :
    LET log == granted[StoreOf[v]]
    IN /\ Authorised(v, p, now)
       /\ Len(log) < STORE_CAP
       /\ \A i \in DOMAIN log :
            replay_key(Leaf(log[i].caps)) # replay_key(Leaf(p.caps))
       => chain_verdict(v, p, now).ok

(* The admissions through each store, as a client sees them, are those of a   *)
(* single-use store of STORE_CAP tokens.                                      *)
admitted == [ s \in Stores |->
  [ i \in DOMAIN granted[s] |-> replay_key(Leaf(granted[s][i].caps)) ] ]

(* Each array is the log of what was admitted through it, in order, and       *)
(* untouched past that log; each revocation list holds the confirmed ids,     *)
(* once each; neither outgrows its array.  So an append is never made outside *)
(* the array, no slot is lost or written twice, and a call that was refused,  *)
(* by whichever check and between whichever revocations, left no trace        *)
(* (accept_leaf_once, accept_chain_once and revoke, whose bound is tested in  *)
(* one place and used in another).                                            *)
StoresExact ==
  /\ \A s \in Stores :
       /\ store[s].len = Len(admitted[s]) /\ store[s].len <= STORE_CAP
       /\ \A i \in Slots :
            store[s].used[i] = IF i < store[s].len THEN admitted[s][i+1] ELSE ZeroKey
  /\ \A v \in Verifiers :
       /\ revoked[v].len = Cardinality(confirmed[v]) /\ revoked[v].len <= STORE_CAP
       /\ confirmed[v] = { revoked[v].revoked[i] : i \in 0..(revoked[v].len - 1) }
       /\ \A i \in Slots : i >= revoked[v].len => revoked[v].revoked[i] = ZeroId

Abstract == INSTANCE SingleUse WITH Tokens <- ReplayKeys, Capacity <- STORE_CAP

ImplementsSingleUse == Abstract!Spec
=============================================================================
