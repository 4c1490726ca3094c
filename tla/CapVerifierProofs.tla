------------------------- MODULE CapVerifierProofs --------------------------
(***************************************************************************)
(* What the stateless checks guarantee, for tokens and chains of any size,  *)
(* and the invariants of the verifiers, for any number of agents,           *)
(* verifiers, stores and tokens and any store capacity.                     *)
(***************************************************************************)
EXTENDS CapVerifier, SequenceTheorems, FiniteSetTheorems, WellFoundedInduction, TLAPS

(* The least element of a set of naturals, for inductions.                    *)
LEMMA LeastElement ==
  ASSUME NEW T, T \subseteq Nat, T # {}
  PROVE  \E x \in T : \A y \in T : x <= y
<1> DEFINE R == OpToRel(<, Nat)
<1>1. \A p, q \in Nat : p < q => << p, q >> \in R
  BY DEF OpToRel
<1> HIDE DEF R
<1>2. PICK x \in T : \A y \in T : << y, x >> \notin R
  BY NatLessThanWellFounded, WFMin DEF R
<1>3. ASSUME NEW y \in T
      PROVE  x <= y
  <2>1. x \in Nat /\ y \in Nat /\ ~(y < x)
    BY <1>1, <1>2
  <2> QED
    BY <2>1
<1> QED
  BY <1>3

(* A token is recovered from its signed bytes, so no two tokens share them. *)
LEMMA ParseSerialize ==
  ASSUME NEW c \in CapV1
  PROVE  parse(serialize(c)) = c
BY DEF CapV1, parse, serialize

LEMMA SerializeInjective ==
  ASSUME NEW a \in CapV1, NEW b \in CapV1, serialize(a) = serialize(b)
  PROVE  a = b
BY ParseSerialize

(* The round trip of committing_to: the gates see the deployed id. *)
LEMMA CommittingToCommits ==
  ASSUME NEW id
  PROVE  key_id(committing_to(id)) = id
BY DEF key_id, committing_to

-----------------------------------------------------------------------------
(* Attenuation is reflexive and survives one link. *)
LEMMA ChainInvariantBase ==
  ASSUME NEW c \in CapV1
  PROVE  chain_invariant(c, c)
BY DEF chain_invariant, CapV1

LEMMA ChainInvariantStep ==
  ASSUME NEW r \in CapV1, NEW x \in CapV1, NEW y \in CapV1,
         chain_invariant(r, x), valid_delegation(x, y)
  PROVE  /\ chain_invariant(r, y)
         /\ y.max_depth + 1 <= x.max_depth
BY DEF chain_invariant, valid_delegation, CapV1

(* Down a chain of any length whose links each pass valid_delegation, no link *)
(* holds more authority than an earlier one, and each hop costs depth.        *)
THEOREM ChainAttenuates ==
  ASSUME NEW caps \in Seq(CapV1),
         \A k \in 2..Len(caps) : valid_delegation(caps[k-1], caps[k]),
         NEW i \in 1..Len(caps), NEW j \in i..Len(caps)
  PROVE  /\ chain_invariant(caps[i], caps[j])
         /\ caps[j].max_depth + (j - i) <= caps[i].max_depth
<1> DEFINE Good(k) == /\ chain_invariant(caps[i], caps[k])
                      /\ caps[k].max_depth + (k - i) <= caps[i].max_depth
           Bad == { k \in i..Len(caps) : ~Good(k) }
<1>1. Len(caps) \in Nat /\ i \in Nat /\ Bad \subseteq Nat
  OBVIOUS
<1>2. \A k \in 1..Len(caps) : caps[k] \in CapV1 /\ caps[k].max_depth \in Nat
  <2>1. \A c \in CapV1 : c.max_depth \in Nat
    BY DEF CapV1
  <2> QED
    BY <2>1
<1>3. Good(i)
  BY <1>1, <1>2, ChainInvariantBase
<1>4. ASSUME NEW k \in i..Len(caps), k # i, Good(k-1)
      PROVE  Good(k)
  <2>1. k \in 2..Len(caps) /\ k-1 \in 1..Len(caps) /\ k \in 1..Len(caps)
    BY <1>1, <1>4
  <2>2. valid_delegation(caps[k-1], caps[k])
    BY <2>1
  <2>3. /\ chain_invariant(caps[i], caps[k])
        /\ caps[k].max_depth + 1 <= caps[k-1].max_depth
    BY <1>2, <1>4, <2>1, <2>2, ChainInvariantStep
  <2>4. caps[k-1].max_depth + ((k-1) - i) <= caps[i].max_depth
    BY <1>4
  <2>5. caps[k].max_depth + (k - i) <= caps[i].max_depth
    <3>1. /\ caps[k].max_depth \in Nat
          /\ caps[k-1].max_depth \in Nat
          /\ caps[i].max_depth \in Nat
          /\ k \in Nat
      BY <1>1, <1>2, <2>1
    <3>2. \A dk, dp, di, m, n \in Nat :
             dk + 1 <= dp /\ dp + ((m-1) - n) <= di => dk + (m - n) <= di
      OBVIOUS
    <3> HIDE DEF Good, Bad
    <3> QED
      BY <1>1, <2>3, <2>4, <3>1, <3>2
  <2> QED
    BY <2>3, <2>5
<1>5. Bad = {}
  <2>1. SUFFICES ASSUME Bad # {} PROVE FALSE
    OBVIOUS
  <2>2. PICK k \in Bad : \A l \in Bad : k <= l
    <3> HIDE DEF Bad
    <3> QED
      BY <1>1, <2>1, LeastElement
  <2>3. k \in i..Len(caps) /\ ~Good(k) /\ k # i
    BY <1>3, <2>2
  <2>4. k-1 \in i..Len(caps) /\ ~(k <= k-1)
    BY <1>1, <2>3
  <2>5. Good(k-1)
    BY <2>2, <2>4
  <2> QED
    BY <1>4, <2>3, <2>5
<1> QED
  BY <1>5

-----------------------------------------------------------------------------
(* The two things accept_once can do. *)
LEMMA AcceptOnce ==
  ASSUME NEW gate_ok \in BOOLEAN, NEW key, NEW st \in NonceStore
  PROVE  \/ accept_once(gate_ok, key, st) = Verdict(FALSE, st)
         \/ /\ accept_once(gate_ok, key, st) = Verdict(TRUE, consume(st, key))
            /\ gate_ok
            /\ ~store_contains(st, key)
            /\ st.len < STORE_CAP
<1>1. st.len \in Nat /\ STORE_CAP \in Nat
  BY StoreCapAssumption DEF NonceStore
<1>2. ~(st.len >= STORE_CAP) => st.len < STORE_CAP
  BY <1>1
<1> QED
  BY <1>2, Zenon DEF accept_once

LEMMA VerdictFields ==
  ASSUME NEW st
  PROVE  /\ Verdict(TRUE, st).ok /\ Verdict(TRUE, st).store = st
         /\ ~Verdict(FALSE, st).ok /\ Verdict(FALSE, st).store = st
BY DEF Verdict

LEMMA ConsumeType ==
  ASSUME NEW key \in ReplayKeys, NEW st \in NonceStore
  PROVE  /\ consume(st, key) \in NonceStore
         /\ consume(st, key).len = st.len + 1
         /\ \A i \in Slots : consume(st, key).used[i] =
                               IF i = st.len THEN key ELSE st.used[i]
<1>1. /\ st.used \in [Slots -> ReplayKeys]
      /\ st.len \in Nat
  BY DEF NonceStore
<1>2. /\ consume(st, key).used = [st.used EXCEPT ![st.len] = key]
      /\ consume(st, key).len = st.len + 1
  BY DEF consume
<1>3. [st.used EXCEPT ![st.len] = key] \in [Slots -> ReplayKeys]
  BY <1>1
<1>4. consume(st, key) \in NonceStore
  BY <1>1, <1>3 DEF consume, NonceStore
<1> QED
  BY <1>1, <1>2, <1>4

LEMMA ReplayKeyType ==
  ASSUME NEW cap \in CapV1
  PROVE  replay_key(cap) \in ReplayKeys
BY DEF replay_key, ReplayKeys, CapV1

LEMMA PresentationType ==
  ASSUME NEW p \in Presentations
  PROVE  /\ p.caps \in Seq(CapV1)
         /\ p.keys \in Seq(Keys)
         /\ Len(p.keys) = Len(p.caps)
BY VerifierConstants

(* What each deployment gate returns, said without its early returns. *)
AdmitsLink(v, p, i) ==
  /\ ~is_revoked(revoked[v], p.caps[i].cap_id)
  /\ valid_field_values(p.caps[i])
  /\ commit[p.keys[i]] = p.caps[i].issuer_id

LEMMA LeafVerdict ==
  ASSUME TypeOK, NEW v \in Verifiers, NEW p \in Presentations,
         NEW now \in Times, Len(p.caps) = 1
  PROVE  LET r == leaf_verdict(v, p, now)
             st == store[StoreOf[v]]
         IN  \/ r = Verdict(FALSE, st)
             \/ /\ r = Verdict(TRUE, consume(st, replay_key(Leaf(p.caps))))
                /\ ~store_contains(st, replay_key(Leaf(p.caps)))
                /\ st.len < STORE_CAP
                /\ AdmitsLink(v, p, 1)
                /\ accept_leaf(Leaf(p.caps), AudienceOf[v], now, sigs_of(p)[1])
<1>1. /\ p.caps \in Seq(CapV1) /\ p.keys \in Seq(Keys)
      /\ Len(p.keys) = 1 /\ Leaf(p.caps) = p.caps[1]
  BY PresentationType DEF Leaf
<1>2. store[StoreOf[v]] \in NonceStore
  BY VerifierConstants DEF TypeOK
<1>3. pks_of(p)[1] = committing_to(commit[p.keys[1]])
  BY <1>1 DEF pks_of
<1>4. key_id(pks_of(p)[1]) = commit[p.keys[1]]
  BY <1>3, CommittingToCommits
<1> DEFINE gate == accept_leaf(p.caps[1], AudienceOf[v], now, sigs_of(p)[1])
           st == store[StoreOf[v]]
<1>5. CASE /\ AdmitsLink(v, p, 1)
           /\ gate
  <2>1. leaf_verdict(v, p, now) = accept_once(gate, replay_key(p.caps[1]), st)
    BY <1>4, <1>5 DEF leaf_verdict, accept_leaf_full, accept_leaf_signed,
                      accept_leaf_once, AdmitsLink
  <2>2. gate \in BOOLEAN
    BY DEF accept_leaf
  <2> QED
    BY <1>1, <1>2, <1>5, <2>1, <2>2, AcceptOnce
<1>6. CASE ~(AdmitsLink(v, p, 1) /\ gate)
  BY <1>4, <1>6 DEF leaf_verdict, accept_leaf_full, accept_leaf_signed,
                    AdmitsLink
<1> QED
  BY <1>5, <1>6

LEMMA ChainVerdict ==
  ASSUME TypeOK, NEW v \in Verifiers, NEW p \in Presentations,
         NEW now \in Times
  PROVE  LET r == chain_verdict(v, p, now)
             st == store[StoreOf[v]]
         IN  \/ r = Verdict(FALSE, st)
             \/ /\ r = Verdict(TRUE, consume(st, replay_key(Leaf(p.caps))))
                /\ ~store_contains(st, replay_key(Leaf(p.caps)))
                /\ st.len < STORE_CAP
                /\ \A i \in 1..Len(p.caps) : AdmitsLink(v, p, i)
                /\ accept_chain(p.caps, AudienceOf[v], now, sigs_of(p))
<1>1. /\ p.caps \in Seq(CapV1) /\ p.keys \in Seq(Keys)
      /\ Len(p.keys) = Len(p.caps)
  BY PresentationType
<1>2. store[StoreOf[v]] \in NonceStore
  BY VerifierConstants DEF TypeOK
<1>3. \A i \in 1..Len(p.caps) : key_id(pks_of(p)[i]) = commit[p.keys[i]]
  BY <1>1, CommittingToCommits DEF pks_of
<1>4. CASE \E i \in 1..Len(p.caps) :
             ~link_admissible(p.caps[i], pks_of(p)[i], revoked[v])
  BY <1>4 DEF chain_verdict, accept_chain_full
<1>5. CASE \A i \in 1..Len(p.caps) :
             link_admissible(p.caps[i], pks_of(p)[i], revoked[v])
  <2>1. \A i \in 1..Len(p.caps) : AdmitsLink(v, p, i)
    BY <1>3, <1>5 DEF link_admissible, AdmitsLink
  <2>2. chain_verdict(v, p, now) =
          accept_chain_once(p.caps, AudienceOf[v], now, sigs_of(p),
                            store[StoreOf[v]])
    BY <1>5 DEF chain_verdict, accept_chain_full
  <2> DEFINE gate == accept_chain(p.caps, AudienceOf[v], now, sigs_of(p))
  <2>3. gate \in BOOLEAN
    BY DEF accept_chain
  <2>4. CASE Len(p.caps) = 0
    BY <2>2, <2>4 DEF accept_chain_once
  <2>5. CASE Len(p.caps) # 0
    <3>1. chain_verdict(v, p, now) =
            accept_once(gate, replay_key(Leaf(p.caps)), store[StoreOf[v]])
      BY <2>2, <2>5 DEF accept_chain_once, Leaf
    <3> QED
      BY <1>2, <2>1, <2>3, <3>1, AcceptOnce
  <2> QED
    BY <2>4, <2>5
<1> QED
  BY <1>4, <1>5

-----------------------------------------------------------------------------
(* A presentation either changes nothing or is an admission: the gate's       *)
(* conditions held, one key was consumed and one grant was recorded.          *)
NewGrant(v, p, now, chain) ==
  [ verifier |-> v, caps |-> p.caps, keys |-> p.keys,
    now |-> now, chain |-> chain, dead |-> confirmed[v] ]

(* The condition a gate checked, less the signatures and the stores. *)
Justified(g) ==
  /\ g.caps # << >>
  /\ Leaf(g.caps).audience_id = AudienceOf[g.verifier]
  /\ Leaf(g.caps).not_before <= g.now
  /\ g.now <= Leaf(g.caps).not_after
  /\ g.chain => /\ is_root(g.caps[1])
                /\ \A i \in 2..Len(g.caps) :
                     valid_delegation(g.caps[i-1], g.caps[i])
  /\ ~g.chain => Len(g.caps) = 1

Admission(v, p, now, chain) ==
  LET s == StoreOf[v]
      key == replay_key(Leaf(p.caps))
      g == NewGrant(v, p, now, chain)
  IN /\ ~store_contains(store[s], key)
     /\ store[s].len < STORE_CAP
     /\ \A i \in 1..Len(p.caps) : /\ AdmitsLink(v, p, i)
                                  /\ hybrid_verify(p.keys[i], p.caps[i])
     /\ Justified(g)
     /\ store' = [store EXCEPT ![s] = consume(store[s], key)]
     /\ granted' = [granted EXCEPT ![s] = Append(granted[s], g)]
     /\ UNCHANGED << signed, revoked, confirmed, refused >>

LEMMA SettleStep ==
  ASSUME TypeOK, NEW v \in Verifiers, NEW p, NEW now, NEW chain,
         NEW r, Settle(v, p, now, chain, r)
  PROVE  /\ r = Verdict(FALSE, store[StoreOf[v]]) => UNCHANGED vars
         /\ \A st : r = Verdict(TRUE, st) =>
              /\ store' = [store EXCEPT ![StoreOf[v]] = st]
              /\ granted' = [granted EXCEPT ![StoreOf[v]] =
                               Append(granted[StoreOf[v]],
                                      NewGrant(v, p, now, chain))]
              /\ UNCHANGED << signed, revoked, confirmed, refused >>
<1>1. /\ store' = [store EXCEPT ![StoreOf[v]] = r.store]
      /\ UNCHANGED << signed, revoked, confirmed, refused >>
      /\ granted' = IF r.ok
                    THEN [granted EXCEPT ![StoreOf[v]] =
                            Append(granted[StoreOf[v]],
                                   NewGrant(v, p, now, chain))]
                    ELSE granted
  BY DEF Settle, NewGrant
<1>2. ASSUME r = Verdict(FALSE, store[StoreOf[v]])
      PROVE  UNCHANGED vars
  <2>1. ~r.ok /\ r.store = store[StoreOf[v]]
    BY <1>2, VerdictFields
  <2>2. store' = store
    BY <1>1, <2>1 DEF TypeOK
  <2> QED
    BY <1>1, <2>1, <2>2 DEF vars
<1>3. ASSUME NEW st, r = Verdict(TRUE, st)
      PROVE  /\ store' = [store EXCEPT ![StoreOf[v]] = st]
             /\ granted' = [granted EXCEPT ![StoreOf[v]] =
                              Append(granted[StoreOf[v]],
                                     NewGrant(v, p, now, chain))]
  <2>1. r.ok /\ r.store = st
    BY <1>3, VerdictFields
  <2> QED
    BY <1>1, <2>1
<1> QED
  BY <1>1, <1>2, <1>3

LEMMA PresentLeafStep ==
  ASSUME TypeOK, NEW v \in Verifiers, NEW p \in Presentations,
         NEW now \in Times, PresentLeaf(v, p, now)
  PROVE  UNCHANGED vars \/ Admission(v, p, now, FALSE)
<1> DEFINE r == leaf_verdict(v, p, now)
           st == store[StoreOf[v]]
           g == NewGrant(v, p, now, FALSE)
<1>1. Len(p.caps) = 1 /\ Settle(v, p, now, FALSE, r)
  BY DEF PresentLeaf
<1>2. CASE r = Verdict(FALSE, st)
  BY <1>1, <1>2, SettleStep
<1>3. CASE /\ r = Verdict(TRUE, consume(st, replay_key(Leaf(p.caps))))
           /\ ~store_contains(st, replay_key(Leaf(p.caps)))
           /\ st.len < STORE_CAP
           /\ AdmitsLink(v, p, 1)
           /\ accept_leaf(Leaf(p.caps), AudienceOf[v], now, sigs_of(p)[1])
  <2>1. sigs_of(p)[1] = hybrid_verify(p.keys[1], p.caps[1])
    BY <1>1 DEF sigs_of
  <2>2. hybrid_verify(p.keys[1], p.caps[1])
    BY <1>3, <2>1 DEF accept_leaf
  <2>3. \A i \in 1..Len(p.caps) : /\ AdmitsLink(v, p, i)
                                  /\ hybrid_verify(p.keys[i], p.caps[i])
    BY <1>1, <1>3, <2>2
  <2>4. Justified(g)
    <3>1. /\ g.caps = p.caps /\ g.verifier = v /\ g.now = now
          /\ g.chain = FALSE /\ p.caps # << >>
      BY <1>1 DEF NewGrant
    <3> QED
      BY <1>1, <1>3, <3>1 DEF Justified, accept_leaf
  <2>5. /\ store' = [store EXCEPT ![StoreOf[v]] =
                             consume(st, replay_key(Leaf(p.caps)))]
        /\ granted' = [granted EXCEPT ![StoreOf[v]] =
                         Append(granted[StoreOf[v]], g)]
        /\ UNCHANGED << signed, revoked, confirmed, refused >>
    BY <1>1, <1>3, SettleStep
  <2> QED
    BY <1>3, <2>3, <2>4, <2>5 DEF Admission
<1> QED
  BY <1>1, <1>2, <1>3, LeafVerdict

LEMMA PresentChainStep ==
  ASSUME TypeOK, NEW v \in Verifiers, NEW p \in Presentations,
         NEW now \in Times, PresentChain(v, p, now)
  PROVE  UNCHANGED vars \/ Admission(v, p, now, TRUE)
<1> DEFINE r == chain_verdict(v, p, now)
           st == store[StoreOf[v]]
           g == NewGrant(v, p, now, TRUE)
<1>1. Settle(v, p, now, TRUE, r)
  BY DEF PresentChain
<1>2. CASE r = Verdict(FALSE, st)
  BY <1>1, <1>2, SettleStep
<1>3. CASE /\ r = Verdict(TRUE, consume(st, replay_key(Leaf(p.caps))))
           /\ ~store_contains(st, replay_key(Leaf(p.caps)))
           /\ st.len < STORE_CAP
           /\ \A i \in 1..Len(p.caps) : AdmitsLink(v, p, i)
           /\ accept_chain(p.caps, AudienceOf[v], now, sigs_of(p))
  <2>1. \A i \in 1..Len(p.caps) :
          sigs_of(p)[i] = hybrid_verify(p.keys[i], p.caps[i])
    BY DEF sigs_of
  <2>2. \A i \in 1..Len(p.caps) : /\ AdmitsLink(v, p, i)
                                  /\ hybrid_verify(p.keys[i], p.caps[i])
    BY <1>3, <2>1 DEF accept_chain
  <2>3. Justified(g)
    <3>1. /\ g.caps = p.caps /\ g.verifier = v /\ g.now = now
          /\ g.chain = TRUE
      BY DEF NewGrant
    <3>2. /\ p.caps # << >>
          /\ is_root(p.caps[1])
          /\ \A i \in 2..Len(p.caps) : valid_delegation(p.caps[i-1], p.caps[i])
          /\ accept_leaf(Leaf(p.caps), AudienceOf[v], now,
                         sigs_of(p)[Len(p.caps)])
      BY <1>3 DEF accept_chain, Leaf
    <3> QED
      BY <3>1, <3>2 DEF Justified, accept_leaf
  <2>4. /\ store' = [store EXCEPT ![StoreOf[v]] =
                             consume(st, replay_key(Leaf(p.caps)))]
        /\ granted' = [granted EXCEPT ![StoreOf[v]] =
                         Append(granted[StoreOf[v]], g)]
        /\ UNCHANGED << signed, revoked, confirmed, refused >>
    BY <1>1, <1>3, SettleStep
  <2> QED
    BY <1>3, <2>2, <2>3, <2>4 DEF Admission
<1> QED
  BY <1>1, <1>2, <1>3, ChainVerdict

-----------------------------------------------------------------------------
(* The inductive invariant.  NoReplay and the others speak of the admissions; *)
(* what makes them inductive is that the array store is the log of the        *)
(* admissions, and the revocation list that of the confirmed ids.             *)
LogKey(s, i) == replay_key(Leaf(granted[s][i].caps))

StoreIsLog ==
  \A s \in Stores :
    /\ store[s].len = Len(granted[s])
    /\ store[s].len <= STORE_CAP
    /\ \A i \in 1..Len(granted[s]) : store[s].used[i-1] = LogKey(s, i)

KeysDistinct ==
  \A s \in Stores : \A i, j \in 1..Len(granted[s]) :
    LogKey(s, i) = LogKey(s, j) => i = j

GrantsJustified ==
  \A s \in Stores : \A i \in 1..Len(granted[s]) :
    /\ StoreOf[granted[s][i].verifier] = s
    /\ Justified(granted[s][i])

ListIsConfirmed ==
  \A v \in Verifiers :
    /\ revoked[v].len <= STORE_CAP
    /\ confirmed[v] = { revoked[v].revoked[i] : i \in 0..(revoked[v].len - 1) }
    /\ IsFiniteSet(confirmed[v])
    /\ Cardinality(confirmed[v]) = revoked[v].len
    /\ refused[v] # {} => revoked[v].len = STORE_CAP
    /\ refused[v] \cap confirmed[v] = {}

IInv ==
  /\ TypeOK
  /\ StoreIsLog
  /\ KeysDistinct
  /\ GrantsJustified
  /\ GrantsSigned
  /\ ListIsConfirmed
  /\ RevocationSticks

-----------------------------------------------------------------------------
(* The kinds of step the system takes. *)
Sign == /\ signed \subseteq signed'
        /\ signed' \subseteq [ scheme : Schemes, key : Keys, cap : CapV1 ]
        /\ UNCHANGED << store, revoked, granted, confirmed, refused >>

LEMMA SignStep ==
  ASSUME TypeOK, NEW key \in Keys, NEW cap \in CapV1,
         hybrid_sign(key, cap) \/ classical_sign(key, cap)
  PROVE  Sign
BY DEF TypeOK, Sign, hybrid_sign, classical_sign, Schemes

LEMMA StepKinds ==
  ASSUME TypeOK, [Next]_vars
  PROVE  \/ UNCHANGED vars
         \/ Sign
         \/ \E v \in Verifiers, p \in Presentations, now \in Times,
               chain \in BOOLEAN : Admission(v, p, now, chain)
         \/ \E v \in Verifiers, id \in CapIds : Revoke(v, id)
<1>1. ASSUME NEW kc \in Signable, hybrid_sign(kc[1], kc[2])
      PROVE  Sign
  <2>1. kc[1] \in Keys /\ kc[2] \in CapV1
    BY VerifierConstants
  <2> QED
    BY <1>1, <2>1, SignStep
<1>2. ASSUME NEW kc \in HalfSignable, classical_sign(kc[1], kc[2])
      PROVE  Sign
  <2>1. kc[1] \in Keys /\ kc[2] \in CapV1
    BY VerifierConstants
  <2> QED
    BY <1>2, <2>1, SignStep
<1>3. ASSUME NEW v \in Verifiers, NEW p \in Presentations, NEW now \in Times,
             PresentLeaf(v, p, now) \/ PresentChain(v, p, now)
      PROVE  UNCHANGED vars \/ \E chain \in BOOLEAN : Admission(v, p, now, chain)
  BY <1>3, PresentLeafStep, PresentChainStep
<1>4. ASSUME NEW vid \in Revocable, Revoke(vid[1], vid[2])
      PROVE  \E v \in Verifiers, id \in CapIds : Revoke(v, id)
  <2>1. vid[1] \in Verifiers /\ vid[2] \in CapIds
    BY VerifierConstants
  <2> QED
    BY <1>4, <2>1
<1> QED
  BY <1>1, <1>2, <1>3, <1>4 DEF Next

-----------------------------------------------------------------------------
(* Type correctness. *)
LEMMA GrantType ==
  ASSUME TypeOK, NEW v \in Verifiers, NEW p \in Presentations,
         NEW now \in Times, NEW chain \in BOOLEAN
  PROVE  NewGrant(v, p, now, chain) \in Grant
BY PresentationType DEF TypeOK, NewGrant, Grant

LEMMA AdmissionType ==
  ASSUME TypeOK, NEW v \in Verifiers, NEW p \in Presentations,
         NEW now \in Times, NEW chain \in BOOLEAN,
         Admission(v, p, now, chain)
  PROVE  TypeOK'
<1> DEFINE s == StoreOf[v]
           key == replay_key(Leaf(p.caps))
           g == NewGrant(v, p, now, chain)
<1>1. s \in Stores
  BY VerifierConstants
<1>2. /\ g \in Grant
      /\ p.caps \in Seq(CapV1)
      /\ p.caps # << >>
  BY GrantType, PresentationType DEF Admission, Justified, NewGrant
<1>3. Leaf(p.caps) \in CapV1
  BY <1>2 DEF Leaf
<1>4. consume(store[s], key) \in NonceStore
  BY <1>1, <1>3, ReplayKeyType, ConsumeType DEF TypeOK
<1>5. Append(granted[s], g) \in Seq(Grant)
  BY <1>1, <1>2 DEF TypeOK
<1>6. store' \in [Stores -> NonceStore] /\ granted' \in [Stores -> Seq(Grant)]
  BY <1>4, <1>5 DEF Admission, TypeOK
<1> QED
  BY <1>6 DEF Admission, TypeOK

(* The three things revoke can do to the list and to the history. *)
LEMMA RevokeStep ==
  ASSUME TypeOK, NEW v \in Verifiers, NEW id \in CapIds, Revoke(v, id)
  PROVE  LET rs == revoked[v]
         IN  /\ UNCHANGED << signed, store, granted >>
             /\ \/ /\ is_revoked(rs, id)
                   /\ UNCHANGED << revoked, refused >>
                   /\ confirmed' = [confirmed EXCEPT ![v] = confirmed[v] \cup {id}]
                \/ /\ ~is_revoked(rs, id)
                   /\ rs.len >= STORE_CAP
                   /\ UNCHANGED << revoked, confirmed >>
                   /\ refused' = [refused EXCEPT ![v] = refused[v] \cup {id}]
                \/ /\ ~is_revoked(rs, id)
                   /\ rs.len < STORE_CAP
                   /\ revoked' = [revoked EXCEPT ![v] =
                        [ revoked |-> [rs.revoked EXCEPT ![rs.len] = id],
                          len |-> rs.len + 1 ]]
                   /\ confirmed' = [confirmed EXCEPT ![v] = confirmed[v] \cup {id}]
                   /\ UNCHANGED refused
<1> DEFINE rs == revoked[v]
           r == revoke(rs, id)
<1>1. /\ revoked' = [revoked EXCEPT ![v] = r.store]
      /\ confirmed' = IF r.ok
                      THEN [confirmed EXCEPT ![v] = confirmed[v] \cup {id}]
                      ELSE confirmed
      /\ refused' = IF r.ok THEN refused
                    ELSE [refused EXCEPT ![v] = refused[v] \cup {id}]
      /\ UNCHANGED << signed, store, granted >>
  BY DEF Revoke
<1>2. rs \in RevocationStore /\ rs.len \in Nat /\ STORE_CAP \in Nat
  BY StoreCapAssumption DEF TypeOK, RevocationStore
<1>3. [revoked EXCEPT ![v] = rs] = revoked
  BY DEF TypeOK
<1>4. CASE is_revoked(rs, id)
  <2>1. r = Verdict(TRUE, rs)
    BY <1>4 DEF revoke
  <2>2. r.ok /\ r.store = rs
    BY <2>1, VerdictFields
  <2> QED
    BY <1>1, <1>3, <1>4, <2>2
<1>5. CASE ~is_revoked(rs, id) /\ rs.len >= STORE_CAP
  <2>1. r = Verdict(FALSE, rs)
    BY <1>5 DEF revoke
  <2>2. ~r.ok /\ r.store = rs
    BY <2>1, VerdictFields
  <2> QED
    BY <1>1, <1>3, <1>5, <2>2
<1>6. CASE ~is_revoked(rs, id) /\ ~(rs.len >= STORE_CAP)
  <2> DEFINE rs2 == [ revoked |-> [rs.revoked EXCEPT ![rs.len] = id],
                      len |-> rs.len + 1 ]
  <2>1. r = Verdict(TRUE, rs2)
    BY <1>6 DEF revoke
  <2>2. r.ok /\ r.store = rs2
    BY <2>1, VerdictFields
  <2>3. rs.len < STORE_CAP
    BY <1>2, <1>6
  <2> QED
    BY <1>1, <1>6, <2>2, <2>3
<1> QED
  BY <1>4, <1>5, <1>6

LEMMA RevokeType ==
  ASSUME TypeOK, NEW v \in Verifiers, NEW id \in CapIds, Revoke(v, id)
  PROVE  TypeOK'
<1> DEFINE rs == revoked[v]
           rs2 == [ revoked |-> [rs.revoked EXCEPT ![rs.len] = id],
                    len |-> rs.len + 1 ]
<1>1. rs2 \in RevocationStore
  <2>1. rs.revoked \in [Slots -> CapIds] /\ rs.len \in Nat
    BY DEF TypeOK, RevocationStore
  <2>2. [rs.revoked EXCEPT ![rs.len] = id] \in [Slots -> CapIds]
    BY <2>1
  <2> QED
    BY <2>1, <2>2 DEF RevocationStore
<1>2. [revoked EXCEPT ![v] = rs2] \in [Verifiers -> RevocationStore]
  BY <1>1 DEF TypeOK
<1>3. /\ [confirmed EXCEPT ![v] = confirmed[v] \cup {id}]
           \in [Verifiers -> SUBSET CapIds]
      /\ [refused EXCEPT ![v] = refused[v] \cup {id}]
           \in [Verifiers -> SUBSET CapIds]
  BY DEF TypeOK
<1> QED
  BY <1>2, <1>3, RevokeStep DEF TypeOK

LEMMA InitType == Init => TypeOK
<1>1. EmptyNonceStore \in NonceStore
  BY CapabilityConstants
     DEF EmptyNonceStore, NonceStore, ZeroKey, ReplayKeys
<1>2. EmptyRevocationStore \in RevocationStore
  BY CapabilityConstants DEF EmptyRevocationStore, RevocationStore
<1> QED
  BY <1>1, <1>2, VerifierConstants DEF Init, TypeOK

LEMMA StepType == TypeOK /\ [Next]_vars => TypeOK'
<1> SUFFICES ASSUME TypeOK, [Next]_vars PROVE TypeOK'
  OBVIOUS
<1>1. CASE UNCHANGED vars
  BY <1>1 DEF vars, TypeOK
<1>2. CASE Sign
  BY <1>2 DEF Sign, TypeOK
<1>3. ASSUME NEW v \in Verifiers, NEW p \in Presentations, NEW now \in Times,
             NEW chain \in BOOLEAN, Admission(v, p, now, chain)
      PROVE  TypeOK'
  BY <1>3, AdmissionType
<1>4. ASSUME NEW v \in Verifiers, NEW id \in CapIds, Revoke(v, id)
      PROVE  TypeOK'
  BY <1>4, RevokeType
<1> QED
  BY <1>1, <1>2, <1>3, <1>4, StepKinds

(* Every store, list and record keeps its shape. *)
LEMMA TypeCorrect == Spec => []TypeOK
<1> QED
  BY InitType, StepType, PTL DEF Spec

-----------------------------------------------------------------------------
(* The store is the log of admissions. *)
LEMMA StoreContainsLog ==
  ASSUME TypeOK, StoreIsLog, NEW s \in Stores, NEW key
  PROVE  store_contains(store[s], key)
           <=> \E i \in 1..Len(granted[s]) : LogKey(s, i) = key
<1>1. /\ store[s].len = Len(granted[s])
      /\ store[s].len \in Nat /\ STORE_CAP \in Nat
      /\ store[s].len <= STORE_CAP
      /\ \A i \in 1..Len(granted[s]) : store[s].used[i-1] = LogKey(s, i)
  BY StoreCapAssumption DEF TypeOK, StoreIsLog, NonceStore
<1>2. LivePrefix(store[s].len) = 0..(store[s].len - 1)
  BY <1>1 DEF LivePrefix
<1>3. ASSUME NEW i \in 0..(store[s].len - 1), store[s].used[i] = key
      PROVE  \E j \in 1..Len(granted[s]) : LogKey(s, j) = key
  <2>1. i+1 \in 1..Len(granted[s]) /\ (i+1)-1 = i
    BY <1>1
  <2>2. LogKey(s, i+1) = key
    BY <1>1, <1>3, <2>1
  <2> QED
    BY <2>1, <2>2
<1>4. ASSUME NEW i \in 1..Len(granted[s]), LogKey(s, i) = key
      PROVE  \E j \in 0..(store[s].len - 1) : store[s].used[j] = key
  <2>1. i-1 \in 0..(store[s].len - 1)
    BY <1>1
  <2> QED
    BY <1>1, <1>4, <2>1
<1> QED
  BY <1>2, <1>3, <1>4 DEF store_contains

(* An admission's effect on the log of its own store and of the others. *)
LEMMA AdmissionLog ==
  ASSUME TypeOK, NEW v \in Verifiers, NEW p \in Presentations,
         NEW now \in Times, NEW chain \in BOOLEAN,
         Admission(v, p, now, chain)
  PROVE  LET s == StoreOf[v]
             n == Len(granted[s])
         IN  /\ s \in Stores
             /\ \A t \in Stores : t # s => /\ store'[t] = store[t]
                                           /\ granted'[t] = granted[t]
             /\ store'[s] = consume(store[s], replay_key(Leaf(p.caps)))
             /\ granted'[s] = Append(granted[s], NewGrant(v, p, now, chain))
             /\ Len(granted'[s]) = n + 1
             /\ \A i \in 1..n : granted'[s][i] = granted[s][i]
             /\ granted'[s][n+1] = NewGrant(v, p, now, chain)
<1> DEFINE s == StoreOf[v]
           g == NewGrant(v, p, now, chain)
<1>1. s \in Stores /\ g \in Grant
  BY VerifierConstants, GrantType
<1>2. granted[s] \in Seq(Grant)
  BY <1>1 DEF TypeOK
<1>3. /\ store' = [store EXCEPT ![s] = consume(store[s], replay_key(Leaf(p.caps)))]
      /\ granted' = [granted EXCEPT ![s] = Append(granted[s], g)]
  BY DEF Admission
<1>4. /\ \A t \in Stores : t # s => /\ store'[t] = store[t]
                                    /\ granted'[t] = granted[t]
      /\ store'[s] = consume(store[s], replay_key(Leaf(p.caps)))
      /\ granted'[s] = Append(granted[s], g)
  BY <1>1, <1>3 DEF TypeOK
<1> HIDE DEF g
<1>5. /\ Len(Append(granted[s], g)) = Len(granted[s]) + 1
      /\ \A i \in 1..Len(granted[s]) : Append(granted[s], g)[i] = granted[s][i]
      /\ Append(granted[s], g)[Len(granted[s]) + 1] = g
  BY <1>1, <1>2
<1> QED
  BY <1>1, <1>4, <1>5 DEF g

LEMMA AdmissionKeepsLog ==
  ASSUME TypeOK, StoreIsLog, KeysDistinct,
         NEW v \in Verifiers, NEW p \in Presentations,
         NEW now \in Times, NEW chain \in BOOLEAN,
         Admission(v, p, now, chain)
  PROVE  StoreIsLog' /\ KeysDistinct'
<1> DEFINE s == StoreOf[v]
           n == Len(granted[s])
           g == NewGrant(v, p, now, chain)
           key == replay_key(Leaf(p.caps))
<1>1. /\ s \in Stores
      /\ n \in Nat /\ STORE_CAP \in Nat
      /\ store[s] \in NonceStore
      /\ p.caps \in Seq(CapV1) /\ p.caps # << >> /\ g.caps = p.caps
  BY VerifierConstants, StoreCapAssumption, PresentationType
     DEF TypeOK, Admission, Justified, NewGrant
<1>2. key \in ReplayKeys
  <2>1. Leaf(p.caps) \in CapV1
    BY <1>1 DEF Leaf
  <2> QED
    BY <2>1, ReplayKeyType
<1>3. /\ ~store_contains(store[s], key)
      /\ store[s].len < STORE_CAP
  BY DEF Admission
<1>4. /\ \A t \in Stores : t # s => /\ store'[t] = store[t]
                                    /\ granted'[t] = granted[t]
      /\ store'[s] = consume(store[s], key)
      /\ Len(granted'[s]) = n + 1
      /\ \A i \in 1..n : granted'[s][i] = granted[s][i]
      /\ granted'[s][n+1] = g
  BY AdmissionLog
<1>5. /\ \A i \in 1..n : LogKey(s, i)' = LogKey(s, i)
      /\ \A t \in Stores : t # s => \A i : LogKey(t, i)' = LogKey(t, i)
  BY <1>4 DEF LogKey
<1>6. \A i : i = n+1 => LogKey(s, i)' = key
  BY <1>1, <1>4 DEF LogKey
<1>7. /\ store[s].len = n
      /\ \A i \in 1..n : store[s].used[i-1] = LogKey(s, i)
  BY <1>1 DEF StoreIsLog
<1> HIDE DEF s, n, g, key
<1>8. StoreIsLog'
  <2>1. /\ store'[s].len = n + 1
        /\ \A i \in Slots : store'[s].used[i] =
                              IF i = n THEN key ELSE store[s].used[i]
    BY <1>1, <1>2, <1>4, <1>7, ConsumeType
  <2>2. n + 1 <= STORE_CAP
    BY <1>1, <1>3, <1>7
  <2>3. ASSUME NEW i \in 1..(n+1)
        PROVE  store'[s].used[i-1] = LogKey(s, i)'
    <3>1. i-1 \in Slots
      BY <1>1, <2>2 DEF Slots
    <3>2. CASE i = n+1
      <4>1. i-1 = n
        BY <1>1, <3>2
      <4> QED
        BY <1>6, <2>1, <3>1, <3>2, <4>1
    <3>3. CASE i # n+1
      <4>1. i \in 1..n /\ i-1 # n
        BY <1>1, <3>3
      <4> QED
        BY <1>5, <1>7, <2>1, <3>1, <4>1
    <3> QED
      BY <3>2, <3>3
  <2>4. ASSUME NEW t \in Stores, t # s
        PROVE  /\ store'[t].len = Len(granted'[t])
               /\ store'[t].len <= STORE_CAP
               /\ \A i \in 1..Len(granted'[t]) :
                    store'[t].used[i-1] = LogKey(t, i)'
    BY <1>4, <1>5, <2>4 DEF StoreIsLog
  <2> QED
    BY <1>4, <2>1, <2>2, <2>3, <2>4 DEF StoreIsLog
<1>9. KeysDistinct'
  <2>1. \A i \in 1..n : LogKey(s, i) # key
    BY <1>1, <1>3, StoreContainsLog DEF n
  <2>2. ASSUME NEW i \in 1..(n+1), NEW j \in 1..(n+1),
               LogKey(s, i)' = LogKey(s, j)'
        PROVE  i = j
    <3>1. \A k \in 1..(n+1) : k = n+1 \/ k \in 1..n
      BY <1>1
    <3>2. \A k \in 1..n : LogKey(s, k)' # key
      BY <1>5, <2>1
    <3>3. CASE i \in 1..n /\ j \in 1..n
      <4>1. LogKey(s, i) = LogKey(s, j)
        BY <1>5, <2>2, <3>3
      <4> QED
        BY <1>1, <3>3, <4>1 DEF KeysDistinct, n
    <3> QED
      BY <1>6, <2>2, <3>1, <3>2, <3>3
  <2>3. ASSUME NEW t \in Stores, t # s,
               NEW i \in 1..Len(granted'[t]), NEW j \in 1..Len(granted'[t]),
               LogKey(t, i)' = LogKey(t, j)'
        PROVE  i = j
    BY <1>4, <1>5, <2>3 DEF KeysDistinct
  <2> QED
    BY <1>4, <2>2, <2>3 DEF KeysDistinct
<1> QED
  BY <1>8, <1>9

-----------------------------------------------------------------------------
(* What every grant satisfies, one grant at a time. *)
LEMMA GrantsAre ==
  ASSUME TypeOK
  PROVE  /\ \A s \in Stores : /\ granted[s] \in Seq(Grant)
                              /\ DOMAIN granted[s] = 1..Len(granted[s])
                              /\ Len(granted[s]) \in Nat
         /\ \A g : g \in Grants <=>
              \E s \in Stores : \E i \in 1..Len(granted[s]) : g = granted[s][i]
         /\ Grants \subseteq Grant
<1>1. \A s \in Stores : /\ granted[s] \in Seq(Grant)
                        /\ DOMAIN granted[s] = 1..Len(granted[s])
                        /\ Len(granted[s]) \in Nat
  BY DEF TypeOK
<1>2. \A g : g \in Grants <=>
        \E s \in Stores : \E i \in 1..Len(granted[s]) : g = granted[s][i]
  BY <1>1 DEF Grants
<1>3. \A s \in Stores : \A i \in 1..Len(granted[s]) : granted[s][i] \in Grant
  BY <1>1
<1> QED
  BY <1>1, <1>2, <1>3

LEMMA NewGrantsAre ==
  ASSUME TypeOK, TypeOK', NEW v \in Verifiers, NEW p \in Presentations,
         NEW now \in Times, NEW chain \in BOOLEAN,
         Admission(v, p, now, chain)
  PROVE  \A g \in Grants' : g \in Grants \/ g = NewGrant(v, p, now, chain)
<1> DEFINE s == StoreOf[v]
           n == Len(granted[s])
           gn == NewGrant(v, p, now, chain)
<1>1. /\ s \in Stores /\ n \in Nat
      /\ \A t \in Stores : t # s => granted'[t] = granted[t]
      /\ Len(granted'[s]) = n + 1
      /\ \A i \in 1..n : granted'[s][i] = granted[s][i]
      /\ granted'[s][n+1] = gn
  BY AdmissionLog, GrantsAre
<1> SUFFICES ASSUME NEW g \in Grants'
             PROVE  g \in Grants \/ g = gn
  OBVIOUS
<1>2. Grants' = UNION { { granted'[t][i] : i \in DOMAIN granted'[t] } :
                          t \in Stores }
  BY DEF Grants
<1>7. PICK t \in Stores : \E i \in 1..Len(granted'[t]) : g = granted'[t][i]
  <2>1. \A u \in Stores : DOMAIN granted'[u] = 1..Len(granted'[u])
    BY DEF TypeOK
  <2> QED
    BY <1>2, <2>1
<1>3. PICK i \in 1..Len(granted'[t]) : g = granted'[t][i]
  BY <1>7
<1> HIDE DEF s, n, gn
<1>4. CASE t # s
  BY <1>1, <1>3, <1>4, GrantsAre
<1>5. CASE t = s /\ i = n+1
  BY <1>1, <1>3, <1>5
<1>6. CASE t = s /\ i # n+1
  <2>1. i \in 1..n
    BY <1>1, <1>3, <1>6
  <2>2. g = granted[s][i]
    BY <1>1, <1>3, <1>6, <2>1
  <2> QED
    BY <1>1, <2>1, <2>2, GrantsAre DEF n
<1> QED
  BY <1>4, <1>5, <1>6

LEMMA AdmissionJustified ==
  ASSUME TypeOK, GrantsJustified,
         NEW v \in Verifiers, NEW p \in Presentations,
         NEW now \in Times, NEW chain \in BOOLEAN,
         Admission(v, p, now, chain)
  PROVE  GrantsJustified'
<1> DEFINE s == StoreOf[v]
           n == Len(granted[s])
           g == NewGrant(v, p, now, chain)
<1>1. /\ s \in Stores /\ n \in Nat
      /\ \A t \in Stores : t # s => granted'[t] = granted[t]
      /\ Len(granted'[s]) = n + 1
      /\ \A i \in 1..n : granted'[s][i] = granted[s][i]
      /\ granted'[s][n+1] = g
  BY AdmissionLog, GrantsAre
<1>2. Justified(g) /\ StoreOf[g.verifier] = s
  BY DEF Admission, NewGrant
<1> HIDE DEF s, n, g
<1>3. ASSUME NEW t \in Stores, NEW i \in 1..Len(granted'[t])
      PROVE  StoreOf[granted'[t][i].verifier] = t /\ Justified(granted'[t][i])
  <2>1. CASE t # s
    BY <1>1, <2>1 DEF GrantsJustified
  <2>2. CASE t = s /\ i = n+1
    BY <1>1, <1>2, <2>2
  <2>3. CASE t = s /\ i # n+1
    <3>1. i \in 1..n
      BY <1>1, <2>3
    <3> QED
      BY <1>1, <2>3, <3>1 DEF GrantsJustified, n
  <2> QED
    BY <2>1, <2>2, <2>3
<1> QED
  BY <1>3 DEF GrantsJustified, Justified

(* A grant's links were signed: serialize is injective, so what verifies was  *)
(* signed as such; and the named issuer is the delegate of the link before.   *)
LEMMA VerifiesSigned ==
  ASSUME TypeOK, NEW key \in Keys, NEW cap \in CapV1,
         hybrid_verify(key, cap), NEW scheme \in Schemes
  PROVE  [scheme |-> scheme, key |-> key, cap |-> cap] \in signed
<1>1. PICK sig \in signed : /\ sig.scheme = scheme
                            /\ sig.key = key
                            /\ signed_message(sig.cap) = signed_message(cap)
  BY DEF hybrid_verify, verifies, Schemes
<1>2. sig \in [ scheme : Schemes, key : Keys, cap : CapV1 ]
  BY DEF TypeOK
<1>3. sig.cap = cap
  BY <1>1, <1>2, SerializeInjective DEF signed_message
<1>4. sig = [scheme |-> scheme, key |-> key, cap |-> cap]
  BY <1>1, <1>2, <1>3
<1> QED
  BY <1>1, <1>4

SignedGrant(g, sigs) ==
  \A i \in DOMAIN g.caps :
    /\ \A scheme \in Schemes :
         [scheme |-> scheme, key |-> g.keys[i], cap |-> g.caps[i]] \in sigs
    /\ commit[g.keys[i]] = g.caps[i].issuer_id
    /\ i > 1 => g.caps[i].issuer_id = g.caps[i-1].subject_id

LEMMA AdmissionSigned ==
  ASSUME TypeOK, TypeOK', GrantsSigned,
         NEW v \in Verifiers, NEW p \in Presentations,
         NEW now \in Times, NEW chain \in BOOLEAN,
         Admission(v, p, now, chain)
  PROVE  GrantsSigned'
<1> DEFINE g == NewGrant(v, p, now, chain)
<1>1. /\ p.caps \in Seq(CapV1) /\ p.keys \in Seq(Keys)
      /\ Len(p.keys) = Len(p.caps)
      /\ g.caps = p.caps /\ g.keys = p.keys /\ g.chain = chain
      /\ DOMAIN g.caps = 1..Len(p.caps)
      /\ signed' = signed
  BY PresentationType DEF NewGrant, Admission
<1>2. Justified(g)
  BY DEF Admission
<1>3. ASSUME NEW i \in 1..Len(p.caps)
      PROVE  /\ \A scheme \in Schemes :
                  [scheme |-> scheme, key |-> p.keys[i], cap |-> p.caps[i]]
                    \in signed
             /\ commit[p.keys[i]] = p.caps[i].issuer_id
             /\ i > 1 => p.caps[i].issuer_id = p.caps[i-1].subject_id
  <2>1. p.keys[i] \in Keys /\ p.caps[i] \in CapV1
    BY <1>1
  <2>2. AdmitsLink(v, p, i) /\ hybrid_verify(p.keys[i], p.caps[i])
    BY DEF Admission
  <2>3. \A scheme \in Schemes :
          [scheme |-> scheme, key |-> p.keys[i], cap |-> p.caps[i]] \in signed
    BY <2>1, <2>2, VerifiesSigned
  <2>4. commit[p.keys[i]] = p.caps[i].issuer_id
    BY <2>2 DEF AdmitsLink
  <2>5. ASSUME i > 1
        PROVE  p.caps[i].issuer_id = p.caps[i-1].subject_id
    <3> HIDE DEF g
    <3>1. Len(p.caps) # 1 /\ i \in 2..Len(p.caps)
      <4>1. \A n \in Nat : \A k \in 1..n : k > 1 => n # 1 /\ k \in 2..n
        OBVIOUS
      <4>2. Len(p.caps) \in Nat
        BY PresentationType
      <4> QED
        BY <2>5, <4>1, <4>2
    <3>2. valid_delegation(g.caps[i-1], g.caps[i])
      BY <1>1, <1>2, <3>1 DEF Justified
    <3> QED
      BY <1>1, <3>2 DEF valid_delegation
  <2> QED
    BY <2>3, <2>4, <2>5
<1>4. SignedGrant(g, signed)
  BY <1>1, <1>3 DEF SignedGrant
<1>5. \A h \in Grants : SignedGrant(h, signed)
  BY DEF GrantsSigned, SignedGrant
<1>6. \A h \in Grants' : SignedGrant(h, signed')
  BY <1>1, <1>4, <1>5, NewGrantsAre
<1> QED
  BY <1>6 DEF GrantsSigned, SignedGrant

-----------------------------------------------------------------------------
(* The revocation list holds exactly the confirmed ids. *)
LEMMA IsRevokedConfirmed ==
  ASSUME TypeOK, ListIsConfirmed, NEW v \in Verifiers, NEW id
  PROVE  is_revoked(revoked[v], id) <=> id \in confirmed[v]
<1>1. /\ revoked[v].len \in Nat /\ STORE_CAP \in Nat
      /\ revoked[v].len <= STORE_CAP
      /\ confirmed[v] = { revoked[v].revoked[i] : i \in 0..(revoked[v].len - 1) }
  BY StoreCapAssumption DEF TypeOK, RevocationStore, ListIsConfirmed
<1>2. LivePrefix(revoked[v].len) = 0..(revoked[v].len - 1)
  BY <1>1 DEF LivePrefix
<1> QED
  BY <1>1, <1>2 DEF is_revoked

LEMMA AdmissionUnrevoked ==
  ASSUME TypeOK, TypeOK', ListIsConfirmed, RevocationSticks,
         NEW v \in Verifiers, NEW p \in Presentations,
         NEW now \in Times, NEW chain \in BOOLEAN,
         Admission(v, p, now, chain)
  PROVE  RevocationSticks'
<1> DEFINE g == NewGrant(v, p, now, chain)
<1>1. /\ g.caps = p.caps /\ g.dead = confirmed[v]
      /\ DOMAIN p.caps = 1..Len(p.caps)
  BY PresentationType DEF NewGrant
<1>2. \A i \in 1..Len(p.caps) : p.caps[i].cap_id \notin confirmed[v]
  BY IsRevokedConfirmed DEF Admission, AdmitsLink
<1> HIDE DEF g
<1>3. \A i \in DOMAIN g.caps : g.caps[i].cap_id \notin g.dead
  BY <1>1, <1>2
<1>4. \A h \in Grants' : h \in Grants \/ h = g
  BY NewGrantsAre DEF g
<1> QED
  BY <1>3, <1>4 DEF RevocationSticks

LEMMA RevokeKeepsList ==
  ASSUME TypeOK, ListIsConfirmed,
         NEW v \in Verifiers, NEW id \in CapIds, Revoke(v, id)
  PROVE  ListIsConfirmed'
<1> DEFINE rs == revoked[v]
           rs2 == [ revoked |-> [rs.revoked EXCEPT ![rs.len] = id],
                    len |-> rs.len + 1 ]
           OK(w) == /\ revoked[w].len <= STORE_CAP
                    /\ confirmed[w] = { revoked[w].revoked[i] :
                                          i \in 0..(revoked[w].len - 1) }
                    /\ IsFiniteSet(confirmed[w])
                    /\ Cardinality(confirmed[w]) = revoked[w].len
                    /\ refused[w] # {} => revoked[w].len = STORE_CAP
                    /\ refused[w] \cap confirmed[w] = {}
<1>1. /\ rs.len \in Nat /\ STORE_CAP \in Nat /\ rs.len <= STORE_CAP
      /\ rs.revoked \in [Slots -> CapIds]
      /\ OK(v)
  BY StoreCapAssumption DEF TypeOK, RevocationStore, ListIsConfirmed
<1>2. is_revoked(rs, id) <=> id \in confirmed[v]
  BY IsRevokedConfirmed
<1>3. CASE /\ is_revoked(rs, id)
           /\ UNCHANGED << revoked, refused >>
           /\ confirmed' = [confirmed EXCEPT ![v] = confirmed[v] \cup {id}]
  <2>1. confirmed[v] \cup {id} = confirmed[v]
    BY <1>2, <1>3
  <2>2. confirmed' = confirmed
    BY <1>3, <2>1 DEF TypeOK
  <2> QED
    BY <1>3, <2>2 DEF ListIsConfirmed
<1>4. CASE /\ ~is_revoked(rs, id)
           /\ rs.len >= STORE_CAP
           /\ UNCHANGED << revoked, confirmed >>
           /\ refused' = [refused EXCEPT ![v] = refused[v] \cup {id}]
  <2>1. rs.len = STORE_CAP /\ id \notin confirmed[v]
    BY <1>1, <1>2, <1>4
  <2>2. \A w \in Verifiers : w # v => refused'[w] = refused[w]
    BY <1>4 DEF TypeOK
  <2>3. refused'[v] = refused[v] \cup {id}
    BY <1>4 DEF TypeOK
  <2>4. refused'[v] \cap confirmed'[v] = {}
    BY <1>1, <1>4, <2>1, <2>3
  <2> QED
    BY <1>4, <2>1, <2>2, <2>4 DEF ListIsConfirmed
<1>5. CASE /\ ~is_revoked(rs, id)
           /\ rs.len < STORE_CAP
           /\ revoked' = [revoked EXCEPT ![v] = rs2]
           /\ confirmed' = [confirmed EXCEPT ![v] = confirmed[v] \cup {id}]
           /\ UNCHANGED refused
  <2>1. /\ revoked'[v] = rs2
        /\ confirmed'[v] = confirmed[v] \cup {id}
        /\ \A w \in Verifiers : w # v => /\ revoked'[w] = revoked[w]
                                         /\ confirmed'[w] = confirmed[w]
    BY <1>5 DEF TypeOK
  <2>2. id \notin confirmed[v] /\ refused[v] = {}
    BY <1>1, <1>2, <1>5
  <2>3. /\ IsFiniteSet(confirmed'[v])
        /\ Cardinality(confirmed'[v]) = rs.len + 1
    <3>1. IsFiniteSet(confirmed[v]) /\ Cardinality(confirmed[v]) = rs.len
      BY <1>1
    <3> HIDE DEF rs, OK
    <3>2. /\ IsFiniteSet(confirmed[v] \cup {id})
          /\ Cardinality(confirmed[v] \cup {id}) = Cardinality(confirmed[v]) + 1
      BY <2>2, <3>1, FS_AddElement
    <3> QED
      BY <2>1, <3>1, <3>2
  <2>4. rs2.len = rs.len + 1 /\ rs2.revoked = [rs.revoked EXCEPT ![rs.len] = id]
    OBVIOUS
  <2>5. /\ rs.len \in Slots
        /\ \A i \in 0..(rs.len - 1) : i \in Slots /\ i # rs.len
        /\ 0..((rs.len + 1) - 1) = (0..(rs.len - 1)) \cup {rs.len}
    BY <1>1, <1>5 DEF Slots
  <2> HIDE DEF rs2
  <2>6. /\ rs2.revoked[rs.len] = id
        /\ \A i \in 0..(rs.len - 1) : rs2.revoked[i] = rs.revoked[i]
    BY <1>1, <2>4, <2>5
  <2>7. { rs2.revoked[i] : i \in 0..(rs2.len - 1) } = confirmed[v] \cup {id}
    <3>1. confirmed[v] = { rs.revoked[i] : i \in 0..(rs.len - 1) }
      BY <1>1
    <3> QED
      BY <2>4, <2>5, <2>6, <3>1
  <2>8. rs2.len <= STORE_CAP
    BY <1>1, <1>5, <2>4
  <2>9. OK(v)'
    <3>1. revoked'[v].len <= STORE_CAP
      BY <2>1, <2>8
    <3>2. confirmed'[v] = { revoked'[v].revoked[i] :
                              i \in 0..(revoked'[v].len - 1) }
      BY <2>1, <2>7
    <3>3. Cardinality(confirmed'[v]) = revoked'[v].len
      BY <2>1, <2>3, <2>4
    <3>4. refused'[v] = {}
      BY <1>5, <2>2
    <3> QED
      BY <2>3, <3>1, <3>2, <3>3, <3>4
  <2>10. ASSUME NEW w \in Verifiers, w # v
         PROVE  OK(w)'
    <3>1. OK(w)
      BY DEF ListIsConfirmed
    <3>2. /\ revoked'[w] = revoked[w]
          /\ confirmed'[w] = confirmed[w]
          /\ refused'[w] = refused[w]
      BY <1>5, <2>1, <2>10
    <3> QED
      BY <3>1, <3>2
  <2>11. ASSUME NEW w \in Verifiers
         PROVE  OK(w)'
    <3>1. CASE w = v
      BY ONLY <2>9, <3>1
    <3>2. CASE w # v
      BY <2>10, <3>2
    <3> QED
      BY <3>1, <3>2
  <2> QED
    BY <2>11 DEF ListIsConfirmed
<1> QED
  BY <1>3, <1>4, <1>5, RevokeStep

-----------------------------------------------------------------------------
(* The invariant holds at the start and is kept by every step. *)
LEMMA InitInv == Init => IInv
<1> SUFFICES ASSUME Init PROVE IInv
  OBVIOUS
<1>1. TypeOK
  BY InitType
<1>2. /\ \A s \in Stores : granted[s] = << >> /\ Len(granted[s]) = 0
      /\ \A s \in Stores : store[s].len = 0
  BY DEF Init, EmptyNonceStore
<1>3. STORE_CAP \in Nat
  BY StoreCapAssumption
<1>4. StoreIsLog /\ KeysDistinct /\ GrantsJustified
  BY <1>2, <1>3 DEF StoreIsLog, KeysDistinct, GrantsJustified
<1>5. Grants = {}
  BY <1>1, <1>2, GrantsAre
<1>6. GrantsSigned /\ RevocationSticks
  BY <1>5 DEF GrantsSigned, RevocationSticks
<1>7. \A v \in Verifiers : /\ revoked[v].len = 0
                           /\ confirmed[v] = {} /\ refused[v] = {}
  BY DEF Init, EmptyRevocationStore
<1>8. ListIsConfirmed
  <2>1. IsFiniteSet({}) /\ Cardinality({}) = 0
    BY FS_EmptySet
  <2>2. 0 <= STORE_CAP /\ 0..(0-1) = {}
    BY <1>3
  <2>3. \A v \in Verifiers :
          { revoked[v].revoked[i] : i \in 0..(revoked[v].len - 1) } = {}
    BY <1>7, <2>2
  <2> QED
    BY <1>7, <2>1, <2>2, <2>3 DEF ListIsConfirmed
<1> QED
  BY <1>1, <1>4, <1>6, <1>8 DEF IInv

LEMMA UnchangedInv == IInv /\ UNCHANGED vars => IInv'
<1> SUFFICES ASSUME IInv, UNCHANGED vars PROVE IInv'
  OBVIOUS
<1>1. /\ signed' = signed /\ store' = store /\ revoked' = revoked
      /\ granted' = granted /\ confirmed' = confirmed /\ refused' = refused
  BY DEF vars
<1>2. TypeOK' /\ StoreIsLog' /\ KeysDistinct' /\ ListIsConfirmed'
  BY <1>1 DEF IInv, TypeOK, StoreIsLog, KeysDistinct, LogKey, ListIsConfirmed
<1>3. GrantsJustified' /\ GrantsSigned' /\ RevocationSticks'
  BY <1>1 DEF IInv, GrantsJustified, Justified, GrantsSigned,
              RevocationSticks, Grants
<1> QED
  BY <1>2, <1>3 DEF IInv

LEMMA SignInv == IInv /\ Sign => IInv'
<1> SUFFICES ASSUME IInv, Sign PROVE IInv'
  OBVIOUS
<1>1. TypeOK'
  BY DEF IInv, Sign, TypeOK
<1>2. /\ StoreIsLog' /\ KeysDistinct' /\ GrantsJustified'
      /\ ListIsConfirmed' /\ RevocationSticks'
  BY DEF IInv, Sign, StoreIsLog, KeysDistinct, LogKey, GrantsJustified,
         Justified, ListIsConfirmed, RevocationSticks, Grants
<1>3. Grants' = Grants /\ signed \subseteq signed'
  BY DEF Sign, Grants
<1>4. GrantsSigned'
  BY <1>3 DEF IInv, GrantsSigned
<1> QED
  BY <1>1, <1>2, <1>4 DEF IInv

LEMMA AdmissionInv ==
  ASSUME IInv, NEW v \in Verifiers, NEW p \in Presentations,
         NEW now \in Times, NEW chain \in BOOLEAN,
         Admission(v, p, now, chain)
  PROVE  IInv'
<1>1. TypeOK'
  BY AdmissionType DEF IInv
<1>2. StoreIsLog' /\ KeysDistinct'
  BY AdmissionKeepsLog DEF IInv
<1>3. GrantsJustified'
  BY AdmissionJustified DEF IInv
<1>4. GrantsSigned'
  BY <1>1, AdmissionSigned DEF IInv
<1>5. ListIsConfirmed'
  BY DEF IInv, ListIsConfirmed, Admission
<1>6. RevocationSticks'
  BY <1>1, AdmissionUnrevoked DEF IInv
<1> QED
  BY <1>1, <1>2, <1>3, <1>4, <1>5, <1>6 DEF IInv

LEMMA RevokeInv ==
  ASSUME IInv, NEW v \in Verifiers, NEW id \in CapIds, Revoke(v, id)
  PROVE  IInv'
<1>1. TypeOK'
  BY RevokeType DEF IInv
<1>2. UNCHANGED << signed, store, granted >>
  BY DEF Revoke
<1>3. /\ StoreIsLog' /\ KeysDistinct' /\ GrantsJustified'
      /\ GrantsSigned' /\ RevocationSticks'
  BY <1>2 DEF IInv, StoreIsLog, KeysDistinct, LogKey, GrantsJustified,
              Justified, GrantsSigned, RevocationSticks, Grants
<1>4. ListIsConfirmed'
  BY RevokeKeepsList DEF IInv
<1> QED
  BY <1>1, <1>3, <1>4 DEF IInv

LEMMA StepInv == IInv /\ [Next]_vars => IInv'
<1> SUFFICES ASSUME IInv, [Next]_vars PROVE IInv'
  OBVIOUS
<1>1. TypeOK
  BY DEF IInv
<1>2. CASE UNCHANGED vars
  BY <1>2, UnchangedInv
<1>3. CASE Sign
  BY <1>3, SignInv
<1>4. ASSUME NEW v \in Verifiers, NEW p \in Presentations, NEW now \in Times,
             NEW chain \in BOOLEAN, Admission(v, p, now, chain)
      PROVE  IInv'
  BY <1>4, AdmissionInv
<1>5. ASSUME NEW v \in Verifiers, NEW id \in CapIds, Revoke(v, id)
      PROVE  IInv'
  BY <1>5, RevokeInv
<1> QED
  BY <1>1, <1>2, <1>3, <1>4, <1>5, StepKinds

(* The inductive invariant of the gates and of revoke. *)
THEOREM Invariance == Spec => []IInv
<1> QED
  BY InitInv, StepInv, PTL DEF Spec

-----------------------------------------------------------------------------
(* No token is admitted twice, anywhere.  Within a store the admitted keys    *)
(* are distinct; across stores the audience binding and OneStorePerAudience   *)
(* make two admissions of one token admissions at one store.                  *)
LEMMA InvNoReplay == IInv => NoReplay
<1> SUFFICES ASSUME IInv, NEW s \in Stores, NEW t \in Stores,
                    NEW i \in DOMAIN granted[s], NEW j \in DOMAIN granted[t],
                    Leaf(granted[s][i].caps) = Leaf(granted[t][j].caps)
             PROVE  s = t /\ i = j
  BY DEF NoReplay
<1>1. i \in 1..Len(granted[s]) /\ j \in 1..Len(granted[t])
  BY GrantsAre DEF IInv
<1>2. /\ StoreOf[granted[s][i].verifier] = s
      /\ StoreOf[granted[t][j].verifier] = t
      /\ Leaf(granted[s][i].caps).audience_id = AudienceOf[granted[s][i].verifier]
      /\ Leaf(granted[t][j].caps).audience_id = AudienceOf[granted[t][j].verifier]
  BY <1>1 DEF IInv, GrantsJustified, Justified
<1>3. /\ granted[s][i] \in Grant /\ granted[t][j] \in Grant
  BY <1>1, GrantsAre DEF IInv
<1>4. /\ granted[s][i].verifier \in Verifiers
      /\ granted[t][j].verifier \in Verifiers
  BY <1>3 DEF Grant
<1>5. s = t
  BY <1>2, <1>4, OneStorePerAudience
<1>6. LogKey(s, i) = LogKey(t, j)
  BY DEF LogKey
<1> QED
  BY <1>1, <1>5, <1>6 DEF IInv, KeysDistinct

THEOREM NoTokenReplayed == Spec => []NoReplay
<1> QED
  BY Invariance, InvNoReplay, PTL

(* Every admitted link was signed under both schemes by the key it names. *)
THEOREM AllLinksSigned == Spec => []GrantsSigned
<1>1. IInv => GrantsSigned
  BY DEF IInv
<1> QED
  BY <1>1, Invariance, PTL

(* Admitted chains attenuate from the root down, at every length, and every   *)
(* ancestor is in force for this audience at the instant of admission.        *)
LEMMA InvAttenuate == IInv => GrantsAttenuate
<1> SUFFICES ASSUME IInv, NEW g \in Grants, g.chain
             PROVE  /\ is_root(g.caps[1])
                    /\ \A j \in DOMAIN g.caps : \A i \in 1..j :
                         /\ chain_invariant(g.caps[i], g.caps[j])
                         /\ g.caps[j].max_depth + (j - i) <= g.caps[i].max_depth
                    /\ \A i \in DOMAIN g.caps :
                         /\ g.caps[i].audience_id = AudienceOf[g.verifier]
                         /\ g.caps[i].not_before <= g.now
                         /\ g.now <= g.caps[i].not_after
  BY DEF GrantsAttenuate
<1>1. Justified(g) /\ g \in Grant
  BY GrantsAre DEF IInv, GrantsJustified
<1>2. /\ g.caps \in Seq(CapV1) /\ g.caps # << >> /\ g.now \in Nat
      /\ is_root(g.caps[1])
      /\ \A k \in 2..Len(g.caps) : valid_delegation(g.caps[k-1], g.caps[k])
  BY <1>1, VerifierConstants DEF Grant, Justified
<1>3. DOMAIN g.caps = 1..Len(g.caps) /\ Len(g.caps) \in Nat \ {0}
  BY <1>2
<1>4. ASSUME NEW j \in DOMAIN g.caps, NEW i \in 1..j
      PROVE  /\ chain_invariant(g.caps[i], g.caps[j])
             /\ g.caps[j].max_depth + (j - i) <= g.caps[i].max_depth
  <2>1. i \in 1..Len(g.caps) /\ j \in i..Len(g.caps)
    BY <1>3
  <2> QED
    BY <1>2, <2>1, ChainAttenuates
<1>5. ASSUME NEW i \in DOMAIN g.caps
      PROVE  /\ g.caps[i].audience_id = AudienceOf[g.verifier]
             /\ g.caps[i].not_before <= g.now
             /\ g.now <= g.caps[i].not_after
  <2> DEFINE n == Len(g.caps)
             leaf == g.caps[n]
  <2>1. n \in DOMAIN g.caps /\ i \in 1..n
    BY <1>3
  <2>2. chain_invariant(g.caps[i], leaf)
    BY <1>4, <2>1
  <2>3. /\ leaf.audience_id = AudienceOf[g.verifier]
        /\ leaf.not_before <= g.now /\ g.now <= leaf.not_after
    BY <1>1 DEF Justified, Leaf
  <2>4. \A c \in CapV1 : c.not_before \in Nat /\ c.not_after \in Nat
    BY DEF CapV1
  <2>5. g.caps[i] \in CapV1 /\ leaf \in CapV1
    BY <1>2, <1>3, <2>1
  <2> QED
    BY <1>2, <2>2, <2>3, <2>4, <2>5 DEF chain_invariant
<1> QED
  BY <1>2, <1>4, <1>5

THEOREM AdmittedChainsAttenuate == Spec => []GrantsAttenuate
<1> QED
  BY Invariance, InvAttenuate, PTL

(* A confirmed revocation holds from then on, at every link and both gates. *)
THEOREM ConfirmedRevocationHolds == Spec => []RevocationSticks
<1>1. IInv => RevocationSticks
  BY DEF IInv
<1> QED
  BY <1>1, Invariance, PTL

(* revoke fails open only at the capacity it documents. *)
THEOREM RefusalMeansFull == Spec => []RefusedOnlyWhenFull
<1>1. IInv => RefusedOnlyWhenFull
  BY DEF IInv, ListIsConfirmed, RefusedOnlyWhenFull
<1> QED
  BY <1>1, Invariance, PTL

-----------------------------------------------------------------------------
(* The chain gate admits what it must: under the invariant, the only stateful *)
(* reasons to turn an authorised presentation away are a leaf already logged  *)
(* and a log of STORE_CAP admissions.                                         *)
LEMMA InvDenial == IInv => DenialHasCause
<1> SUFFICES ASSUME IInv, NEW v \in Verifiers, NEW p \in Presentations,
                    NEW now \in Times, Authorised(v, p, now),
                    Len(granted[StoreOf[v]]) < STORE_CAP,
                    \A i \in DOMAIN granted[StoreOf[v]] :
                      replay_key(Leaf(granted[StoreOf[v]][i].caps))
                        # replay_key(Leaf(p.caps))
             PROVE  chain_verdict(v, p, now).ok
  BY DEF DenialHasCause
<1> DEFINE s == StoreOf[v]
           st == store[s]
<1>1. /\ TypeOK /\ StoreIsLog /\ ListIsConfirmed
      /\ s \in Stores
      /\ p.caps \in Seq(CapV1) /\ p.keys \in Seq(Keys)
      /\ Len(p.keys) = Len(p.caps)
      /\ DOMAIN p.caps = 1..Len(p.caps)
      /\ DOMAIN granted[s] = 1..Len(granted[s])
  BY VerifierConstants, PresentationType, GrantsAre DEF IInv
<1>2. ASSUME NEW i \in 1..Len(p.caps)
      PROVE  link_admissible(p.caps[i], pks_of(p)[i], revoked[v])
  <2>1. key_id(pks_of(p)[i]) = commit[p.keys[i]]
    BY <1>1, CommittingToCommits DEF pks_of
  <2>2. ~is_revoked(revoked[v], p.caps[i].cap_id)
    BY <1>1, IsRevokedConfirmed DEF Authorised
  <2> QED
    BY <1>1, <2>1, <2>2 DEF link_admissible, Authorised
<1>3. Len(p.caps) \in Nat /\ Len(p.caps) > 0
  BY <1>1 DEF Authorised
<1>4. accept_chain(p.caps, AudienceOf[v], now, sigs_of(p))
  <2>1. \A i \in 1..Len(p.caps) : sigs_of(p)[i]
    BY <1>1 DEF sigs_of, Authorised
  <2>2. \A i \in 2..Len(p.caps) : valid_delegation(p.caps[i-1], p.caps[i])
    <3>1. \A i \in 2..Len(p.caps) : i \in DOMAIN p.caps /\ i > 1
      BY <1>1, <1>3
    <3> QED
      BY <3>1 DEF Authorised
  <2>3. /\ Leaf(p.caps).not_before \in Nat /\ Leaf(p.caps).not_after \in Nat
        /\ now \in Nat
    <3>1. Leaf(p.caps) \in CapV1
      BY <1>1, <1>3 DEF Leaf
    <3> QED
      BY <3>1, VerifierConstants DEF CapV1
  <2>4. /\ Leaf(p.caps).audience_id = AudienceOf[v]
        /\ Leaf(p.caps).not_before <= now /\ now <= Leaf(p.caps).not_after
    BY <2>3 DEF Authorised
  <2>5. accept_leaf(p.caps[Len(p.caps)], AudienceOf[v], now,
                    sigs_of(p)[Len(p.caps)])
    BY <1>3, <2>1, <2>4 DEF accept_leaf, Leaf
  <2> QED
    BY <1>3, <2>1, <2>2, <2>5 DEF accept_chain, Authorised
<1>5. ~store_contains(st, replay_key(Leaf(p.caps)))
  BY <1>1, StoreContainsLog DEF LogKey
<1>6. st.len < STORE_CAP /\ st.len \in Nat /\ STORE_CAP \in Nat
  BY <1>1, StoreCapAssumption DEF StoreIsLog, TypeOK, NonceStore
<1>7. chain_verdict(v, p, now) =
        Verdict(TRUE, consume(st, replay_key(Leaf(p.caps))))
  <2>1. chain_verdict(v, p, now) =
          accept_chain_once(p.caps, AudienceOf[v], now, sigs_of(p), st)
    BY <1>2 DEF chain_verdict, accept_chain_full
  <2> DEFINE gate == accept_chain(p.caps, AudienceOf[v], now, sigs_of(p))
  <2>2. accept_chain_once(p.caps, AudienceOf[v], now, sigs_of(p), st) =
          accept_once(gate, replay_key(Leaf(p.caps)), st)
    <3>1. Len(p.caps) # 0
      BY <1>3
    <3> QED
      BY <3>1, Zenon DEF accept_chain_once, Leaf
  <2>3. ~(st.len >= STORE_CAP)
    BY <1>6
  <2> QED
    BY <1>4, <1>5, <2>1, <2>2, <2>3 DEF accept_once
<1> QED
  BY <1>7, VerdictFields

THEOREM DenialsHaveCause == Spec => []DenialHasCause
<1> QED
  BY Invariance, InvDenial, PTL

-----------------------------------------------------------------------------
(* The arrays are their logs to the last slot.  What IInv leaves open is the  *)
(* slots past the log: they are those of an empty store, or list, still.      *)
PaddingUntouched ==
  /\ \A s \in Stores : \A i \in Slots : i >= store[s].len => store[s].used[i] = ZeroKey
  /\ \A v \in Verifiers : \A i \in Slots :
       i >= revoked[v].len => revoked[v].revoked[i] = ZeroId

LEMMA AdmissionKeepsPadding ==
  ASSUME IInv, PaddingUntouched, NEW v \in Verifiers, NEW p \in Presentations,
         NEW now \in Times, NEW chain \in BOOLEAN,
         Admission(v, p, now, chain)
  PROVE  PaddingUntouched'
<1> DEFINE s == StoreOf[v]
           key == replay_key(Leaf(p.caps))
<1>1. /\ s \in Stores /\ store[s] \in NonceStore
      /\ store'[s] = consume(store[s], key)
      /\ \A t \in Stores : t # s => store'[t] = store[t]
      /\ UNCHANGED revoked
  BY AdmissionLog, VerifierConstants DEF IInv, TypeOK, Admission
<1>2. key \in ReplayKeys
  <2>1. Leaf(p.caps) \in CapV1
    BY PresentationType DEF Admission, Justified, NewGrant, Leaf
  <2> QED
    BY <2>1, ReplayKeyType
<1> HIDE DEF s, key
<1>3. /\ store'[s].len = store[s].len + 1 /\ store[s].len \in Nat
      /\ \A i \in Slots : store'[s].used[i] = IF i = store[s].len THEN key ELSE store[s].used[i]
  BY <1>1, <1>2, ConsumeType DEF NonceStore
<1>4. ASSUME NEW i \in Slots, i >= store'[s].len
      PROVE  store'[s].used[i] = ZeroKey
  <2>1. i >= store[s].len /\ i # store[s].len
    BY <1>3, <1>4 DEF Slots
  <2> QED
    BY <1>1, <1>3, <2>1 DEF PaddingUntouched
<1> QED
  BY <1>1, <1>4 DEF PaddingUntouched

LEMMA RevokeKeepsPadding ==
  ASSUME IInv, PaddingUntouched, NEW v \in Verifiers, NEW id \in CapIds, Revoke(v, id)
  PROVE  PaddingUntouched'
<1> DEFINE rs == revoked[v]
           rs2 == [ revoked |-> [rs.revoked EXCEPT ![rs.len] = id], len |-> rs.len + 1 ]
<1>1. UNCHANGED store
  BY DEF Revoke
<1>2. CASE UNCHANGED revoked
  BY <1>1, <1>2 DEF PaddingUntouched
<1>3. CASE revoked' = [revoked EXCEPT ![v] = rs2]
  <2>1. /\ revoked'[v] = rs2
        /\ \A w \in Verifiers : w # v => revoked'[w] = revoked[w]
        /\ rs.len \in Nat /\ rs.revoked \in [Slots -> CapIds]
    BY <1>3 DEF IInv, TypeOK, RevocationStore
  <2>2. ASSUME NEW i \in Slots, i >= revoked'[v].len
        PROVE  revoked'[v].revoked[i] = ZeroId
    <3>1. i >= rs.len /\ i # rs.len
      BY <2>1, <2>2 DEF Slots
    <3>2. revoked'[v].revoked[i] = rs.revoked[i]
      BY <2>1, <3>1
    <3> QED
      BY <3>1, <3>2 DEF PaddingUntouched
  <2> QED
    BY <1>1, <2>1, <2>2 DEF PaddingUntouched
<1> QED
  BY <1>2, <1>3, RevokeStep DEF IInv

LEMMA StepKeepsPadding ==
  ASSUME IInv, PaddingUntouched, [Next]_vars
  PROVE  PaddingUntouched'
<1>1. CASE UNCHANGED vars
  BY <1>1 DEF vars, PaddingUntouched
<1>2. CASE Sign
  BY <1>2 DEF Sign, PaddingUntouched
<1>3. ASSUME NEW v \in Verifiers, NEW p \in Presentations, NEW now \in Times,
             NEW chain \in BOOLEAN, Admission(v, p, now, chain)
      PROVE  PaddingUntouched'
  BY <1>3, AdmissionKeepsPadding
<1>4. ASSUME NEW v \in Verifiers, NEW id \in CapIds, Revoke(v, id)
      PROVE  PaddingUntouched'
  BY <1>4, RevokeKeepsPadding
<1>5. TypeOK
  BY DEF IInv
<1> QED
  BY <1>1, <1>2, <1>3, <1>4, <1>5, StepKinds

LEMMA InvExact ==
  ASSUME IInv, PaddingUntouched
  PROVE  StoresExact
<1>1. ASSUME NEW s \in Stores
      PROVE  /\ store[s].len = Len(admitted[s]) /\ store[s].len <= STORE_CAP
             /\ \A i \in Slots :
                  store[s].used[i] = IF i < store[s].len THEN admitted[s][i+1] ELSE ZeroKey
  <2> DEFINE n == Len(granted[s])
  <2>1. /\ n \in Nat /\ DOMAIN granted[s] = 1..n
        /\ store[s].len = n /\ store[s].len <= STORE_CAP
        /\ \A i \in 1..n : store[s].used[i-1] = LogKey(s, i)
    <3>1. granted[s] \in Seq(Grant)
      BY DEF IInv, TypeOK
    <3>2. n \in Nat /\ DOMAIN granted[s] = 1..n
      BY <3>1
    <3> QED
      BY <3>2 DEF IInv, StoreIsLog
  <2> HIDE DEF n
  <2>2. admitted[s] = [i \in 1..n |-> LogKey(s, i)]
    BY <2>1 DEF admitted, LogKey
  <2>3. Len(admitted[s]) = n
    BY <2>1, <2>2
  <2>4. ASSUME NEW i \in Slots
        PROVE  store[s].used[i] = IF i < n THEN admitted[s][i+1] ELSE ZeroKey
    <3>1. i \in Nat
      BY DEF Slots
    <3>2. CASE i < n
      <4>1. i+1 \in 1..n /\ (i+1)-1 = i
        BY <2>1, <3>1, <3>2
      <4>2. admitted[s][i+1] = LogKey(s, i+1)
        BY <2>2, <4>1
      <4> QED
        BY <2>1, <3>2, <4>1, <4>2
    <3>3. CASE ~(i < n)
      <4>1. i >= store[s].len
        BY <2>1, <3>1, <3>3
      <4> QED
        BY <3>3, <4>1 DEF PaddingUntouched
    <3> QED
      BY <3>2, <3>3
  <2> QED
    BY <2>1, <2>3, <2>4
<1>2. \A v \in Verifiers :
        /\ revoked[v].len = Cardinality(confirmed[v]) /\ revoked[v].len <= STORE_CAP
        /\ confirmed[v] = { revoked[v].revoked[i] : i \in 0..(revoked[v].len - 1) }
        /\ \A i \in Slots : i >= revoked[v].len => revoked[v].revoked[i] = ZeroId
  BY DEF IInv, ListIsConfirmed, PaddingUntouched
<1> QED
  BY <1>1, <1>2 DEF StoresExact

(* The arrays hold what was admitted and what was confirmed, and nothing     *)
(* else: no append falls outside them and no refused call leaves a trace.    *)
THEOREM StoresAreExact == Spec => []StoresExact
<1>1. Init => PaddingUntouched
  BY DEF Init, EmptyNonceStore, EmptyRevocationStore, PaddingUntouched
<1>2. IInv /\ PaddingUntouched /\ [Next]_vars => PaddingUntouched'
  BY StepKeepsPadding
<1>3. IInv /\ PaddingUntouched => StoresExact
  BY InvExact
<1> QED
  BY <1>1, <1>2, <1>3, Invariance, PTL DEF Spec

-----------------------------------------------------------------------------
(* The verifiers implement the abstract single-use store: an admission is the *)
(* abstract Admit, every other step leaves the admissions alone.              *)
LEMMA AdmissionAdmits ==
  ASSUME IInv, NEW v \in Verifiers, NEW p \in Presentations,
         NEW now \in Times, NEW chain \in BOOLEAN,
         Admission(v, p, now, chain)
  PROVE  Abstract!Next
<1> DEFINE s == StoreOf[v]
           n == Len(granted[s])
           key == replay_key(Leaf(p.caps))
           g == NewGrant(v, p, now, chain)
<1>1. /\ s \in Stores /\ n \in Nat
      /\ \A t \in Stores : t # s => granted'[t] = granted[t]
      /\ Len(granted'[s]) = n + 1
      /\ \A i \in 1..n : granted'[s][i] = granted[s][i]
      /\ granted'[s][n+1] = g
      /\ \A t \in Stores : DOMAIN granted[t] = 1..Len(granted[t])
  BY AdmissionLog, GrantsAre DEF IInv
<1>2. \A t \in Stores : DOMAIN granted'[t] = 1..Len(granted'[t])
  BY AdmissionType DEF IInv, TypeOK
<1>3. key \in ReplayKeys /\ g.caps = p.caps
  <2>1. Leaf(p.caps) \in CapV1
    BY PresentationType DEF Admission, Justified, NewGrant, Leaf
  <2> QED
    BY <2>1, ReplayKeyType DEF NewGrant
<1>4. key \notin Abstract!Spent(s)
  <2>1. \A i \in 1..n : LogKey(s, i) # key
    BY <1>1, StoreContainsLog DEF IInv, Admission
  <2>2. DOMAIN admitted[s] = 1..n /\ \A i \in 1..n : admitted[s][i] = LogKey(s, i)
    BY <1>1 DEF admitted, LogKey
  <2> QED
    BY <2>1, <2>2 DEF Abstract!Spent
<1>5. Len(admitted[s]) = n /\ n < STORE_CAP
  <2>1. admitted[s] = [i \in 1..n |-> LogKey(s, i)]
    BY <1>1 DEF admitted, LogKey
  <2>2. Len(admitted[s]) = n
    BY <1>1, <2>1
  <2>3. n < STORE_CAP
    BY <1>1 DEF IInv, StoreIsLog, Admission
  <2> QED
    BY <2>2, <2>3
<1>6. admitted' = [admitted EXCEPT ![s] = Append(admitted[s], key)]
  <2> HIDE DEF s, n, key, g
  <2>1. admitted[s] = [i \in 1..n |-> LogKey(s, i)]
    BY <1>1 DEF admitted, LogKey, n
  <2>2. Append(admitted[s], key) =
          [i \in 1..(n+1) |-> IF i = n+1 THEN key ELSE LogKey(s, i)]
    BY <1>1, <2>1
  <2>3. admitted'[s] = Append(admitted[s], key)
    <3>1. admitted'[s] = [i \in 1..(n+1) |->
                            replay_key(Leaf(granted'[s][i].caps))]
      BY <1>1, <1>2 DEF admitted
    <3>2. \A i \in 1..(n+1) : replay_key(Leaf(granted'[s][i].caps)) =
                                IF i = n+1 THEN key ELSE LogKey(s, i)
      <4>1. \A i \in 1..(n+1) : i = n+1 \/ i \in 1..n
        BY <1>1
      <4> QED
        BY <1>1, <1>3, <4>1 DEF LogKey, key
    <3> QED
      BY <2>2, <3>1, <3>2
  <2>4. ASSUME NEW t \in Stores, t # s
        PROVE  admitted'[t] = admitted[t]
    BY <1>1, <2>4 DEF admitted
  <2>5. /\ admitted' = [t \in Stores |-> admitted'[t]]
        /\ admitted = [t \in Stores |-> admitted[t]]
    BY DEF admitted
  <2> QED
    BY <2>3, <2>4, <2>5
<1>7. Abstract!Admit(s, key)
  BY <1>4, <1>5, <1>6 DEF Abstract!Admit
<1> QED
  BY <1>1, <1>3, <1>7 DEF Abstract!Next

LEMMA InitAbstract == Init => Abstract!Init
BY DEF Init, Abstract!Init, admitted

LEMMA StepAbstract == IInv /\ [Next]_vars => [Abstract!Next]_admitted
<1> SUFFICES ASSUME IInv, [Next]_vars
             PROVE  Abstract!Next \/ UNCHANGED admitted
  OBVIOUS
<1>1. TypeOK
  BY DEF IInv
<1>2. ASSUME UNCHANGED granted PROVE UNCHANGED admitted
  BY <1>2 DEF admitted
<1>3. CASE UNCHANGED vars
  BY <1>2, <1>3 DEF vars
<1>4. CASE Sign
  BY <1>2, <1>4 DEF Sign
<1>5. ASSUME NEW v \in Verifiers, NEW p \in Presentations, NEW now \in Times,
             NEW chain \in BOOLEAN, Admission(v, p, now, chain)
      PROVE  Abstract!Next
  BY <1>5, AdmissionAdmits
<1>6. ASSUME NEW v \in Verifiers, NEW id \in CapIds, Revoke(v, id)
      PROVE  UNCHANGED admitted
  BY <1>2, <1>6 DEF Revoke
<1> QED
  BY <1>1, <1>3, <1>4, <1>5, <1>6, StepKinds

(* Every behaviour of the verifiers is one of the single-use store. *)
THEOREM SingleUseRefinement == Spec => ImplementsSingleUse
<1> QED
  BY InitAbstract, StepAbstract, Invariance, PTL
     DEF Spec, ImplementsSingleUse, Abstract!Spec
=============================================================================
