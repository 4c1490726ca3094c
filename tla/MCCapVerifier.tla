--------------------------- MODULE MCCapVerifier ----------------------------
(***************************************************************************)
(* The delegation of cap/demo/src/main.rs as a TLC instance: an owner       *)
(* grants an agent, the agent a worker, the worker a guest; with the        *)
(* demo's ill-formed variants (escalated, re-delegated terminal, foreign    *)
(* signer, half signed), and tokens a chain check must tell apart from the  *)
(* good ones.                                                               *)
(***************************************************************************)
EXTENDS CapVerifier

CONSTANTS owner, agent, worker, guest, v1, v2, v3, here, there

MCKeys == {owner, agent, worker, guest}
MCCommit == [k \in MCKeys |-> k]
MCVerifiers == {v1, v2, v3}
MCAudiences == {here, there}
\* v1 and v2 are replicas behind one audience and share its store.
MCAudienceOf == [v \in Verifiers |-> IF v = v3 THEN there ELSE here]

RootCap ==
  [ version |-> 1, suite_id |-> 1, cap_type |-> 1, flags |-> {"delegate"},
    issuer_id |-> owner, subject_id |-> agent, parent_id |-> 0, cap_id |-> 1,
    resource_id |-> 1, action |-> {"read", "write"}, max_depth |-> 2,
    constraints_digest |-> 1, not_before |-> 1, not_after |-> 3, nonce |-> 1,
    audience_id |-> here ]

MidCap == [ RootCap EXCEPT !.issuer_id = agent, !.subject_id = worker,
              !.parent_id = 1, !.cap_id = 2, !.max_depth = 1,
              !.not_after = 2 ]
LeafCap == [ MidCap EXCEPT !.cap_id = 3, !.flags = {}, !.action = {"read"},
               !.not_before = 2 ]
SubCap == [ LeafCap EXCEPT !.issuer_id = worker, !.subject_id = guest,
              !.parent_id = 2, !.cap_id = 4, !.max_depth = 0 ]
\* A root whose replay key is all zeros, like the unused slots of the store.
ZeroCap == [ RootCap EXCEPT !.cap_id = 0, !.nonce = 0 ]
\* The leaf readdressed: differs from LeafCap in the audience alone.
TwinCap == [ LeafCap EXCEPT !.audience_id = there ]

EscalatedCap == [ LeafCap EXCEPT !.action = {"read", "admin"} ]
LateCap == [ LeafCap EXCEPT !.not_after = 4 ]
EarlyCap == [ LeafCap EXCEPT !.not_before = 0 ]
DeepCap == [ LeafCap EXCEPT !.max_depth = 2 ]
FlaggedCap == [ LeafCap EXCEPT !.flags = {"delegate", "spare"} ]
OffResourceCap == [ LeafCap EXCEPT !.resource_id = 2 ]
UnboundCap == [ LeafCap EXCEPT !.constraints_digest = 2 ]
OffTypeCap == [ LeafCap EXCEPT !.cap_type = 2 ]
OldCap == [ LeafCap EXCEPT !.version = 2 ]
OffSuiteCap == [ LeafCap EXCEPT !.suite_id = 2 ]
TerminalChildCap == [ SubCap EXCEPT !.parent_id = 3 ]
OrphanCap == [ SubCap EXCEPT !.parent_id = 1 ]

BadLinks == { EscalatedCap, LateCap, EarlyCap, DeepCap, FlaggedCap,
              OffResourceCap, UnboundCap, OffTypeCap, OldCap, OffSuiteCap }

Issued(cap) == << cap.issuer_id, cap >>

Present(caps) == [ caps |-> caps,
                   keys |-> [i \in 1..Len(caps) |-> caps[i].issuer_id] ]

-----------------------------------------------------------------------------
(* Authority: every ill-formed link, signed by its issuer, and the token that *)
(* looks like an unused slot, offered at one verifier.                        *)
AuthorityVerifiers == {v1}
AuthorityPresentations ==
  { Present(caps) : caps \in
      { << >>, <<RootCap>>, <<ZeroCap>>, <<LeafCap>>, <<OldCap>>, <<RootCap, MidCap>>,
        <<RootCap, LeafCap>>, <<RootCap, TwinCap>>, <<MidCap, SubCap>>,
        <<RootCap, SubCap>>, <<RootCap, OrphanCap>>,
        <<RootCap, MidCap, SubCap>>, <<RootCap, LeafCap, TerminalChildCap>> }
      \cup { <<RootCap, cap>> : cap \in BadLinks } }
  \cup { [ caps |-> <<RootCap, LeafCap>>, keys |-> <<owner, guest>> ] }
AuthorityPreSigned ==
  { Issued(cap) : cap \in
      { RootCap, MidCap, ZeroCap, TerminalChildCap, OrphanCap } \cup BadLinks }
  \cup { <<guest, LeafCap>> }
\* The leaf may be signed in full or, as in the demo's downgrade, by half.
AuthoritySignable == { Issued(LeafCap), Issued(SubCap) }
AuthorityHalfSignable == { Issued(LeafCap), Issued(SubCap), Issued(TwinCap) }

(* Single use: replicas v1 and v2 behind one audience, v3 behind another,     *)
(* a root whose replay key is the zero padding of the store, and a leaf       *)
(* issued once for each audience under one cap_id and nonce.                  *)
SharedPresentations ==
  { Present(caps) : caps \in
      { <<RootCap>>, <<ZeroCap>>, <<LeafCap>>, <<TwinCap>>,
        <<RootCap, LeafCap>>, <<RootCap, MidCap, SubCap>> } }
SharedPreSigned ==
  { Issued(cap) : cap \in { RootCap, MidCap, SubCap, ZeroCap, LeafCap } }
SharedSignable == { Issued(TwinCap) }

(* The replicas keep revocation lists of their own, of two slots each.      *)
SharedRevocable == { <<v1, 1>>, <<v1, 2>>, <<v1, 3>> }

Nothing == {}
=============================================================================
