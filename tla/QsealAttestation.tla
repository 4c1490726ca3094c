-------------------------- MODULE QsealAttestation --------------------------
(***************************************************************************)
(* One attestation key pair from request to acceptance: hosts put requests  *)
(* to the applet, the applet validates, builds TBS-V1 and signs it under    *)
(* both schemes, the host reads the evidence back in fragments and puts     *)
(* them together, and the verifier checks both signatures and consumes the  *)
(* challenge (qseal/ref/validate.c, assertion.c, evidence.c, hybrid.c,      *)
(* nonce.c, driven as qseal/demo/src/main.rs drives their twins).           *)
(*                                                                          *)
(* The path of the fragments is not in the code; it follows READ_EVIDENCE   *)
(* of docs/qseal/QSEAL-v0.1.md 11.3: evidence is volatile, a fragment may   *)
(* be read again, and the host puts into its array any fragment it holds,   *)
(* in any order and any number of times.  Foreign are the fragments the     *)
(* demo's negative scenarios put in their place.                            *)
(*                                                                          *)
(* asked, signed, produced and accepted are history variables.              *)
(***************************************************************************)
EXTENDS QsealTbs, QsealStore, QsealEvidence

CONSTANTS
  Requests,   \* requests a host may put to the applet
  issuer_id, ak_id,
  Foreign,    \* fragments that are not from the applet
  MaxClock,   \* the applet clock's last reading
  MaxAsked    \* bound on the distinct requests made

\* The blob starts with the transcript and its two signatures.
ASSUME RoomForEvidence == QSEAL_NUM_FRAGS >= 3

Halves == {"ecdsa", "mldsa"}

\* One of the two signature families is unforgeable, whichever it is.
ASSUME OneFamilyHolds ==
  \E h \in Halves :
    \A f \in Foreign : << f.data[1], f.data[2] >> # << h, ak_id >>

\* A challenge key is what a request's three fields make.
ASSUME RequestsHaveKeys ==
  \A r \in Requests : << r.verifier_id, r.request_id, r.nonce >> \in ChallengeKeys

VARIABLES
  clock,     \* applet: issued_at of the next assertion
  evidence,  \* applet: the blob READ_EVIDENCE serves, or NoEvidence
  held,      \* host: the fragments read so far
  store,     \* verifier: qseal_nonce_store_t
  asked,     \* every request made: [req, at, ok]
  signed,    \* every signature made: << half, key, bytes >>
  produced,  \* every blob served
  accepted   \* the transcripts accepted, in order

vars == << clock, evidence, held, store, asked, signed, produced, accepted >>

NoEvidence == << >>

applet(at) == [ version |-> 1, issuer_id |-> issuer_id, ak_id |-> ak_id,
                issued_at |-> at ]

sign(half, tbs) == << half, ak_id, tbs >>

\* The blob of an assertion; what follows the signatures is fixed.
evidence_of(tbs) ==
  [ i \in Index |-> CASE i = 0 -> tbs
                      [] i = 1 -> sign("ecdsa", tbs)
                      [] i = 2 -> sign("mldsa", tbs)
                      [] OTHER -> << "certificate", ak_id >> ]

(* The downgraded verifier of hybrid.c: either signature suffices. *)
qseal_hybrid_accept_downgrade(tbs, sig_c, sig_pq) ==
  sig_c = sign("ecdsa", tbs) \/ sig_pq = sign("mldsa", tbs)

qseal_hybrid_accept(tbs, sig_c, sig_pq) ==
  sig_c = sign("ecdsa", tbs) /\ sig_pq = sign("mldsa", tbs)

challenge_key(t) == << t.verifier_id, t.request_id, t.nonce >>

NoTbs == [ f \in Fields(V1Order) |-> 0 ]

(* The verifier's decision on a reassembled blob. *)
verifier_accept(blob, s) ==
  LET parsed == qseal_tbs_parse(blob[0], NoTbs)
  IN qseal_nonce_accept(
       s, parsed.ok /\ qseal_hybrid_accept(blob[0], blob[1], blob[2]),
       challenge_key(parsed.t))

-----------------------------------------------------------------------------
Init ==
  /\ clock = 1
  /\ evidence = NoEvidence
  /\ held = {}
  /\ store \in FreshStores
  /\ asked = {} /\ signed = {} /\ produced = {} /\ accepted = << >>

(* CREATE_ASSERTION: a malformed request is refused and nothing is signed. *)
CreateAssertion(r) ==
  LET made == qseal_create_assertion_checked(r, applet(clock))
      entry == [req |-> r, at |-> clock, ok |-> made.ok]
  IN /\ Cardinality(asked \cup {entry}) <= MaxAsked
     /\ asked' = asked \cup {entry}
     /\ IF made.ok
        THEN /\ signed' = signed \cup { sign(h, made.out) : h \in Halves }
             /\ evidence' = evidence_of(made.out)
             /\ produced' = produced \cup {evidence'}
        ELSE UNCHANGED << signed, evidence, produced >>
     /\ UNCHANGED << clock, held, store, accepted >>

ReadFragment(i) ==
  /\ evidence # NoEvidence
  /\ held' = held \cup { fragment_evidence(evidence)[i] }
  /\ UNCHANGED << clock, evidence, store, asked, signed, produced, accepted >>

(* A reset or a timeout drops the evidence; the host may ask again. *)
Reset ==
  /\ evidence # NoEvidence
  /\ evidence' = NoEvidence
  /\ UNCHANGED << clock, held, store, asked, signed, produced, accepted >>

Tick ==
  /\ clock < MaxClock
  /\ clock' = clock + 1
  /\ UNCHANGED << evidence, held, store, asked, signed, produced, accepted >>

\* The arrays of fragments a host can hand to the reassembler.
Arrays == [ Index -> held \cup Foreign ]

Submit(frags) ==
  LET whole == qseal_evidence_reassemble(frags)
      result == verifier_accept(whole.out, store)
  IN /\ whole.ok
     /\ store' = result.store
     /\ accepted' = IF result.ok THEN Append(accepted, whole.out[0])
                    ELSE accepted
     /\ UNCHANGED << clock, evidence, held, asked, signed, produced >>

Next ==
  \/ \E r \in Requests : CreateAssertion(r)
  \/ \E i \in Index : ReadFragment(i)
  \/ Reset
  \/ Tick
  \/ \E frags \in Arrays : Submit(frags)

Spec == Init /\ [][Next]_vars
-----------------------------------------------------------------------------
WellFormed(r) ==
  /\ r.suite_id = HYB_1
  /\ r.assertion_type \in {1, 2, 3, 5, 6}
  /\ r.assertion_origin \in {1, 2, 3}
  /\ r.object_hash_algorithm = SHA_256

(* Whatever is signed decodes, field by field, to a well-formed request made  *)
(* to the applet, under the applet's own identity and the clock of that       *)
(* request, and never names PROFILE_ACTION_OBSERVED (properties 1, 2, 5 and 7 *)
(* of QSEAL-v0.1 section 16, through qseal_create_assertion_checked and       *)
(* qseal_tbs_serialize).                                                      *)
SignedMatchesRequest ==
  \A s \in signed :
    LET parsed == qseal_tbs_parse(s[3], NoTbs)
    IN /\ parsed.ok
       /\ \E a \in asked :
            /\ WellFormed(a.req)
            /\ \A f \in RequestFields : parsed.t[f] = a.req[f]
            /\ \A f \in AppletFields : parsed.t[f] = applet(a.at)[f]

(* Whichever fragments the host puts together, from one evidence or several,  *)
(* repeated, stale or foreign, one signature family broken: an accepted       *)
(* transcript was signed by both keys of the pair, over the same bytes        *)
(* (qseal_evidence_reassemble, qseal_hybrid_accept).                          *)
AcceptedWasSigned ==
  \A n \in DOMAIN accepted : \A h \in Halves : sign(h, accepted[n]) \in signed

(* Arrays filled from the fragments of one evidence reassemble exactly when   *)
(* no fragment is missing, and then to that evidence (property 6, for one     *)
(* reading).                                                                  *)
OneReadingExact ==
  \A e \in produced :
    \A frags \in [ Index -> { fragment_evidence(e)[i] : i \in Index } ] :
      LET whole == qseal_evidence_reassemble(frags)
      IN /\ whole.ok <=> \A j \in Index : \E i \in Index : frags[i].seq = j
         /\ whole.ok => whole.out = e

(* Evidence the applet produced is accepted as long as its challenge has not  *)
(* been consumed and fewer than QSEAL_STORE_CAP have: neither refused         *)
(* requests, nor mixed, foreign or repeated submissions, nor what the slots   *)
(* held at the start stand in the way.                                        *)
EvidenceAdmitted ==
  \A e \in produced :
    LET key(b) == challenge_key(qseal_tbs_parse(b, NoTbs).t)
    IN /\ Len(accepted) < QSEAL_STORE_CAP
       /\ \A n \in DOMAIN accepted : key(accepted[n]) # key(e[0])
       => verifier_accept(e, store).ok

(* A challenge is accepted once, however many assertions were made and read   *)
(* for it: retries after a reset sign new bytes under the same key            *)
(* (qseal_nonce_accept; QSEAL-v0.1 11.3).                                     *)
Abstract == INSTANCE SingleUse WITH
  Stores <- {"verifier"}, Tokens <- ChallengeKeys,
  Capacity <- QSEAL_STORE_CAP,
  admitted <- [ s \in {"verifier"} |->
    [ n \in DOMAIN accepted |->
        challenge_key(qseal_tbs_parse(accepted[n], NoTbs).t) ] ]

ImplementsSingleUse == Abstract!Spec

-----------------------------------------------------------------------------
(* What the documents say and the code does not do.                         *)

(* evidence.h: "reassembly produces exactly the original evidence bytes or    *)
(* fails closed".                                                             *)
ReassemblyExact ==
  \A frags \in [ Index -> held ] :
    LET whole == qseal_evidence_reassemble(frags)
    IN whole.ok => whole.out \in produced
=============================================================================
