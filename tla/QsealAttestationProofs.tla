----------------------- MODULE QsealAttestationProofs -----------------------
(***************************************************************************)
(* From request to acceptance, for any requests, any capacity of the store, *)
(* any number of fragments and any foreign fragments that leave one family  *)
(* of signatures unforged.                                                  *)
(***************************************************************************)
EXTENDS QsealAttestation, SequenceTheorems, FiniteSetTheorems, WellFoundedInduction, TLAPS

USE QsealStoreCap, QsealNumFrags, RoomForEvidence

(* A sequence behind a first element.                                         *)
prefixed(x, s) ==
  /\ (<< x >> \o s)[1] = x
  /\ \A i \in 1..Len(s) : (<< x >> \o s)[1 + i] = s[i]

LEMMA Prefixed ==
  ASSUME NEW S, NEW s \in Seq(S), NEW x
  PROVE  prefixed(x, s)
<1> DEFINE T == S \cup {x}
           p == << x >>
<1>1. p \in Seq(T) /\ Len(p) = 1 /\ p[1] = x
  OBVIOUS
<1>2. s \in Seq(T) /\ Len(s) \in Nat
  BY SeqMonotonic, LenProperties
<1> HIDE DEF T, p
<1>3. \A i \in 1..Len(p) + Len(s) :
        (p \o s)[i] = IF i <= Len(p) THEN p[i] ELSE s[i - Len(p)]
  BY <1>1, <1>2, ConcatProperties, Zenon
<1>4. (p \o s)[1] = x
  BY <1>1, <1>2, <1>3
<1>5. ASSUME NEW i \in 1..Len(s)
      PROVE  (p \o s)[1 + i] = s[i]
  <2>1. 1 + i \in 1..Len(p) + Len(s) /\ ~(1 + i <= Len(p)) /\ (1 + i) - Len(p) = i
    BY <1>1, <1>2
  <2> QED
    BY <2>1, <1>3
<1> QED
  BY <1>4, <1>5 DEF p, prefixed

LEMMA CapIsNat == QSEAL_STORE_CAP \in Nat
OBVIOUS

Transcripts ==
  { qseal_create_assertion(r, applet(at)) : r \in Requests, at \in Nat }

Types ==
  /\ clock \in Nat
  /\ store \in NonceStore
  /\ accepted \in Seq(Transcripts)

(* The transcript was built for a request that passed the gate.               *)
AskedFor(tbs) ==
  \E a \in asked :
    /\ a.req \in Requests /\ a.at \in Nat
    /\ qseal_validate_request(a.req, applet(a.at))
    /\ tbs = qseal_create_assertion(a.req, applet(a.at))

BothSigned(tbs) == \A h \in Halves : sign(h, tbs) \in signed

SignedAsked ==
  \A s \in signed : \E h \in Halves : s = sign(h, s[3]) /\ AskedFor(s[3])

ProducedSigned ==
  \A e \in produced : \E tbs \in Transcripts :
    e = evidence_of(tbs) /\ AskedFor(tbs) /\ BothSigned(tbs)

HeldServed ==
  /\ evidence # NoEvidence => evidence \in produced
  /\ \A f \in held :
       \E e \in produced, i \in Index : f = fragment_evidence(e)[i]

AcceptedSigned ==
  \A n \in DOMAIN accepted : AskedFor(accepted[n]) /\ BothSigned(accepted[n])

key_of(tbs) == challenge_key(qseal_tbs_parse(tbs, NoTbs).t)

(* The array is the log of what was accepted, no challenge twice.             *)
StoreIsLog ==
  /\ store.count = Len(accepted)
  /\ \A n \in DOMAIN accepted : store.slots[n - 1] = key_of(accepted[n])

KeysDistinct ==
  \A m, n \in DOMAIN accepted : key_of(accepted[m]) = key_of(accepted[n]) => m = n

Flow == SignedAsked /\ ProducedSigned /\ HeldServed /\ AcceptedSigned

IInv == Types /\ Flow /\ StoreIsLog /\ KeysDistinct

-----------------------------------------------------------------------------
(* The transcript.  No two of its fields share a place, so that what is read  *)
(* back is what was written.                                                  *)
LEMMA V1OrderNames ==
  /\ V1Order \in Seq(Fields(V1Order))
  /\ Len(V1Order) = 17 /\ DOMAIN V1Order = 1..17
  /\ \A i, j \in 1..17 : V1Order[i] = V1Order[j] => i = j
  /\ RequestFields \cup AppletFields \subseteq Fields(V1Order)
<1>1. Len(V1Order) = 17 /\ DOMAIN V1Order = 1..17
  BY DEF V1Order
<1>2. V1Order = [i \in 1..17 |-> V1Order[i]]
  BY SMT DEF V1Order
<1>3. V1Order \in Seq(Fields(V1Order))
  BY <1>1, <1>2 DEF Fields
<1>4. \A i, j \in 1..17 : V1Order[i] = V1Order[j] => i = j
  BY SMTT(60) DEF V1Order
<1>5. /\ V1Order[1] = "version" /\ V1Order[2] = "suite_id"
      /\ V1Order[3] = "assertion_type" /\ V1Order[4] = "assertion_origin"
      /\ V1Order[5] = "issuer_id" /\ V1Order[6] = "verifier_id"
      /\ V1Order[7] = "ak_id" /\ V1Order[8] = "request_id"
      /\ V1Order[9] = "nonce" /\ V1Order[10] = "policy_id"
      /\ V1Order[11] = "issued_at" /\ V1Order[12] = "expires_at"
      /\ V1Order[13] = "subject_ref" /\ V1Order[14] = "object_hash_algorithm"
      /\ V1Order[15] = "object_length" /\ V1Order[16] = "object_digest"
      /\ V1Order[17] = "associated_claim_digest"
  BY DEF V1Order
<1>6. \A i \in 1..17 : V1Order[i] \in Fields(V1Order)
  BY <1>1 DEF Fields
<1>7. RequestFields \subseteq Fields(V1Order)
  BY <1>5, <1>6 DEF RequestFields
<1>8. AppletFields \subseteq Fields(V1Order)
  BY <1>5, <1>6 DEF AppletFields
<1> QED
  BY <1>1, <1>3, <1>4, <1>7, <1>8

(* Encoding writes the magic and then the fields, in their order.             *)
LEMMA EncodeEntries ==
  ASSUME NEW t
  PROVE  /\ Encode(V1Order, t)[1] = QSEAL_MAGIC
         /\ \A i \in 1..17 : Encode(V1Order, t)[1 + i] = t[V1Order[i]]
<1> DEFINE T == { t[V1Order[i]] : i \in 1..17 }
           rest == [i \in 1..17 |-> t[V1Order[i]]]
<1>1. /\ rest \in Seq(T) /\ Len(rest) = 17
      /\ \A i \in 1..17 : rest[i] = t[V1Order[i]]
  OBVIOUS
<1>2. Encode(V1Order, t) = << QSEAL_MAGIC >> \o rest
  BY V1OrderNames DEF Encode
<1> HIDE DEF rest, T
<1>3. prefixed(QSEAL_MAGIC, rest)
  BY <1>1, Prefixed
<1> QED
  BY <1>1, <1>2, <1>3 DEF prefixed

LEMMA DecodeEncode ==
  ASSUME NEW t, NEW u
  PROVE  LET parsed == Decode(V1Order, Encode(V1Order, t), u)
         IN parsed.ok /\ \A f \in Fields(V1Order) : parsed.t[f] = t[f]
<1> DEFINE in == Encode(V1Order, t)
           place(f) == CHOOSE i \in DOMAIN V1Order : V1Order[i] = f
           read == [ f \in Fields(V1Order) |-> in[1 + place(f)] ]
<1>1. in[1] = QSEAL_MAGIC
  BY EncodeEntries
<1>2. Decode(V1Order, in, u) = [ ok |-> TRUE, t |-> read ]
  BY <1>1, Zenon DEF Decode
<1>3. ASSUME NEW f \in Fields(V1Order)
      PROVE  read[f] = t[f]
  <2>1. place(f) \in 1..17 /\ V1Order[place(f)] = f
    BY V1OrderNames DEF Fields
  <2> HIDE DEF place
  <2>2. in[1 + place(f)] = t[f]
    BY <2>1, EncodeEntries
  <2> QED
    BY <2>2
<1> HIDE DEF read, in
<1>4. Decode(V1Order, in, u).ok /\ Decode(V1Order, in, u).t = read
  BY <1>2
<1> QED
  BY <1>3, <1>4 DEF in

LEMMA RoundTrip ==
  ASSUME NEW r, NEW a
  PROVE  LET tbs == qseal_create_assertion(r, a)
             parsed == qseal_tbs_parse(tbs, NoTbs)
         IN /\ tbs[1] = QSEAL_MAGIC
            /\ parsed.ok
            /\ \A f \in RequestFields : parsed.t[f] = r[f]
            /\ \A f \in AppletFields : parsed.t[f] = a[f]
<1> DEFINE t == [ f \in RequestFields \cup AppletFields |->
                    IF f \in AppletFields THEN a[f] ELSE r[f] ]
           tbs == qseal_create_assertion(r, a)
           parsed == qseal_tbs_parse(tbs, NoTbs)
<1>1. tbs = Encode(V1Order, t)
  BY DEF qseal_create_assertion, qseal_tbs_serialize
<1>2. /\ \A f \in AppletFields : t[f] = a[f]
      /\ \A f \in RequestFields : t[f] = r[f]
  BY DEF RequestFields, AppletFields
<1> HIDE DEF t
<1>3. parsed.ok /\ \A f \in Fields(V1Order) : parsed.t[f] = t[f]
  BY <1>1, DecodeEncode DEF qseal_tbs_parse
<1>4. tbs[1] = QSEAL_MAGIC
  BY <1>1, EncodeEntries
<1> HIDE DEF tbs, parsed
<1>5. /\ \A f \in RequestFields : parsed.t[f] = r[f]
      /\ \A f \in AppletFields : parsed.t[f] = a[f]
  BY <1>2, <1>3, V1OrderNames
<1> QED
  BY <1>3, <1>4, <1>5 DEF tbs, parsed

LEMMA TranscriptKeys ==
  ASSUME NEW tbs \in Transcripts
  PROVE  /\ tbs[1] = QSEAL_MAGIC
         /\ qseal_tbs_parse(tbs, NoTbs).ok
         /\ key_of(tbs) \in ChallengeKeys
<1>1. PICK r \in Requests, at \in Nat : tbs = qseal_create_assertion(r, applet(at))
  BY DEF Transcripts
<1>2. {"verifier_id", "request_id", "nonce"} \subseteq RequestFields
  BY DEF RequestFields
<1>3. key_of(tbs) = << r.verifier_id, r.request_id, r.nonce >>
  BY <1>1, <1>2, RoundTrip DEF key_of, challenge_key
<1> QED
  BY <1>1, <1>3, RoundTrip, RequestsHaveKeys

-----------------------------------------------------------------------------
(* The evidence and its fragments.                                            *)
LEMMA EvidenceParts ==
  ASSUME NEW tbs
  PROVE  /\ {0, 1, 2} \subseteq Index
         /\ evidence_of(tbs)[0] = tbs
         /\ evidence_of(tbs)[1] = sign("ecdsa", tbs)
         /\ evidence_of(tbs)[2] = sign("mldsa", tbs)
         /\ \A i \in Index \ {0, 1, 2} :
              evidence_of(tbs)[i] = << "certificate", ak_id >>
<1>1. {0, 1, 2} \subseteq Index
  BY DEF Index
<1> QED
  BY <1>1 DEF evidence_of

LEMMA FragmentParts ==
  ASSUME NEW e, NEW i \in Index
  PROVE  /\ fragment_evidence(e)[i].seq = i
         /\ fragment_evidence(e)[i].total = QSEAL_NUM_FRAGS
         /\ fragment_evidence(e)[i].data = e[i]
BY DEF fragment_evidence

LEMMA ReassembleCases ==
  ASSUME NEW frags
  PROVE  LET whole == qseal_evidence_reassemble(frags)
             complete == \A j \in Index : Cardinality(Carrying(frags, j)) = 1
             own == \A i \in Index : frags[i].total = QSEAL_NUM_FRAGS
         IN /\ whole.ok <=> own /\ complete
            /\ whole.ok =>
                 whole.out = [ j \in Index |->
                   frags[CHOOSE i \in Index : frags[i].seq = j].data ]
<1> DEFINE out == [ j \in Index |->
                      frags[CHOOSE i \in Index : frags[i].seq = j].data ]
           zeros == [ j \in Index |-> ZeroPayload ]
           own == \A i \in Index : frags[i].total = QSEAL_NUM_FRAGS
           complete == \A j \in Index : Cardinality(Carrying(frags, j)) = 1
<1>1. own /\ complete =>
        qseal_evidence_reassemble(frags) = [ ok |-> TRUE, out |-> out ]
  BY Zenon DEF qseal_evidence_reassemble
<1>2. ~(own /\ complete) =>
        qseal_evidence_reassemble(frags) = [ ok |-> FALSE, out |-> zeros ]
  BY Zenon DEF qseal_evidence_reassemble, Failed
<1> HIDE DEF out, zeros, own, complete
<1>3. /\ [ ok |-> TRUE, out |-> out ].ok
      /\ [ ok |-> TRUE, out |-> out ].out = out
      /\ ~[ ok |-> FALSE, out |-> zeros ].ok
  OBVIOUS
<1>4. /\ qseal_evidence_reassemble(frags).ok <=> own /\ complete
      /\ qseal_evidence_reassemble(frags).ok =>
           qseal_evidence_reassemble(frags).out = out
  BY <1>1, <1>2, <1>3
<1> QED
  BY <1>4 DEF out, own, complete

(* What is put together comes from the array, each part from a fragment that  *)
(* carries its index.                                                         *)
LEMMA Reassembled ==
  ASSUME NEW frags, qseal_evidence_reassemble(frags).ok, NEW j \in Index
  PROVE  \E i \in Index :
           /\ frags[i].seq = j
           /\ qseal_evidence_reassemble(frags).out[j] = frags[i].data
<1> DEFINE i == CHOOSE n \in Index : frags[n].seq = j
<1>1. Cardinality(Carrying(frags, j)) = 1
  <2>1. \A n \in Index : Cardinality(Carrying(frags, n)) = 1
    BY ReassembleCases, Zenon
  <2> QED
    BY <2>1
<1>2. Carrying(frags, j) # {}
  BY <1>1, FS_EmptySet
<1>3. \E n \in Index : frags[n].seq = j
  BY <1>2 DEF Carrying
<1>4. i \in Index /\ frags[i].seq = j
  BY <1>3
<1>5. qseal_evidence_reassemble(frags).out[j] = frags[i].data
  <2>1. qseal_evidence_reassemble(frags).out =
          [ m \in Index |-> frags[CHOOSE n \in Index : frags[n].seq = m].data ]
    BY ReassembleCases, Zenon
  <2> QED
    BY <2>1
<1> QED
  BY <1>4, <1>5

(* Of as many fragments as there are indices, none carries an index twice     *)
(* when none is missing.                                                      *)
LEMMA CompleteIsExact ==
  ASSUME NEW frags,
         \A i \in Index : frags[i].seq \in Index,
         \A j \in Index : \E i \in Index : frags[i].seq = j
  PROVE  \A j \in Index : Cardinality(Carrying(frags, j)) = 1
<1> DEFINE seq == [i \in Index |-> frags[i].seq]
<1>1. seq \in Surjection(Index, Index)
  BY DEF Surjection
<1>2. IsFiniteSet(Index)
  BY FS_Interval DEF Index
<1>3. seq \in Injection(Index, Index)
  BY <1>1, <1>2, FS_SurjSameCardinalityImpliesInj
<1>4. \A a, b \in Index : seq[a] = seq[b] => a = b
  BY <1>3 DEF Injection, IsInjective
<1> SUFFICES ASSUME NEW j \in Index
             PROVE  Cardinality(Carrying(frags, j)) = 1
  OBVIOUS
<1>5. PICK i \in Index : frags[i].seq = j
  OBVIOUS
<1>6. Carrying(frags, j) = {i}
  BY <1>4, <1>5 DEF Carrying
<1> QED
  BY <1>6, FS_Singleton

(* Fragments of one evidence, in any array.                                   *)
LEMMA OneReading ==
  ASSUME NEW e, e = [i \in Index |-> e[i]],
         NEW frags \in [ Index -> { fragment_evidence(e)[i] : i \in Index } ]
  PROVE  LET whole == qseal_evidence_reassemble(frags)
         IN /\ whole.ok <=> \A j \in Index : \E i \in Index : frags[i].seq = j
            /\ whole.ok => whole.out = e
<1>1. \A i \in Index :
        /\ frags[i].seq \in Index
        /\ frags[i].total = QSEAL_NUM_FRAGS
        /\ frags[i].data = e[frags[i].seq]
  BY FragmentParts
<1>2. ASSUME \A j \in Index : \E i \in Index : frags[i].seq = j
      PROVE  qseal_evidence_reassemble(frags).ok
  <2>1. \A i \in Index : frags[i].seq \in Index
    BY <1>1
  <2>2. \A j \in Index : Cardinality(Carrying(frags, j)) = 1
    BY <1>2, <2>1, CompleteIsExact, Zenon
  <2> QED
    BY <1>1, <2>2, ReassembleCases, Zenon
<1>3. ASSUME qseal_evidence_reassemble(frags).ok
      PROVE  /\ \A j \in Index : \E i \in Index : frags[i].seq = j
             /\ qseal_evidence_reassemble(frags).out = e
  <2>1. \A j \in Index : \E i \in Index :
          /\ frags[i].seq = j
          /\ qseal_evidence_reassemble(frags).out[j] = frags[i].data
    BY <1>3, Reassembled
  <2>2. \A j \in Index : qseal_evidence_reassemble(frags).out[j] = e[j]
    BY <1>1, <2>1
  <2>3. \E d : qseal_evidence_reassemble(frags).out = [ j \in Index |-> d[j] ]
    <3> DEFINE d == [ j \in Index |->
                   frags[CHOOSE i \in Index : frags[i].seq = j].data ]
    <3>1. qseal_evidence_reassemble(frags).out = d
      BY <1>3, ReassembleCases
    <3>2. d = [ j \in Index |-> d[j] ]
      OBVIOUS
    <3> QED
      BY <3>1, <3>2
  <2> QED
    BY <2>1, <2>2, <2>3
<1> QED
  BY <1>2, <1>3

-----------------------------------------------------------------------------
LEMMA AnswerFields ==
  ASSUME NEW s
  PROVE  /\ Answer(TRUE, s).ok /\ Answer(TRUE, s).store = s
         /\ ~Answer(FALSE, s).ok /\ Answer(FALSE, s).store = s
BY DEF Answer

(* The two things the store can do.                                          *)
LEMMA ArrayAccept ==
  ASSUME NEW s \in NonceStore, NEW ok \in BOOLEAN, NEW k
  PROVE  LET r == qseal_nonce_accept(s, ok, k)
         IN \/ /\ ok /\ ~qseal_nonce_seen(s, k) /\ s.count < QSEAL_STORE_CAP
               /\ r.ok
               /\ r.store.count = s.count + 1
               /\ r.store.slots = [s.slots EXCEPT ![s.count] = k]
               /\ r.store = [count |-> r.store.count, slots |-> r.store.slots]
            \/ /\ \/ ~ok
                  \/ qseal_nonce_seen(s, k)
                  \/ s.count = QSEAL_STORE_CAP
               /\ ~r.ok
               /\ r.store = s
<1>1. s.count \in 0..QSEAL_STORE_CAP
  BY DEF NonceStore
<1>2. s.count < QSEAL_STORE_CAP => (s.count + 1) % 256 = s.count + 1
  BY <1>1
<1>3. s.count = QSEAL_STORE_CAP <=> ~(s.count < QSEAL_STORE_CAP)
  BY <1>1
<1>4. CASE ok /\ ~qseal_nonce_seen(s, k) /\ s.count < QSEAL_STORE_CAP
  <2>1. qseal_nonce_accept(s, ok, k) =
          Answer(TRUE, [ count |-> (s.count + 1) % 256,
                         slots |-> [s.slots EXCEPT ![s.count] = k] ])
    BY <1>4, Zenon DEF qseal_nonce_accept
  <2> QED
    <3> DEFINE new == [ count |-> (s.count + 1) % 256,
                        slots |-> [s.slots EXCEPT ![s.count] = k] ]
    <3>1. /\ new.count = s.count + 1
          /\ new.slots = [s.slots EXCEPT ![s.count] = k]
          /\ new = [count |-> new.count, slots |-> new.slots]
      BY <1>4, <1>2
    <3>2. qseal_nonce_accept(s, ok, k) = Answer(TRUE, new)
      BY <2>1
    <3> HIDE DEF new
    <3> QED
      BY <1>4, <3>1, <3>2, AnswerFields
<1>5. CASE ~(ok /\ ~qseal_nonce_seen(s, k) /\ s.count < QSEAL_STORE_CAP)
  <2>1. qseal_nonce_accept(s, ok, k) = Answer(FALSE, s)
    BY <1>5, Zenon DEF qseal_nonce_accept
  <2> QED
    BY <1>5, <2>1, <1>3, AnswerFields
<1> QED
  BY <1>4, <1>5

LEMMA VerifierAccept ==
  ASSUME NEW blob, NEW s \in NonceStore
  PROVE  LET tbs == blob[0]
             ok == /\ qseal_tbs_parse(tbs, NoTbs).ok
                   /\ qseal_hybrid_accept(tbs, blob[1], blob[2])
             k == key_of(tbs)
             r == verifier_accept(blob, s)
         IN \/ /\ ok /\ ~qseal_nonce_seen(s, k) /\ s.count < QSEAL_STORE_CAP
               /\ r.ok
               /\ r.store.count = s.count + 1
               /\ r.store.slots = [s.slots EXCEPT ![s.count] = k]
               /\ r.store = [count |-> r.store.count, slots |-> r.store.slots]
            \/ /\ ~ok \/ qseal_nonce_seen(s, k) \/ s.count = QSEAL_STORE_CAP
               /\ ~r.ok
               /\ r.store = s
<1> DEFINE ok == /\ qseal_tbs_parse(blob[0], NoTbs).ok
                 /\ qseal_hybrid_accept(blob[0], blob[1], blob[2])
           k == key_of(blob[0])
<1>1. verifier_accept(blob, s) = qseal_nonce_accept(s, ok, k)
  BY DEF verifier_accept, key_of
<1>2. ok \in BOOLEAN
  OBVIOUS
<1> HIDE DEF ok, k
<1>3. LET r == qseal_nonce_accept(s, ok, k)
      IN \/ /\ ok /\ ~qseal_nonce_seen(s, k) /\ s.count < QSEAL_STORE_CAP
            /\ r.ok
            /\ r.store.count = s.count + 1
            /\ r.store.slots = [s.slots EXCEPT ![s.count] = k]
            /\ r.store = [count |-> r.store.count, slots |-> r.store.slots]
         \/ /\ ~ok \/ qseal_nonce_seen(s, k) \/ s.count = QSEAL_STORE_CAP
            /\ ~r.ok
            /\ r.store = s
  BY <1>2, ArrayAccept
<1> QED
  BY <1>1, <1>3 DEF ok, k

-----------------------------------------------------------------------------
(* A part of a served blob that reads as a signature of the pair is the       *)
(* signature the applet made over the transcript of that blob.                *)
LEMMA ServedSignature ==
  ASSUME NEW tbs \in Transcripts, NEW i \in Index, NEW h \in Halves, NEW other,
         evidence_of(tbs)[i] = sign(h, other)
  PROVE  other = tbs
<1>1. sign(h, other)[1] = h /\ sign(h, other)[3] = other
  BY DEF sign
<1>2. h \in {"ecdsa", "mldsa"}
  BY DEF Halves
<1>3. CASE i = 0
  <2>1. tbs[1] = h
    BY <1>1, <1>3, EvidenceParts
  <2> QED
    BY <1>2, <2>1, TranscriptKeys DEF QSEAL_MAGIC
<1>4. CASE i = 1
  <2>1. sign("ecdsa", tbs)[3] = other
    BY <1>1, <1>4, EvidenceParts
  <2> QED
    BY <2>1 DEF sign
<1>5. CASE i = 2
  <2>1. sign("mldsa", tbs)[3] = other
    BY <1>1, <1>5, EvidenceParts
  <2> QED
    BY <2>1 DEF sign
<1>6. CASE i \in Index \ {0, 1, 2}
  <2>1. << "certificate", ak_id >>[1] = h
    BY <1>1, <1>6, EvidenceParts
  <2> QED
    BY <1>2, <2>1
<1> QED
  BY <1>3, <1>4, <1>5, <1>6

(* Both signatures over the first part: one of them the host can only have    *)
(* read from the applet, and the applet made it together with the other.      *)
LEMMA VerifiedWasServed ==
  ASSUME ProducedSigned, HeldServed, NEW frags \in Arrays,
         qseal_evidence_reassemble(frags).ok,
         NEW out, out = qseal_evidence_reassemble(frags).out,
         qseal_hybrid_accept(out[0], out[1], out[2])
  PROVE  out[0] \in Transcripts /\ AskedFor(out[0]) /\ BothSigned(out[0])
<1>1. PICK h \in Halves :
        \A f \in Foreign : << f.data[1], f.data[2] >> # << h, ak_id >>
  BY OneFamilyHolds
<1>2. \E j \in Index : out[j] = sign(h, out[0])
  <2>1. out[1] = sign("ecdsa", out[0]) /\ out[2] = sign("mldsa", out[0])
    BY DEF qseal_hybrid_accept
  <2>2. h = "ecdsa" \/ h = "mldsa"
    BY DEF Halves
  <2> QED
    BY <2>1, <2>2, EvidenceParts
<1>3. PICK j \in Index : out[j] = sign(h, out[0])
  BY <1>2
<1>4. PICK i \in Index : out[j] = frags[i].data
  BY Reassembled
<1>5. frags[i] \in held
  <2>1. frags[i] \in held \cup Foreign
    BY DEF Arrays
  <2>2. frags[i].data[1] = h /\ frags[i].data[2] = ak_id
    BY <1>3, <1>4 DEF sign
  <2> QED
    BY <1>1, <2>1, <2>2
<1>6. PICK e \in produced, n \in Index : frags[i] = fragment_evidence(e)[n]
  BY <1>5 DEF HeldServed
<1>7. PICK tbs \in Transcripts :
        e = evidence_of(tbs) /\ AskedFor(tbs) /\ BothSigned(tbs)
  BY <1>6 DEF ProducedSigned
<1>8. evidence_of(tbs)[n] = sign(h, out[0])
  BY <1>3, <1>4, <1>6, <1>7, FragmentParts
<1>9. out[0] = tbs
  BY <1>7, <1>8, ServedSignature
<1> QED
  BY <1>7, <1>9

(* One submission: nothing changes, or a transcript the applet made is        *)
(* accepted and its challenge recorded in the next slot.                      *)
LEMMA SubmitCases ==
  ASSUME IInv, NEW frags \in Arrays, Submit(frags)
  PROVE  \/ UNCHANGED vars
         \/ \E tbs \in Transcripts :
              /\ AskedFor(tbs) /\ BothSigned(tbs)
              /\ ~qseal_nonce_seen(store, key_of(tbs))
              /\ Len(accepted) < QSEAL_STORE_CAP
              /\ store'.count = store.count + 1
              /\ store'.slots = [store.slots EXCEPT ![store.count] = key_of(tbs)]
              /\ store' = [count |-> store'.count, slots |-> store'.slots]
              /\ accepted' = Append(accepted, tbs)
              /\ UNCHANGED << clock, evidence, held, asked, signed, produced >>
<1> DEFINE whole == qseal_evidence_reassemble(frags)
           out == whole.out
           result == verifier_accept(out, store)
           ok == /\ qseal_tbs_parse(out[0], NoTbs).ok
                 /\ qseal_hybrid_accept(out[0], out[1], out[2])
<1>1. /\ whole.ok
      /\ store' = result.store
      /\ accepted' = IF result.ok THEN Append(accepted, out[0]) ELSE accepted
      /\ UNCHANGED << clock, evidence, held, asked, signed, produced >>
  BY DEF Submit
<1>2. store \in NonceStore /\ store.count = Len(accepted)
  BY DEF IInv, Types, StoreIsLog
<1>3. \/ /\ ok /\ ~qseal_nonce_seen(store, key_of(out[0]))
         /\ store.count < QSEAL_STORE_CAP
         /\ result.ok
         /\ result.store.count = store.count + 1
         /\ result.store.slots =
              [store.slots EXCEPT ![store.count] = key_of(out[0])]
         /\ result.store =
              [count |-> result.store.count, slots |-> result.store.slots]
      \/ ~result.ok /\ result.store = store
  BY <1>2, VerifierAccept
<1>4. ok => out[0] \in Transcripts /\ AskedFor(out[0]) /\ BothSigned(out[0])
  BY <1>1, VerifiedWasServed DEF IInv, Flow
<1> HIDE DEF ok, result, whole
<1>5. CASE ~result.ok /\ result.store = store
  BY <1>1, <1>5 DEF vars
<1>6. CASE ok /\ result.ok /\ ~(~result.ok /\ result.store = store)
  BY <1>1, <1>2, <1>3, <1>4, <1>6
<1> QED
  BY <1>3, <1>5, <1>6

-----------------------------------------------------------------------------
LEMMA InitIInv == Init => IInv
<1> SUFFICES ASSUME Init PROVE IInv
  OBVIOUS
<1>1. Types
  BY DEF Init, Types, FreshStores
<1>2. Flow
  BY DEF Init, Flow, SignedAsked, ProducedSigned, HeldServed, AcceptedSigned
<1>3. store.count = 0 /\ accepted = << >>
  BY DEF Init, FreshStores
<1>4. StoreIsLog /\ KeysDistinct
  BY <1>3 DEF StoreIsLog, KeysDistinct
<1> QED
  BY <1>1, <1>2, <1>4 DEF IInv

(* Nothing that was asked for or signed is ever forgotten.                    *)
LEMMA Remembered ==
  ASSUME asked \subseteq asked', signed \subseteq signed', NEW tbs
  PROVE  /\ AskedFor(tbs) => AskedFor(tbs)'
         /\ BothSigned(tbs) => BothSigned(tbs)'
BY DEF AskedFor, BothSigned

LEMMA StoreUntouched ==
  ASSUME IInv, UNCHANGED << store, accepted >>, clock' \in Nat
  PROVE  Types' /\ StoreIsLog' /\ KeysDistinct'
BY DEF IInv, Types, StoreIsLog, KeysDistinct

LEMMA CreateAssertionKeeps ==
  ASSUME IInv, NEW r \in Requests, CreateAssertion(r)
  PROVE  IInv'
<1>0. PICK tbs : tbs = qseal_create_assertion(r, applet(clock))
  OBVIOUS
<1> DEFINE made == qseal_create_assertion_checked(r, applet(clock))
           entry == [req |-> r, at |-> clock, ok |-> made.ok]
<1>1. /\ asked' = asked \cup {entry}
      /\ UNCHANGED << clock, held, store, accepted >>
      /\ IF made.ok
         THEN /\ signed' = signed \cup { sign(h, made.out) : h \in Halves }
              /\ evidence' = evidence_of(made.out)
              /\ produced' = produced \cup {evidence'}
         ELSE UNCHANGED << signed, evidence, produced >>
  BY DEF CreateAssertion
<1>2. clock \in Nat
  BY DEF IInv, Types
<1>3. Types' /\ StoreIsLog' /\ KeysDistinct'
  BY <1>1, <1>2, StoreUntouched
<1>4. \/ made.ok /\ made.out = tbs /\ qseal_validate_request(r, applet(clock))
      \/ ~made.ok
  <2>1. CASE qseal_validate_request(r, applet(clock))
    <3>1. made = [ ok |-> TRUE, out |-> tbs ]
      BY <1>0, <2>1, Zenon DEF qseal_create_assertion_checked
    <3> QED
      BY <2>1, <3>1
  <2>2. CASE ~qseal_validate_request(r, applet(clock))
    <3>1. made = [ ok |-> FALSE, out |-> ZeroBytes ]
      BY <2>2, Zenon DEF qseal_create_assertion_checked
    <3> QED
      BY <3>1
  <2> QED
    BY <2>1, <2>2
<1>5. entry \in asked' /\ entry.req = r /\ entry.at = clock
  BY <1>1
<1>6. asked \subseteq asked'
  BY <1>1
<1>7. tbs \in Transcripts
  BY <1>0, <1>2 DEF Transcripts
<1> HIDE DEF made, entry
<1>8. Flow'
  <2>1. CASE ~made.ok
    <3>1. UNCHANGED << signed, evidence, produced, held, accepted >>
      BY <1>1, <2>1
    <3>2. \A t : /\ AskedFor(t) => AskedFor(t)'
                 /\ BothSigned(t) => BothSigned(t)'
      BY <1>6, <3>1, Remembered
    <3>3. SignedAsked' /\ AcceptedSigned'
      BY <3>1, <3>2 DEF IInv, Flow, SignedAsked, AcceptedSigned
    <3>4. ProducedSigned' /\ HeldServed'
      BY <3>1, <3>2 DEF IInv, Flow, ProducedSigned, HeldServed
    <3> QED
      BY <3>3, <3>4 DEF Flow
  <2>2. CASE made.ok
    <3>1. /\ signed' = signed \cup { sign(h, tbs) : h \in Halves }
          /\ evidence' = evidence_of(tbs)
          /\ produced' = produced \cup {evidence_of(tbs)}
          /\ qseal_validate_request(r, applet(clock))
      BY <1>1, <1>4, <2>2
    <3>2. AskedFor(tbs)'
      BY <1>0, <1>2, <1>5, <3>1 DEF AskedFor
    <3>3. BothSigned(tbs)'
      BY <3>1 DEF BothSigned
    <3>4. \A t : /\ AskedFor(t) => AskedFor(t)'
                 /\ BothSigned(t) => BothSigned(t)'
      BY <1>6, <3>1, Remembered
    <3>5. SignedAsked'
      <4> SUFFICES ASSUME NEW s \in signed'
                   PROVE  \E h \in Halves : s = sign(h, s[3]) /\ AskedFor(s[3])'
        BY DEF SignedAsked
      <4>1. CASE s \in signed
        BY <3>4, <4>1 DEF IInv, Flow, SignedAsked
      <4>2. CASE s \in { sign(h, tbs) : h \in Halves }
        BY <3>2, <4>2 DEF sign
      <4> QED
        BY <3>1, <4>1, <4>2
    <3>6. ProducedSigned'
      <4> SUFFICES ASSUME NEW e \in produced'
                   PROVE  \E t \in Transcripts : /\ e = evidence_of(t)
                                                 /\ AskedFor(t)'
                                                 /\ BothSigned(t)'
        BY DEF ProducedSigned
      <4>1. CASE e \in produced
        BY <3>4, <4>1 DEF IInv, Flow, ProducedSigned
      <4>2. CASE e = evidence_of(tbs)
        BY <1>7, <3>2, <3>3, <4>2
      <4> QED
        BY <3>1, <4>1, <4>2
    <3>7. HeldServed'
      BY <1>1, <3>1 DEF IInv, Flow, HeldServed
    <3>8. AcceptedSigned'
      BY <1>1, <3>4 DEF IInv, Flow, AcceptedSigned
    <3> QED
      BY <3>5, <3>6, <3>7, <3>8 DEF Flow
  <2> QED
    BY <2>1, <2>2
<1> QED
  BY <1>3, <1>8 DEF IInv

LEMMA ReadFragmentKeeps ==
  ASSUME IInv, NEW i \in Index, ReadFragment(i)
  PROVE  IInv'
<1>1. /\ evidence \in produced
      /\ held' = held \cup { fragment_evidence(evidence)[i] }
      /\ UNCHANGED << clock, evidence, store, asked, signed, produced, accepted >>
  BY DEF ReadFragment, IInv, Flow, HeldServed
<1>2. Types' /\ StoreIsLog' /\ KeysDistinct'
  BY <1>1, StoreUntouched DEF IInv, Types
<1>3. HeldServed'
  BY <1>1 DEF IInv, Flow, HeldServed
<1>4. SignedAsked' /\ ProducedSigned' /\ AcceptedSigned'
  BY <1>1 DEF IInv, Flow, SignedAsked, ProducedSigned, AcceptedSigned,
              AskedFor, BothSigned
<1> QED
  BY <1>2, <1>3, <1>4 DEF IInv, Flow

(* A reset, a tick, or nothing.                                               *)
LEMMA QuietKeeps ==
  ASSUME IInv, clock' \in Nat, evidence' \in {evidence, NoEvidence},
         UNCHANGED << held, store, asked, signed, produced, accepted >>
  PROVE  IInv'
<1>1. Types' /\ StoreIsLog' /\ KeysDistinct'
  BY StoreUntouched
<1>2. HeldServed'
  BY DEF IInv, Flow, HeldServed
<1>3. SignedAsked' /\ ProducedSigned' /\ AcceptedSigned'
  BY DEF IInv, Flow, SignedAsked, ProducedSigned, AcceptedSigned,
         AskedFor, BothSigned
<1> QED
  BY <1>1, <1>2, <1>3 DEF IInv, Flow

-----------------------------------------------------------------------------
(* The store has seen exactly the challenges of what was accepted.            *)
LEMMA SeenIsAccepted ==
  ASSUME Types, StoreIsLog, NEW k
  PROVE  qseal_nonce_seen(store, k) <=>
           \E n \in DOMAIN accepted : key_of(accepted[n]) = k
<1>1. /\ DOMAIN accepted = 1..Len(accepted)
      /\ store.count = Len(accepted)
      /\ Len(accepted) \in 0..QSEAL_STORE_CAP
      /\ \A n \in 1..Len(accepted) : store.slots[n - 1] = key_of(accepted[n])
  BY DEF Types, StoreIsLog, NonceStore
<1>2. ASSUME qseal_nonce_seen(store, k)
      PROVE  \E n \in DOMAIN accepted : key_of(accepted[n]) = k
  <2>1. PICK i \in Slots : i < store.count /\ store.slots[i] = k
    BY <1>2 DEF qseal_nonce_seen
  <2>2. i + 1 \in 1..Len(accepted) /\ (i + 1) - 1 = i
    BY <2>1, <1>1 DEF Slots
  <2> QED
    BY <2>1, <2>2, <1>1
<1>3. ASSUME NEW n \in DOMAIN accepted, key_of(accepted[n]) = k
      PROVE  qseal_nonce_seen(store, k)
  <2>1. n - 1 \in Slots /\ n - 1 < store.count /\ store.slots[n - 1] = k
    BY <1>1, <1>3 DEF Slots
  <2> QED
    BY <2>1 DEF qseal_nonce_seen
<1> QED
  BY <1>2, <1>3

LEMMA AcceptKeepsLog ==
  ASSUME IInv, NEW tbs \in Transcripts,
         ~qseal_nonce_seen(store, key_of(tbs)),
         Len(accepted) < QSEAL_STORE_CAP,
         store'.count = store.count + 1,
         store'.slots = [store.slots EXCEPT ![store.count] = key_of(tbs)],
         store' = [count |-> store'.count, slots |-> store'.slots],
         accepted' = Append(accepted, tbs),
         clock' = clock
  PROVE  Types' /\ StoreIsLog' /\ KeysDistinct'
<1> DEFINE len == Len(accepted)
<1>1. /\ accepted \in Seq(Transcripts)
      /\ len \in Nat /\ len < QSEAL_STORE_CAP /\ QSEAL_STORE_CAP \in Nat
      /\ DOMAIN accepted = 1..len
      /\ len = Len(accepted) /\ store.count = len
      /\ store.slots \in [Slots -> ChallengeKeys]
      /\ \A n \in 1..len : store.slots[n - 1] = key_of(accepted[n])
  <2>1. accepted \in Seq(Transcripts) /\ store \in NonceStore
    BY DEF IInv, Types
  <2>2. len \in Nat /\ DOMAIN accepted = 1..len
    BY <2>1, LenProperties
  <2>3. store.slots \in [Slots -> ChallengeKeys]
    BY <2>1 DEF NonceStore
  <2>4. QSEAL_STORE_CAP \in Nat
    BY CapIsNat
  <2> QED
    BY <2>1, <2>2, <2>3, <2>4 DEF IInv, StoreIsLog
<1> HIDE DEF len
<1>2. key_of(tbs) \in ChallengeKeys
  BY TranscriptKeys
<1>3. /\ accepted' \in Seq(Transcripts)
      /\ Len(accepted') = len + 1 /\ DOMAIN accepted' = 1..(len + 1)
      /\ \A n \in 1..len : accepted'[n] = accepted[n]
      /\ accepted'[len + 1] = tbs
  BY <1>1 DEF len
<1>4. len \in Slots
  BY <1>1 DEF Slots
<1>5. /\ store'.slots \in [Slots -> ChallengeKeys]
      /\ store'.slots[len] = key_of(tbs)
      /\ \A i \in Slots \ {len} : store'.slots[i] = store.slots[i]
  <2>1. store'.slots = [store.slots EXCEPT ![len] = key_of(tbs)]
    BY <1>1
  <2> QED
    BY <1>1, <1>2, <1>4, <2>1
<1>6. store' \in NonceStore
  <2>1. store.count + 1 \in 0..QSEAL_STORE_CAP
    BY <1>1
  <2> QED
    BY <1>5, <2>1 DEF NonceStore
<1>7. Types'
  BY <1>3, <1>6 DEF Types, IInv
<1>8. \A n \in 1..(len + 1) : n = len + 1 \/ n \in 1..len
  BY <1>1
<1>9. StoreIsLog'
  <2>1. ASSUME NEW n \in 1..(len + 1)
        PROVE  store'.slots[n - 1] = key_of(accepted'[n])
    <3>1. CASE n = len + 1
      BY <3>1, <1>1, <1>3, <1>5
    <3>2. CASE n \in 1..len
      <4>1. n - 1 \in Slots \ {len}
        BY <3>2, <1>1 DEF Slots
      <4> QED
        BY <3>2, <4>1, <1>1, <1>3, <1>5
    <3> QED
      BY <1>8, <3>1, <3>2
  <2>2. store'.count = Len(accepted')
    BY <1>1, <1>3
  <2>3. \A t : key_of(t)' = key_of(t)
    BY DEF key_of
  <2> QED
    BY <1>3, <2>1, <2>2, <2>3 DEF StoreIsLog
<1>10. KeysDistinct'
  <2>1. \A n \in 1..len : key_of(accepted[n]) # key_of(tbs)
    BY <1>1, SeenIsAccepted DEF IInv
  <2>2. \A m, n \in 1..len : key_of(accepted[m]) = key_of(accepted[n]) => m = n
    BY <1>1 DEF IInv, KeysDistinct
  <2> QED
    BY <1>3, <1>8, <2>1, <2>2 DEF KeysDistinct
<1> QED
  BY <1>7, <1>9, <1>10

LEMMA SubmitKeeps ==
  ASSUME IInv, NEW frags \in Arrays, Submit(frags)
  PROVE  IInv'
<1>1. CASE UNCHANGED vars
  BY <1>1, QuietKeeps DEF vars, IInv, Types
<1>2. ASSUME NEW tbs \in Transcripts,
             AskedFor(tbs), BothSigned(tbs),
             ~qseal_nonce_seen(store, key_of(tbs)),
             Len(accepted) < QSEAL_STORE_CAP,
             store'.count = store.count + 1,
             store'.slots = [store.slots EXCEPT ![store.count] = key_of(tbs)],
             store' = [count |-> store'.count, slots |-> store'.slots],
             accepted' = Append(accepted, tbs),
             UNCHANGED << clock, evidence, held, asked, signed, produced >>
      PROVE  IInv'
  <2>1. Types' /\ StoreIsLog' /\ KeysDistinct'
    BY <1>2, AcceptKeepsLog
  <2>2. SignedAsked' /\ ProducedSigned' /\ HeldServed'
    BY <1>2 DEF IInv, Flow, SignedAsked, ProducedSigned, HeldServed,
                AskedFor, BothSigned
  <2>3. \A t : AskedFor(t)' = AskedFor(t) /\ BothSigned(t)' = BothSigned(t)
    BY <1>2 DEF AskedFor, BothSigned
  <2>4. AcceptedSigned'
    <3>1. accepted \in Seq(Transcripts)
      BY DEF IInv, Types
    <3>2. \A n \in DOMAIN accepted' :
            \/ accepted'[n] = tbs
            \/ n \in DOMAIN accepted /\ accepted'[n] = accepted[n]
      BY <1>2, <3>1
    <3> QED
      BY <1>2, <2>3, <3>2 DEF IInv, Flow, AcceptedSigned
  <2> QED
    BY <2>1, <2>2, <2>4 DEF IInv, Flow
<1> QED
  BY <1>1, <1>2, SubmitCases

LEMMA NextIInv == IInv /\ [Next]_vars => IInv'
<1> SUFFICES ASSUME IInv, [Next]_vars PROVE IInv'
  OBVIOUS
<1>1. clock \in Nat
  BY DEF IInv, Types
<1>2. ASSUME NEW r \in Requests, CreateAssertion(r) PROVE IInv'
  BY <1>2, CreateAssertionKeeps
<1>3. ASSUME NEW i \in Index, ReadFragment(i) PROVE IInv'
  BY <1>3, ReadFragmentKeeps
<1>4. CASE Reset
  BY <1>1, <1>4, QuietKeeps DEF Reset
<1>5. CASE Tick
  BY <1>1, <1>5, QuietKeeps DEF Tick
<1>6. ASSUME NEW frags \in Arrays, Submit(frags) PROVE IInv'
  BY <1>6, SubmitKeeps
<1>7. CASE UNCHANGED vars
  BY <1>1, <1>7, QuietKeeps DEF vars
<1> QED
  BY <1>2, <1>3, <1>4, <1>5, <1>6, <1>7 DEF Next

-----------------------------------------------------------------------------
(* The inductive invariant of the path from request to acceptance (Next). *)
THEOREM Invariance == Spec => []IInv
BY InitIInv, NextIInv, PTL DEF Spec

(* Whatever is signed decodes to a well-formed request that was made, under   *)
(* the applet's identity and clock (qseal_create_assertion_checked,           *)
(* qseal_tbs_parse).                                                          *)
THEOREM SignedWasAsked == Spec => []SignedMatchesRequest
<1>1. ASSUME IInv
      PROVE  SignedMatchesRequest
  <2> SUFFICES ASSUME NEW s \in signed
               PROVE  LET parsed == qseal_tbs_parse(s[3], NoTbs)
                      IN /\ parsed.ok
                         /\ \E a \in asked :
                              /\ WellFormed(a.req)
                              /\ \A f \in RequestFields : parsed.t[f] = a.req[f]
                              /\ \A f \in AppletFields :
                                   parsed.t[f] = applet(a.at)[f]
    BY DEF SignedMatchesRequest
  <2>1. PICK a \in asked :
          /\ qseal_validate_request(a.req, applet(a.at))
          /\ s[3] = qseal_create_assertion(a.req, applet(a.at))
    BY <1>1 DEF IInv, Flow, SignedAsked, AskedFor
  <2>2. WellFormed(a.req)
    BY <2>1 DEF WellFormed, qseal_validate_request, PROFILE_ACTION_OBSERVED
  <2> QED
    BY <2>1, <2>2, RoundTrip
<1> QED
  BY <1>1, Invariance, PTL

(* Fragments of one evidence reassemble to it exactly when none is missing,   *)
(* for any number of fragments (fragment_evidence,                            *)
(* qseal_evidence_reassemble).                                                *)
THEOREM ReadingsExact == Spec => []OneReadingExact
<1>1. ASSUME IInv
      PROVE  OneReadingExact
  <2> SUFFICES ASSUME NEW e \in produced,
                      NEW frags \in
                        [ Index -> { fragment_evidence(e)[i] : i \in Index } ]
               PROVE  LET whole == qseal_evidence_reassemble(frags)
                      IN /\ whole.ok <=>
                              \A j \in Index : \E i \in Index : frags[i].seq = j
                         /\ whole.ok => whole.out = e
    BY DEF OneReadingExact
  <2>1. e = [i \in Index |-> e[i]]
    BY <1>1 DEF IInv, Flow, ProducedSigned, evidence_of
  <2> QED
    BY <2>1, OneReading
<1> QED
  BY <1>1, Invariance, PTL

(* What is accepted was signed by both keys of the pair, though one family    *)
(* is forged and fragments are mixed (qseal_hybrid_accept,                    *)
(* qseal_evidence_reassemble).                                                *)
THEOREM AcceptedIsSigned == Spec => []AcceptedWasSigned
<1>1. IInv => AcceptedWasSigned
  BY DEF IInv, Flow, AcceptedSigned, BothSigned, AcceptedWasSigned
<1> QED
  BY <1>1, Invariance, PTL

(* What is accepted was asked for by a well-formed request, and its           *)
(* challenge is that request's (qseal_nonce_accept).                          *)
THEOREM AcceptedIsAsked == Spec => []AcceptedSigned
<1>1. IInv => AcceptedSigned
  BY DEF IInv, Flow
<1> QED
  BY <1>1, Invariance, PTL

(* Evidence of the applet is accepted while its challenge is fresh and the    *)
(* store has room (verifier_accept: qseal_tbs_parse, qseal_hybrid_accept,     *)
(* qseal_nonce_accept).                                                       *)
THEOREM EvidenceIsAdmitted == Spec => []EvidenceAdmitted
<1>1. ASSUME IInv
      PROVE  EvidenceAdmitted
  <2> SUFFICES ASSUME NEW e \in produced,
                      Len(accepted) < QSEAL_STORE_CAP,
                      \A n \in DOMAIN accepted : key_of(accepted[n]) # key_of(e[0])
               PROVE  verifier_accept(e, store).ok
    BY DEF EvidenceAdmitted, key_of
  <2>1. PICK tbs \in Transcripts : e = evidence_of(tbs)
    BY <1>1 DEF IInv, Flow, ProducedSigned
  <2>2. qseal_tbs_parse(e[0], NoTbs).ok
    BY <2>1, EvidenceParts, TranscriptKeys
  <2>3. qseal_hybrid_accept(e[0], e[1], e[2])
    BY <2>1, EvidenceParts DEF qseal_hybrid_accept
  <2>4. ~qseal_nonce_seen(store, key_of(e[0]))
    BY <1>1, SeenIsAccepted DEF IInv
  <2>5. store \in NonceStore /\ store.count # QSEAL_STORE_CAP
    <3>1. Len(accepted) \in Nat /\ QSEAL_STORE_CAP \in Nat
      BY <1>1, CapIsNat, LenProperties DEF IInv, Types
    <3> QED
      BY <1>1, <3>1 DEF IInv, Types, StoreIsLog
  <2> QED
    BY <2>2, <2>3, <2>4, <2>5, VerifierAccept
<1> QED
  BY <1>1, Invariance, PTL

-----------------------------------------------------------------------------
keys == [ n \in DOMAIN accepted |-> key_of(accepted[n]) ]

LEMMA KeysAppend ==
  ASSUME accepted \in Seq(Transcripts), NEW tbs, accepted' = Append(accepted, tbs)
  PROVE  keys' = Append(keys, key_of(tbs))
<1>1. /\ DOMAIN accepted = 1..Len(accepted) /\ Len(accepted) \in Nat
      /\ DOMAIN accepted' = 1..(Len(accepted) + 1)
      /\ \A n \in 1..Len(accepted) : accepted'[n] = accepted[n]
      /\ accepted'[Len(accepted) + 1] = tbs
  BY LenProperties
<1>2. keys' = [ n \in DOMAIN accepted' |-> key_of(accepted'[n]) ]
  BY DEF keys, key_of
<1> QED
  BY <1>1, <1>2 DEF keys

(* The verifier at the end of the path implements the single-use store of     *)
(* QSEAL_STORE_CAP challenges (qseal_nonce_accept).                           *)
THEOREM SingleUseRefinement == Spec => ImplementsSingleUse
<1> DEFINE log == [ s \in {"verifier"} |->
             [ n \in DOMAIN accepted |->
                 challenge_key(qseal_tbs_parse(accepted[n], NoTbs).t) ] ]
<1>0. log = [ s \in {"verifier"} |-> keys ]
  BY DEF keys, key_of
<1>1. Init => Abstract!Init
  <2>1. ASSUME Init PROVE keys = << >>
    BY <2>1 DEF Init, keys
  <2> QED
    BY <1>0, <2>1 DEF Abstract!Init
<1>2. IInv /\ [Next]_vars => [Abstract!Next]_log
  <2> SUFFICES ASSUME IInv, [Next]_vars PROVE [Abstract!Next]_log
    OBVIOUS
  <2>0. log = [ s \in {"verifier"} |-> keys ] /\ log' = [ s \in {"verifier"} |-> keys' ]
    BY DEF keys, key_of
  <2>1. CASE UNCHANGED accepted
    BY <2>1
  <2>2. ASSUME NEW frags \in Arrays, Submit(frags), ~UNCHANGED accepted
        PROVE  [Abstract!Next]_log
    <3>1. PICK tbs \in Transcripts :
            /\ ~qseal_nonce_seen(store, key_of(tbs))
            /\ Len(accepted) < QSEAL_STORE_CAP
            /\ accepted' = Append(accepted, tbs)
      BY <2>2, SubmitCases DEF vars
    <3>2. accepted \in Seq(Transcripts)
      BY DEF IInv, Types
    <3>3. keys' = Append(keys, key_of(tbs))
      BY <3>1, <3>2, KeysAppend
    <3>4. Len(keys) < QSEAL_STORE_CAP
      BY <3>1, <3>2, LenProperties DEF keys
    <3>5. \A n \in DOMAIN keys : keys[n] # key_of(tbs)
      BY <3>1, SeenIsAccepted DEF IInv, keys
    <3> HIDE DEF log
    <3>6. key_of(tbs) \notin Abstract!Spent("verifier")
      BY <2>0, <3>5 DEF Abstract!Spent, log, keys, key_of
    <3>7. Abstract!Admit("verifier", key_of(tbs))
      BY <2>0, <3>3, <3>4, <3>6 DEF Abstract!Admit, log, keys, key_of
    <3>8. key_of(tbs) \in ChallengeKeys
      BY TranscriptKeys
    <3> QED
      BY <3>7, <3>8 DEF Abstract!Next
  <2> QED
    BY <2>1, <2>2 DEF Next, CreateAssertion, ReadFragment, Reset, Tick, vars
<1> QED
  BY <1>1, <1>2, Invariance, PTL DEF Spec, ImplementsSingleUse, Abstract!Spec
=============================================================================
