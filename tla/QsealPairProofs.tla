-------------------------- MODULE QsealPairProofs ---------------------------
(***************************************************************************)
(* Pair binding, for any applets under any names, any requests and any      *)
(* certified pairs.                                                         *)
(***************************************************************************)
EXTENDS QsealPair, SequenceTheorems, WellFoundedInduction, TLAPS

(* A sequence behind a first element.                                         *)
prefixed(x, s) ==
  /\ (<< x >> \o s)[1] = x
  /\ \A i \in 1..Len(s) : (<< x >> \o s)[1 + i] = s[i]

LEMMA Prefixed ==
  ASSUME NEW S, NEW s \in Seq(S), NEW x
  PROVE  prefixed(x, s)
<1> DEFINE T == S \cup {x}
           p == << x >>
<1>1. p \in Seq(T) /\ Len(p) = 1 /\ p[1] = x
  OBVIOUS
<1>2. s \in Seq(T) /\ Len(s) \in Nat
  BY SeqMonotonic, LenProperties
<1> HIDE DEF T, p
<1>3. \A i \in 1..Len(p) + Len(s) :
        (p \o s)[i] = IF i <= Len(p) THEN p[i] ELSE s[i - Len(p)]
  BY <1>1, <1>2, ConcatProperties, Zenon
<1>4. (p \o s)[1] = x
  BY <1>1, <1>2, <1>3
<1>5. ASSUME NEW i \in 1..Len(s)
      PROVE  (p \o s)[1 + i] = s[i]
  <2>1. 1 + i \in 1..Len(p) + Len(s) /\ ~(1 + i <= Len(p)) /\ (1 + i) - Len(p) = i
    BY <1>1, <1>2
  <2> QED
    BY <2>1, <1>3
<1> QED
  BY <1>4, <1>5 DEF p, prefixed

-----------------------------------------------------------------------------
(* The transcripts.  V2Order is written with InsertAt; these are its entries. *)
Names == Fields(V1Order) \cup {"pair_commitment"}

LEMMA V1OrderNames ==
  /\ V1Order \in Seq(Names)
  /\ Len(V1Order) = 17
  /\ \A i \in 1..17 : V1Order[i] # "pair_commitment"
<1>1. Len(V1Order) = 17 /\ DOMAIN V1Order = 1..17
  BY DEF V1Order
<1>2. V1Order = [i \in 1..17 |-> V1Order[i]]
  BY SMT DEF V1Order
<1>3. \A i \in 1..17 : V1Order[i] \in Names
  BY <1>1 DEF Names, Fields
<1>4. V1Order \in Seq(Names)
  BY <1>2, <1>3
<1>5. \A i \in 1..17 : V1Order[i] # "pair_commitment"
  BY DEF V1Order
<1> QED
  BY <1>1, <1>4, <1>5

LEMMA V2OrderNames ==
  /\ V2Order \in Seq(Names)
  /\ Len(V2Order) = 18
  /\ \A i \in 1..18 : V2Order[i] = "pair_commitment" <=> i = 8
<1> DEFINE before == SubSeq(V1Order, 1, 7)
           middle == << "pair_commitment" >>
           after == SubSeq(V1Order, 8, 17)
<1>1. V2Order = before \o middle \o after
  BY V1OrderNames DEF V2Order, InsertAt
<1>2. \A i \in 1..17 : V1Order[i] \in Names
  BY V1OrderNames, ElementOfSeq
<1>3. /\ before \in Seq(Names) /\ Len(before) = 7
      /\ \A i \in 1..7 : before[i] = V1Order[i]
  <2>1. \A i \in 1..7 : V1Order[i] \in Names
    BY <1>2
  <2> QED
    BY <2>1, SubSeqProperties
<1>4. /\ after \in Seq(Names) /\ Len(after) = 10
      /\ \A i \in 1..10 : after[i] = V1Order[7 + i]
  <2>1. \A i \in 8..17 : V1Order[i] \in Names
    BY <1>2
  <2> QED
    BY <2>1, SubSeqProperties
<1>5. middle \in Seq(Names) /\ Len(middle) = 1 /\ middle[1] = "pair_commitment"
  BY DEF Names
<1> HIDE DEF before, middle, after
<1> DEFINE front == before \o middle
<1>6. /\ front \in Seq(Names) /\ Len(front) = 8
      /\ \A i \in 1..8 : front[i] = IF i <= 7 THEN before[i] ELSE middle[i - 7]
  <2>1. /\ before \o middle \in Seq(Names)
         /\ Len(before \o middle) = Len(before) + Len(middle)
         /\ \A i \in 1..Len(before) + Len(middle) :
              (before \o middle)[i] = IF i <= Len(before) THEN before[i] ELSE middle[i - Len(before)]
    BY <1>3, <1>5, ConcatProperties, Zenon
  <2>2. Len(before) + Len(middle) = 8
    BY <1>3, <1>5
  <2> QED
    BY <2>1, <2>2, <1>3
<1> HIDE DEF front
<1>7. /\ V2Order \in Seq(Names) /\ Len(V2Order) = 18
      /\ \A i \in 1..18 : V2Order[i] = IF i <= 8 THEN front[i] ELSE after[i - 8]
  <2>1. V2Order = front \o after
    BY <1>1 DEF front
  <2>2. /\ front \o after \in Seq(Names)
         /\ Len(front \o after) = Len(front) + Len(after)
         /\ \A i \in 1..Len(front) + Len(after) :
              (front \o after)[i] = IF i <= Len(front) THEN front[i] ELSE after[i - Len(front)]
    BY <1>4, <1>6, ConcatProperties, Zenon
  <2>3. Len(front) + Len(after) = 18
    BY <1>4, <1>6
  <2> QED
    BY <2>1, <2>2, <2>3, <1>6
<1>8. ASSUME NEW i \in 1..18
      PROVE  V2Order[i] = "pair_commitment" <=> i = 8
  <2>1. CASE i \in 1..7
    <3>1. V2Order[i] = V1Order[i]
      BY <1>3, <1>6, <1>7, <2>1
    <3> QED
      BY <2>1, <3>1, V1OrderNames
  <2>2. CASE i = 8
    BY <1>5, <1>6, <1>7, <2>2
  <2>3. CASE i \in 9..18
    <3>1. i - 8 \in 1..10 /\ 7 + (i - 8) \in 1..17
      BY <2>3
    <3>2. V2Order[i] = after[i - 8]
      BY <1>7, <2>3
    <3>3. after[i - 8] = V1Order[7 + (i - 8)]
      BY <1>4, <3>1
    <3>4. V1Order[7 + (i - 8)] # "pair_commitment"
      BY <3>1, V1OrderNames
    <3> QED
      BY <2>3, <3>2, <3>3, <3>4
  <2> QED
    BY <2>1, <2>2, <2>3
<1> QED
  BY <1>7, <1>8

(* Encoding writes the magic and then the fields, in their order.             *)
LEMMA EncodeEntries ==
  ASSUME NEW S, NEW order \in Seq(S), NEW t
  PROVE  /\ Encode(order, t)[1] = QSEAL_MAGIC
         /\ \A i \in 1..Len(order) : Encode(order, t)[1 + i] = t[order[i]]
<1> DEFINE T == { t[order[i]] : i \in 1..Len(order) }
           rest == [i \in DOMAIN order |-> t[order[i]]]
<1>1. Len(order) \in Nat /\ DOMAIN order = 1..Len(order)
  BY LenProperties
<1>2. /\ rest \in Seq(T) /\ Len(rest) = Len(order)
      /\ \A i \in 1..Len(order) : rest[i] = t[order[i]]
  BY <1>1
<1>3. Encode(order, t) = << QSEAL_MAGIC >> \o rest
  BY DEF Encode
<1> HIDE DEF rest, T
<1>4. prefixed(QSEAL_MAGIC, rest)
  BY <1>2, Prefixed
<1> QED
  BY <1>2, <1>3, <1>4 DEF prefixed

(* The commitment that is serialized is the one that is parsed.               *)
LEMMA CommitmentRoundTrip ==
  ASSUME NEW a, NEW r, NEW commitment
  PROVE  Commitment(v2_of(a, r, commitment)) = commitment
<1> DEFINE t == [ f \in RequestFields \cup AppletFields \cup {"pair_commitment"} |->
                    IF f = "pair_commitment" THEN commitment
                    ELSE IF f \in AppletFields THEN applet(a, 2)[f] ELSE r[f] ]
           tbs == v2_of(a, r, commitment)
           j == CHOOSE i \in DOMAIN V2Order : V2Order[i] = "pair_commitment"
<1>1. tbs = Encode(V2Order, t)
  BY DEF v2_of, create_assertion_v2, qseal_tbs_v2_serialize
<1>2. t["pair_commitment"] = commitment
  OBVIOUS
<1>3. DOMAIN V2Order = 1..18
  BY V2OrderNames, LenProperties
<1>4. j = 8
  BY <1>3, V2OrderNames
<1> HIDE DEF t, tbs, j
<1>5. tbs[1] = QSEAL_MAGIC /\ tbs[1 + 8] = commitment
  <2>1. 8 \in 1..Len(V2Order) /\ V2Order[8] = "pair_commitment"
    BY V2OrderNames
  <2> QED
    BY <1>1, <1>2, <2>1, V2OrderNames, EncodeEntries
<1>6. "pair_commitment" \in Fields(V2Order)
  BY <1>3, V2OrderNames DEF Fields
<1>7. Commitment(tbs) = tbs[1 + j]
  <2> DEFINE parsed == [ f \in Fields(V2Order) |->
                tbs[1 + CHOOSE i \in DOMAIN V2Order : V2Order[i] = f] ]
  <2>1. qseal_tbs_v2_parse(tbs, << >>) = [ ok |-> TRUE, t |-> parsed ]
    BY <1>5, Zenon DEF qseal_tbs_v2_parse, Decode
  <2>2. parsed.pair_commitment = tbs[1 + j]
    BY <1>6 DEF j
  <2> HIDE DEF parsed
  <2> QED
    BY <2>1, <2>2 DEF Commitment
<1> QED
  BY <1>4, <1>5, <1>7 DEF tbs

-----------------------------------------------------------------------------
(* Whatever carries the reserved context was asserted in V2, whole: by the    *)
(* applet of the key, over its own transcript, with one of the commitments    *)
(* that applet uses.                                                          *)
ReservedContext ==
  \A s \in signed :
    /\ s.ctx = QSEAL_CTX_V2
    => /\ s.key \in Applets
       /\ hybrid_sign_v2(s.key, s.tbs) \subseteq signed
       /\ \E r \in Requests, commitment \in Commitments(s.key) :
            s.tbs = v2_of(s.key, r, commitment)

(* PairBound, and the transcript is that applet's, under its own commitment.  *)
AcceptedAsserted ==
  \A acc \in accepted : acc.version = 2 =>
    \E a \in Applets :
      /\ acc.pk = pk_of(a)
      /\ hybrid_sign_v2(a, acc.tbs) \subseteq signed
      /\ \E r \in Requests : acc.tbs = v2_of(a, r, pair_commitment(pk_of(a)))

IInv == ReservedContext /\ AcceptedAsserted

LEMMA SigFields ==
  ASSUME NEW half, NEW key, NEW ctx, NEW tbs
  PROVE  /\ Sig(half, key, ctx, tbs).half = half
         /\ Sig(half, key, ctx, tbs).key = key
         /\ Sig(half, key, ctx, tbs).ctx = ctx
         /\ Sig(half, key, ctx, tbs).tbs = tbs
BY DEF Sig

LEMMA ContextsDiffer == EmptyCtx # QSEAL_CTX_V2
BY DEF EmptyCtx, QSEAL_CTX_V2

(* A commitment that an applet uses opens to its own pair or to none.         *)
LEMMA CommitmentBinds ==
  ASSUME NEW a \in Applets, NEW commitment \in Commitments(a),
         NEW pk \in Certified, commitment = pair_commitment(pk)
  PROVE  pk = pk_of(a)
<1>1. pk \in [ ec : Applets, ml : Applets ]
  BY CertifiedPairs
<1>2. pair_commitment(pk) # ZeroCommitment
  BY DEF pair_commitment, ZeroCommitment
<1>3. pair_commitment(pk) = pair_commitment(pk_of(a))
  BY <1>2 DEF Commitments
<1>4. pk.ec = pk_of(a).ec /\ pk.ml = pk_of(a).ml
  BY <1>3 DEF pair_commitment
<1> QED
  BY <1>1, <1>4 DEF pk_of

-----------------------------------------------------------------------------
(* Signing in V1, or probing: nothing new carries the reserved context.       *)
LEMMA SignV1Keeps ==
  ASSUME ReservedContext, NEW a, NEW tbs,
         signed' = signed \cup hybrid_sign(a, tbs)
  PROVE  ReservedContext'
<1> SUFFICES ASSUME NEW s \in signed', s.ctx = QSEAL_CTX_V2
             PROVE  /\ s.key \in Applets
                    /\ hybrid_sign_v2(s.key, s.tbs) \subseteq signed'
                    /\ \E r \in Requests, commitment \in Commitments(s.key) :
                         s.tbs = v2_of(s.key, r, commitment)
  BY DEF ReservedContext
<1>1. s \in signed
  BY SigFields, ContextsDiffer DEF hybrid_sign
<1> QED
  BY <1>1 DEF ReservedContext

LEMMA SignV2Keeps ==
  ASSUME ReservedContext,
         NEW a \in Applets, NEW r \in Requests, NEW commitment \in Commitments(a),
         AssertV2(a, r, commitment)
  PROVE  ReservedContext'
<1> DEFINE tbs == v2_of(a, r, commitment)
<1>1. signed' = signed \cup hybrid_sign_v2(a, tbs)
  BY DEF AssertV2
<1> SUFFICES ASSUME NEW s \in signed', s.ctx = QSEAL_CTX_V2
             PROVE  /\ s.key \in Applets
                    /\ hybrid_sign_v2(s.key, s.tbs) \subseteq signed'
                    /\ \E q \in Requests, c \in Commitments(s.key) :
                         s.tbs = v2_of(s.key, q, c)
  BY DEF ReservedContext
<1>2. CASE s \in signed
  BY <1>1, <1>2 DEF ReservedContext
<1>3. CASE s \in hybrid_sign_v2(a, tbs)
  <2>1. s.key = a /\ s.tbs = tbs
    BY <1>3, SigFields DEF hybrid_sign_v2
  <2> QED
    BY <1>1, <2>1
<1> QED
  BY <1>1, <1>2, <1>3

LEMMA AcceptedAssertedGrows ==
  ASSUME AcceptedAsserted, accepted' = accepted, signed \subseteq signed'
  PROVE  AcceptedAsserted'
BY DEF AcceptedAsserted

(* A verifier that recomputes the commitment takes only what was asserted     *)
(* under it.                                                                  *)
LEMMA VerifyV2Keeps ==
  ASSUME ReservedContext, AcceptedAsserted,
         NEW pk \in Certified, NEW sig_c \in signed, NEW sig_pq \in signed,
         VerifyV2(pk, sig_c, sig_pq)
  PROVE  AcceptedAsserted'
<1> DEFINE tbs == sig_c.tbs
<1>1. /\ Commitment(tbs) = pair_commitment(pk)
      /\ sig_pq = Sig("mldsa", pk.ml, QSEAL_CTX_V2, tbs)
      /\ accepted' = accepted \cup {[version |-> 2, pk |-> pk, tbs |-> tbs]}
      /\ signed' = signed
  BY DEF VerifyV2, verify_v2
<1>2. sig_pq.ctx = QSEAL_CTX_V2 /\ sig_pq.key = pk.ml /\ sig_pq.tbs = tbs
  BY <1>1, SigFields
<1> DEFINE a == sig_pq.key
<1>3. a \in Applets /\ hybrid_sign_v2(a, tbs) \subseteq signed
  BY <1>2 DEF ReservedContext
<1>4. PICK r \in Requests, commitment \in Commitments(a) :
        tbs = v2_of(a, r, commitment)
  BY <1>2 DEF ReservedContext
<1>5. commitment = pair_commitment(pk)
  BY <1>1, <1>4, CommitmentRoundTrip
<1>6. pk = pk_of(a)
  BY <1>3, <1>5, CommitmentBinds
<1> HIDE DEF a, tbs
<1>7. tbs = v2_of(a, r, pair_commitment(pk_of(a)))
  BY <1>4, <1>5, <1>6
<1>8. ASSUME NEW acc \in accepted', acc.version = 2
      PROVE  \E b \in Applets :
               /\ acc.pk = pk_of(b)
               /\ hybrid_sign_v2(b, acc.tbs) \subseteq signed'
               /\ \E q \in Requests : acc.tbs = v2_of(b, q, pair_commitment(pk_of(b)))
  <2>1. CASE acc \in accepted
    BY <1>1, <1>8, <2>1 DEF AcceptedAsserted
  <2>2. CASE acc = [version |-> 2, pk |-> pk, tbs |-> tbs]
    BY <1>1, <1>3, <1>6, <1>7, <2>2
  <2> QED
    BY <1>1, <2>1, <2>2
<1> QED
  BY <1>8 DEF AcceptedAsserted

LEMMA VerifyV1Keeps ==
  ASSUME AcceptedAsserted, NEW pk, NEW sig_c, NEW sig_pq, VerifyV1(pk, sig_c, sig_pq)
  PROVE  AcceptedAsserted'
<1>1. /\ accepted' = accepted \cup {[version |-> 1, pk |-> pk, tbs |-> sig_c.tbs]}
      /\ signed' = signed
  BY DEF VerifyV1
<1>2. \A acc \in accepted' : acc.version = 2 => acc \in accepted
  BY <1>1
<1> QED
  BY <1>1, <1>2 DEF AcceptedAsserted

-----------------------------------------------------------------------------
LEMMA InitIInv == Init => IInv
BY DEF Init, IInv, ReservedContext, AcceptedAsserted

LEMMA NextIInv == IInv /\ [Next]_vars => IInv'
<1> SUFFICES ASSUME IInv, [Next]_vars PROVE IInv'
  OBVIOUS
<1>1. ReservedContext /\ AcceptedAsserted
  BY DEF IInv
<1>2. ASSUME NEW a \in Applets, NEW r \in Requests, AssertV1(a, r)
      PROVE  IInv'
  <2>1. signed' = signed \cup hybrid_sign(a, v1_of(a, r)) /\ accepted' = accepted
    BY <1>2 DEF AssertV1
  <2> QED
    BY <1>1, <2>1, SignV1Keeps, AcceptedAssertedGrows DEF IInv
<1>3. ASSUME NEW a \in Applets, NEW r \in Requests,
             NEW commitment \in Commitments(a), AssertV2(a, r, commitment)
      PROVE  IInv'
  <2>1. signed \subseteq signed' /\ accepted' = accepted
    BY <1>3 DEF AssertV2
  <2> QED
    BY <1>1, <1>3, <2>1, SignV2Keeps, AcceptedAssertedGrows DEF IInv
<1>4. ASSUME NEW a \in Applets, NEW r \in Requests, ProbeV2(a, r)
      PROVE  IInv'
  <2> DEFINE tbs == v2_of(a, r, pair_commitment(pk_of(a)))
  <2>1. signed' = signed \cup hybrid_sign(a, tbs) /\ accepted' = accepted
    BY <1>4 DEF ProbeV2
  <2> HIDE DEF tbs
  <2> QED
    BY <1>1, <2>1, SignV1Keeps, AcceptedAssertedGrows DEF IInv
<1>5. ASSUME NEW pk \in Certified, NEW sig_c \in signed, NEW sig_pq \in signed,
             VerifyV1(pk, sig_c, sig_pq)
      PROVE  IInv'
  <2>1. signed' = signed
    BY <1>5 DEF VerifyV1
  <2>2. AcceptedAsserted'
    BY <1>1, <1>5, VerifyV1Keeps
  <2> QED
    BY <1>1, <2>1, <2>2 DEF IInv, ReservedContext
<1>6. ASSUME NEW pk \in Certified, NEW sig_c \in signed, NEW sig_pq \in signed,
             VerifyV2(pk, sig_c, sig_pq)
      PROVE  IInv'
  <2>1. signed' = signed
    BY <1>6 DEF VerifyV2
  <2>2. AcceptedAsserted'
    BY <1>1, <1>6, VerifyV2Keeps
  <2> QED
    BY <1>1, <2>1, <2>2 DEF IInv, ReservedContext
<1>7. CASE UNCHANGED vars
  BY <1>1, <1>7 DEF vars, IInv, ReservedContext, AcceptedAsserted
<1> QED
  BY <1>2, <1>3, <1>4, <1>5, <1>6, <1>7 DEF Next

LEMMA Invariance == Spec => []IInv
BY InitIInv, NextIInv, PTL DEF Spec

(* A TBS-V2 assertion is accepted only under the pair of one applet, and only *)
(* if that applet asserted it in V2 with its own commitment, whatever pairs   *)
(* are certified (verify_v2, create_assertion_v2).                            *)
THEOREM AcceptedWasAsserted == Spec => []AcceptedAsserted
<1>1. IInv => AcceptedAsserted
  BY DEF IInv
<1> QED
  BY <1>1, Invariance, PTL

(* In particular PairBound: recombined components never pass (verify_v2,      *)
(* hybrid_sign_v2, pair_commitment).                                          *)
THEOREM PairsBound == Spec => []PairBound
<1>1. IInv => PairBound
  BY DEF IInv, AcceptedAsserted, PairBound
<1> QED
  BY <1>1, Invariance, PTL

-----------------------------------------------------------------------------
LEMMA OwnAssertion == OwnAssertionAccepted
<1> SUFFICES ASSUME NEW a \in Applets, NEW r \in Requests, NEW pk \in Certified
             PROVE  LET takes(commitment) ==
                          LET tbs == v2_of(a, r, commitment)
                          IN \E sig_c, sig_pq \in signed :
                               verify_v2(pk, tbs, sig_c, sig_pq)
                    IN /\ ~takes(ZeroCommitment)
                       /\ /\ pk = pk_of(a)
                          /\ hybrid_sign_v2(a, v2_of(a, r, pair_commitment(pk)))
                               \subseteq signed
                          => takes(pair_commitment(pk))
  BY DEF OwnAssertionAccepted
<1>1. ASSUME NEW sig_c, NEW sig_pq,
             verify_v2(pk, v2_of(a, r, ZeroCommitment), sig_c, sig_pq)
      PROVE  FALSE
  <2>1. ZeroCommitment = pair_commitment(pk)
    BY <1>1, CommitmentRoundTrip DEF verify_v2
  <2> QED
    BY <2>1 DEF ZeroCommitment, pair_commitment
<1>2. ASSUME pk = pk_of(a),
             hybrid_sign_v2(a, v2_of(a, r, pair_commitment(pk))) \subseteq signed
      PROVE  \E sig_c, sig_pq \in signed :
               verify_v2(pk, v2_of(a, r, pair_commitment(pk)), sig_c, sig_pq)
  <2> DEFINE tbs == v2_of(a, r, pair_commitment(pk))
             sig_c == Sig("ecdsa", a, EmptyCtx, tbs)
             sig_pq == Sig("mldsa", a, QSEAL_CTX_V2, tbs)
  <2>1. Commitment(tbs) = pair_commitment(pk)
    BY CommitmentRoundTrip
  <2>2. pk.ec = a /\ pk.ml = a
    BY <1>2 DEF pk_of
  <2>3. sig_c \in signed /\ sig_pq \in signed
    BY <1>2 DEF hybrid_sign_v2
  <2>4. verify_v2(pk, tbs, sig_c, sig_pq)
    BY <2>1, <2>2 DEF verify_v2
  <2> QED
    BY <2>3, <2>4
<1> QED
  BY <1>1, <1>2

(* An applet's own V2 assertion passes under its pair and a zeroed commitment *)
(* under none (qseal_tbs_v2_serialize, verify_v2).                            *)
THEOREM OwnAssertionsPass == Spec => []OwnAssertionAccepted
BY OwnAssertion, PTL
=============================================================================
