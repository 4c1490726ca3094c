---------------------------- MODULE QsealEvidence ---------------------------
(***************************************************************************)
(* READ_EVIDENCE response chaining: an evidence blob is cut into NUM_FRAGS  *)
(* fragments and put together again (qseal/ref/evidence.c and the twins in  *)
(* qseal/demo/src/main.rs).  A blob is the function from fragment index to  *)
(* payload; payloads are opaque.                                            *)
(***************************************************************************)
EXTENDS Naturals, FiniteSets

CONSTANTS QSEAL_NUM_FRAGS,  \* 4 in the code, more in the deployed instance
          ZeroPayload       \* a payload of zero bytes

\* seq and total are uint8_t.
ASSUME QsealNumFrags == QSEAL_NUM_FRAGS \in 1..255

Index == 0..(QSEAL_NUM_FRAGS - 1)

fragment_evidence(e) ==
  [ i \in Index |-> [ seq |-> i, total |-> QSEAL_NUM_FRAGS, data |-> e[i] ] ]

Failed == [ ok |-> FALSE, out |-> [j \in Index |-> ZeroPayload] ]

Carrying(frags, j) == { i \in Index : frags[i].seq = j }

(* The broken reassembler of evidence.c: a missing index is zero-filled, and  *)
(* of two fragments with one index the later in the array wins.               *)
qseal_evidence_reassemble_nocomplete(frags) ==
  IF \E i \in Index : frags[i].total # QSEAL_NUM_FRAGS
  THEN Failed
  ELSE [ ok |-> TRUE,
         out |-> [ j \in Index |->
                     IF Carrying(frags, j) = {} THEN ZeroPayload
                     ELSE frags[CHOOSE i \in Carrying(frags, j) :
                                  \A h \in Carrying(frags, j) : h <= i].data ] ]

qseal_evidence_reassemble(frags) ==
  IF /\ \A i \in Index : frags[i].total = QSEAL_NUM_FRAGS
     /\ \A j \in Index : Cardinality(Carrying(frags, j)) = 1
  THEN [ ok |-> TRUE,
         out |-> [ j \in Index |->
                     frags[CHOOSE i \in Index : frags[i].seq = j].data ] ]
  ELSE Failed
=============================================================================
