----------------------------- MODULE QsealStore -----------------------------
(***************************************************************************)
(* The single-use challenge store of a Q-SEAL verifier (qseal/ref/nonce.c)  *)
(* and its runnable twin, the HashSet of qseal/demo/src/main.rs.  Each      *)
(* operation returns the verdict with the successor store.                  *)
(***************************************************************************)
EXTENDS QsealKeys

CONSTANT QSEAL_STORE_CAP  \* 8 in the code

\* count is a uint8_t.
ASSUME QsealStoreCap == QSEAL_STORE_CAP \in 1..255

Slots == 0..(QSEAL_STORE_CAP - 1)

NonceStore == [ count : 0..QSEAL_STORE_CAP, slots : [Slots -> ChallengeKeys] ]

\* Nothing in nonce.c writes the slots of a fresh store.
FreshStores == { s \in NonceStore : s.count = 0 }

-----------------------------------------------------------------------------
(* A broken scan: the count is ignored, so a slot never filled still counts. *)
qseal_nonce_seen_anywhere(s, k) == \E i \in Slots : s.slots[i] = k

qseal_nonce_seen(s, k) == \E i \in Slots : i < s.count /\ s.slots[i] = k

(* The broken verifier of nonce.c: same decision, key never recorded. *)
qseal_nonce_accept_noconsume(s, ok, k) ==
  Answer(ok /\ ~qseal_nonce_seen(s, k) /\ s.count < QSEAL_STORE_CAP, s)

(* A broken verifier: a full store admits without room to record. *)
qseal_nonce_accept_overfull(s, ok, k) ==
  IF ok /\ ~qseal_nonce_seen(s, k)
  THEN Answer(TRUE, [ count |-> (s.count + 1) % 256,
                      slots |-> [s.slots EXCEPT ![s.count] = k] ])
  ELSE Answer(FALSE, s)

qseal_nonce_accept(s, ok, k) ==
  IF ok /\ ~qseal_nonce_seen(s, k) /\ s.count < QSEAL_STORE_CAP
  THEN Answer(TRUE, [ count |-> (s.count + 1) % 256,
                      slots |-> [s.slots EXCEPT ![s.count] = k] ])
  ELSE Answer(FALSE, s)

-----------------------------------------------------------------------------
(* A broken twin: a presentation that fails its signatures burns the key. *)
accept_once_burning(set, sigs_ok, key) ==
  Answer(sigs_ok /\ key \notin set, set \cup {key})

(* NonceStore::accept_once of the demo, over an unbounded HashSet. *)
accept_once(set, sigs_ok, key) ==
  IF sigs_ok /\ key \notin set
  THEN Answer(TRUE, set \cup {key})
  ELSE Answer(FALSE, set)
=============================================================================
