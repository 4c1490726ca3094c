--------------------------- MODULE QsealNonceExp ----------------------------
(***************************************************************************)
(* The challenge store with expiry eviction (qseal/ref/nonce_exp.c): a slot *)
(* whose recorded expiry has passed is reused, so single use holds within   *)
(* the window of the transcript and a full store recovers.                  *)
(*                                                                          *)
(* now is the clock the caller reads for every call; it never runs backward *)
(* (nonce_exp.c takes it as an argument and cannot tell).  log is a history *)
(* variable: every admission with its expiry and the instant it was made.   *)
(***************************************************************************)
EXTENDS QsealKeys, Sequences, FiniteSets

CONSTANTS QSEAL_EXP_CAP,  \* 8 in the code
          MaxTime         \* the last instant; 2^32 - 1 in the code

ASSUME QsealExpConstants ==
  /\ QSEAL_EXP_CAP \in 1..255  \* first_free is a uint8_t
  /\ MaxTime \in Nat

VARIABLES exp_store,  \* qseal_nonce_exp_store_t
          now, log

exp_vars == << exp_store, now, log >>

ExpSlots == 0..(QSEAL_EXP_CAP - 1)
Instants == 0..MaxTime

ExpStore == [ keys : [ExpSlots -> ChallengeKeys], exps : [ExpSlots -> Instants] ]
Admission == [ key : ChallengeKeys, exp : Instants, at : Instants ]

\* A slot never used has expiry 0, whatever key it holds.
FreshExpStores == { s \in ExpStore : s.exps = [i \in ExpSlots |-> 0] }
-----------------------------------------------------------------------------
(* A broken test: a slot once used never becomes reusable. *)
live_forever(s, i, t) == s.exps[i] # 0

live(s, i, t) == s.exps[i] > t

seen_live(s, k, t) == \E i \in ExpSlots : s.keys[i] = k /\ live(s, i, t)
reusable(s, t) == { i \in ExpSlots : ~live(s, i, t) }
first_free(s, t) ==
  CHOOSE i \in reusable(s, t) : \A j \in reusable(s, t) : i <= j

Record(s, i, k, req_exp) ==
  [ keys |-> [s.keys EXCEPT ![i] = k], exps |-> [s.exps EXCEPT ![i] = req_exp] ]

(* The broken store of nonce_exp.c: slot 0 is evicted, live or not. *)
qseal_nonce_exp_accept_evictlive(s, ok, k, req_exp, t) ==
  IF ok /\ t < req_exp /\ ~seen_live(s, k, t)
  THEN Answer(TRUE, Record(s, 0, k, req_exp))
  ELSE Answer(FALSE, s)

(* A broken store: an expired transcript is let through. *)
accept_expired(s, ok, k, req_exp, t) ==
  IF ok /\ ~seen_live(s, k, t) /\ reusable(s, t) # {}
  THEN Answer(TRUE, Record(s, first_free(s, t), k, req_exp))
  ELSE Answer(FALSE, s)

(* A broken store: a slot whose key is presented again is renewed in place,   *)
(* and keys seen in an expired slot are refused for good.                     *)
accept_never_again(s, ok, k, req_exp, t) ==
  IF /\ ok /\ t < req_exp
     /\ \A i \in ExpSlots : s.exps[i] # 0 => s.keys[i] # k
     /\ reusable(s, t) # {}
  THEN Answer(TRUE, Record(s, first_free(s, t), k, req_exp))
  ELSE Answer(FALSE, s)

(* A broken store: the expiry recorded is one tick late. *)
accept_late_expiry(s, ok, k, req_exp, t) ==
  IF ok /\ t < req_exp /\ ~seen_live(s, k, t) /\ reusable(s, t) # {}
  THEN Answer(TRUE, Record(s, first_free(s, t), k, req_exp + 1))
  ELSE Answer(FALSE, s)

qseal_nonce_exp_accept(s, ok, k, req_exp, t) ==
  IF ok /\ t < req_exp /\ ~seen_live(s, k, t) /\ reusable(s, t) # {}
  THEN Answer(TRUE, Record(s, first_free(s, t), k, req_exp))
  ELSE Answer(FALSE, s)

-----------------------------------------------------------------------------
ExpInit ==
  /\ exp_store \in FreshExpStores
  /\ now = 0
  /\ log = << >>

PresentExp(ok, k, req_exp) ==
  LET r == qseal_nonce_exp_accept(exp_store, ok, k, req_exp, now)
  IN /\ exp_store' = r.store
     /\ log' = IF r.ok
               THEN Append(log, [key |-> k, exp |-> req_exp, at |-> now])
               ELSE log
     /\ now' = now

Tick ==
  /\ now < MaxTime
  /\ now' = now + 1
  /\ UNCHANGED << exp_store, log >>

ExpNext ==
  \/ \E ok \in BOOLEAN, k \in ChallengeKeys, req_exp \in Instants :
       PresentExp(ok, k, req_exp)
  \/ Tick

ExpSpec == ExpInit /\ [][ExpNext]_exp_vars

(* Time passes, whatever hosts present. *)
FairExpSpec == ExpSpec /\ WF_exp_vars(Tick)
-----------------------------------------------------------------------------
ExpTypeOK ==
  /\ exp_store \in ExpStore
  /\ now \in Instants
  /\ log \in Seq(Admission)

(* A challenge key admitted with some expiry is not admitted again before it, *)
(* whatever the store has evicted and reused in between                       *)
(* (qseal_nonce_exp_accept).                                                  *)
WindowedSingleUse ==
  \A j \in DOMAIN log : \A i \in 1..(j-1) :
    log[i].key = log[j].key => log[i].exp <= log[j].at

OpenAdmissions == { i \in DOMAIN log : log[i].exp > now }

(* A validated presentation in time is refused only because its own key is    *)
(* still open or QSEAL_EXP_CAP admissions are: an expired entry costs nobody  *)
(* admission, nor does anything the unused slots hold (has_room, first_free). *)
RefusalHasCause ==
  \A k \in ChallengeKeys, req_exp \in (now+1)..MaxTime :
    /\ Cardinality(OpenAdmissions) < QSEAL_EXP_CAP
    /\ \A i \in OpenAdmissions : log[i].key # k
    => qseal_nonce_exp_accept(exp_store, TRUE, k, req_exp, now).ok

(* A full store has room again: no host can wedge it by filling it with       *)
(* validated requests (nonce_exp.h, against nonce.c's append-only store).     *)
Full == reusable(exp_store, now) = {}
RoomReturns == Full ~> ~Full

(* The admissions are those of a store that forgets a token at its expiry     *)
(* and never sooner, with QSEAL_EXP_CAP of them open at most.                 *)
Windowed == INSTANCE WindowedUse WITH
  Tokens <- ChallengeKeys, Capacity <- QSEAL_EXP_CAP

ImplementsWindowedUse == Windowed!Spec
=============================================================================
