-------------------------- MODULE QsealNonceProofs --------------------------
(***************************************************************************)
(* The two Q-SEAL challenge stores.  First the evicting store, for any      *)
(* keys, any capacity and any last instant, as long as the clock does not   *)
(* run backward; then the append-only store and its HashSet twin, for any   *)
(* keys, any capacity and whatever the slots hold at the start.             *)
(***************************************************************************)
EXTENDS QsealNonceExp, QsealNonce, SequenceTheorems, FiniteSetTheorems,
        FunctionTheorems, WellFoundedInduction, TLAPS

USE QsealExpConstants, QsealStoreCap

(* The least element of a set of naturals, for inductions.                    *)
LEMMA LeastElement ==
  ASSUME NEW T, T \subseteq Nat, T # {}
  PROVE  \E x \in T : \A y \in T : x <= y
<1> DEFINE R == OpToRel(<, Nat)
<1>1. \A p, q \in Nat : p < q => << p, q >> \in R
  BY DEF OpToRel
<1> HIDE DEF R
<1>2. PICK x \in T : \A y \in T : << y, x >> \notin R
  BY NatLessThanWellFounded, WFMin DEF R
<1>3. ASSUME NEW y \in T
      PROVE  x <= y
  <2>1. x \in Nat /\ y \in Nat /\ ~(y < x)
    BY <1>1, <1>2
  <2> QED
    BY <2>1
<1> QED
  BY <1>3

(* Every open admission holds a live slot, every live slot is an open         *)
(* admission, and no two live slots hold one key.                             *)
OpenHeld ==
  \A i \in DOMAIN log : log[i].exp > now =>
    \E s \in ExpSlots : exp_store.keys[s] = log[i].key /\ exp_store.exps[s] = log[i].exp

LiveLogged ==
  \A s \in ExpSlots : exp_store.exps[s] > now =>
    \E i \in DOMAIN log : log[i].key = exp_store.keys[s] /\ log[i].exp = exp_store.exps[s]

LiveDistinct ==
  \A s, t \in ExpSlots :
    /\ exp_store.exps[s] > now
    /\ exp_store.exps[t] > now
    /\ exp_store.keys[s] = exp_store.keys[t]
    => s = t

MadeBefore == \A i \in DOMAIN log : log[i].at <= now

ExpIInv ==
  /\ ExpTypeOK
  /\ OpenHeld
  /\ LiveLogged
  /\ LiveDistinct
  /\ MadeBefore
  /\ WindowedSingleUse

-----------------------------------------------------------------------------
LEMMA AnswerFields ==
  ASSUME NEW s
  PROVE  /\ Answer(TRUE, s).ok /\ Answer(TRUE, s).store = s
         /\ ~Answer(FALSE, s).ok /\ Answer(FALSE, s).store = s
BY DEF Answer

LEMMA FirstFree ==
  ASSUME NEW s, NEW t, reusable(s, t) # {}
  PROVE  first_free(s, t) \in reusable(s, t)
<1>1. reusable(s, t) \subseteq Nat
  BY DEF reusable, ExpSlots
<1>2. PICK i \in reusable(s, t) : \A j \in reusable(s, t) : i <= j
  BY <1>1, LeastElement
<1> QED
  BY <1>2, Zenon DEF first_free

(* The condition under which a presentation is admitted. *)
Admissible(s, ok, k, req_exp, t) ==
  ok /\ t < req_exp /\ ~seen_live(s, k, t) /\ reusable(s, t) # {}

LEMMA ExpAccept ==
  ASSUME NEW s, NEW ok \in BOOLEAN, NEW k, NEW req_exp, NEW t
  PROVE  LET r == qseal_nonce_exp_accept(s, ok, k, req_exp, t)
         IN \/ /\ Admissible(s, ok, k, req_exp, t)
               /\ r.ok
               /\ r.store = Record(s, first_free(s, t), k, req_exp)
            \/ /\ ~Admissible(s, ok, k, req_exp, t)
               /\ ~r.ok
               /\ r.store = s
<1>1. CASE Admissible(s, ok, k, req_exp, t)
  <2>1. qseal_nonce_exp_accept(s, ok, k, req_exp, t) =
          Answer(TRUE, Record(s, first_free(s, t), k, req_exp))
    BY <1>1, Zenon DEF qseal_nonce_exp_accept, Admissible
  <2> QED
    BY <1>1, <2>1, AnswerFields
<1>2. CASE ~Admissible(s, ok, k, req_exp, t)
  <2>1. qseal_nonce_exp_accept(s, ok, k, req_exp, t) = Answer(FALSE, s)
    BY <1>2, Zenon DEF qseal_nonce_exp_accept, Admissible
  <2> QED
    BY <1>2, <2>1, AnswerFields
<1> QED
  BY <1>1, <1>2

LEMMA RecordType ==
  ASSUME NEW s \in ExpStore, NEW f \in ExpSlots, NEW k \in ChallengeKeys,
         NEW e \in Instants
  PROVE  /\ Record(s, f, k, e) \in ExpStore
         /\ Record(s, f, k, e).keys[f] = k
         /\ Record(s, f, k, e).exps[f] = e
         /\ \A g \in ExpSlots \ {f} : /\ Record(s, f, k, e).keys[g] = s.keys[g]
                                   /\ Record(s, f, k, e).exps[g] = s.exps[g]
<1>1. /\ s.keys \in [ExpSlots -> ChallengeKeys]
      /\ s.exps \in [ExpSlots -> Instants]
  BY DEF ExpStore
<1>2. /\ [s.keys EXCEPT ![f] = k] \in [ExpSlots -> ChallengeKeys]
      /\ [s.exps EXCEPT ![f] = e] \in [ExpSlots -> Instants]
  BY <1>1
<1>3. /\ Record(s, f, k, e).keys = [s.keys EXCEPT ![f] = k]
      /\ Record(s, f, k, e).exps = [s.exps EXCEPT ![f] = e]
  BY DEF Record
<1>4. Record(s, f, k, e) \in ExpStore
  BY <1>2 DEF Record, ExpStore
<1> QED
  BY <1>1, <1>3, <1>4

(* One presentation: a reusable slot is overwritten and the admission logged, *)
(* or nothing changes.                                                        *)
LEMMA PresentExpCases ==
  ASSUME ExpTypeOK, NEW ok \in BOOLEAN, NEW k \in ChallengeKeys,
         NEW req_exp \in Instants, PresentExp(ok, k, req_exp)
  PROVE  \/ UNCHANGED exp_vars
         \/ /\ Admissible(exp_store, ok, k, req_exp, now)
            /\ \E f \in reusable(exp_store, now) :
                 exp_store' = Record(exp_store, f, k, req_exp)
            /\ log' = Append(log, [key |-> k, exp |-> req_exp, at |-> now])
            /\ now' = now
<1> DEFINE r == qseal_nonce_exp_accept(exp_store, ok, k, req_exp, now)
<1>1. /\ exp_store' = r.store
      /\ log' = IF r.ok
                THEN Append(log, [key |-> k, exp |-> req_exp, at |-> now])
                ELSE log
      /\ now' = now
  BY DEF PresentExp
<1>2. \/ /\ Admissible(exp_store, ok, k, req_exp, now)
         /\ r.ok
         /\ r.store = Record(exp_store, first_free(exp_store, now), k, req_exp)
      \/ ~r.ok /\ r.store = exp_store
  BY ExpAccept
<1>3. Admissible(exp_store, ok, k, req_exp, now)
        => first_free(exp_store, now) \in reusable(exp_store, now)
  BY FirstFree DEF Admissible
<1> HIDE DEF r
<1> QED
  BY <1>1, <1>2, <1>3 DEF exp_vars

-----------------------------------------------------------------------------
LEMMA ExpInitIInv == ExpInit => ExpIInv
<1> SUFFICES ASSUME ExpInit PROVE ExpIInv
  OBVIOUS
<1>1. /\ exp_store \in ExpStore
      /\ now = 0
      /\ log = << >>
      /\ \A s \in ExpSlots : exp_store.exps[s] = 0
  BY DEF ExpInit, FreshExpStores
<1>2. ExpTypeOK
  BY <1>1 DEF ExpTypeOK, Instants
<1>3. OpenHeld /\ MadeBefore /\ WindowedSingleUse
  BY <1>1 DEF OpenHeld, MadeBefore, WindowedSingleUse
<1>4. LiveLogged /\ LiveDistinct
  BY <1>1 DEF LiveLogged, LiveDistinct
<1> QED
  BY <1>2, <1>3, <1>4 DEF ExpIInv

(* The facts about the types that the steps below use. *)
LEMMA Types ==
  ASSUME ExpTypeOK
  PROVE  /\ now \in Nat
         /\ log \in Seq(Admission)
         /\ Len(log) \in Nat
         /\ DOMAIN log = 1..Len(log)
         /\ \A i \in DOMAIN log : /\ log[i].key \in ChallengeKeys
                                  /\ log[i].exp \in Nat
                                  /\ log[i].at \in Nat
         /\ \A s \in ExpSlots : exp_store.exps[s] \in Nat
<1>1. \A i \in DOMAIN log : log[i] \in Admission
  BY DEF ExpTypeOK
<1>2. \A s \in ExpSlots : exp_store.exps[s] \in Nat
  BY DEF ExpTypeOK, ExpStore, Instants
<1> QED
  BY <1>1, <1>2 DEF ExpTypeOK, Admission, Instants

LEMMA TickIInv ==
  ASSUME ExpIInv, Tick
  PROVE  ExpIInv'
<1>1. /\ now \in Nat /\ now' = now + 1 /\ now' \in Instants
      /\ exp_store' = exp_store
      /\ log' = log
  BY DEF Tick, ExpIInv, ExpTypeOK, Instants
<1>2. ExpTypeOK'
  BY <1>1 DEF ExpIInv, ExpTypeOK
<1>3. \A e \in Nat : e > now' => e > now
  BY <1>1
<1>4. OpenHeld'
  BY <1>1, <1>3, Types DEF ExpIInv, OpenHeld
<1>5. LiveLogged' /\ LiveDistinct'
  BY <1>1, <1>3, Types DEF ExpIInv, LiveLogged, LiveDistinct
<1>6. MadeBefore'
  BY <1>1, Types DEF ExpIInv, MadeBefore
<1>7. WindowedSingleUse'
  BY <1>1 DEF ExpIInv, WindowedSingleUse
<1> QED
  BY <1>2, <1>4, <1>5, <1>6, <1>7 DEF ExpIInv

(* While the invariant holds, a key is seen live iff it is open in the log. *)
LEMMA SeenIsOpen ==
  ASSUME ExpIInv, NEW k
  PROVE  seen_live(exp_store, k, now) <=>
           \E i \in DOMAIN log : log[i].key = k /\ log[i].exp > now
<1>1. ASSUME seen_live(exp_store, k, now)
      PROVE  \E i \in DOMAIN log : log[i].key = k /\ log[i].exp > now
  <2>1. PICK s \in ExpSlots : exp_store.keys[s] = k /\ exp_store.exps[s] > now
    BY <1>1 DEF seen_live, live
  <2> QED
    BY <2>1 DEF ExpIInv, LiveLogged
<1>2. ASSUME NEW i \in DOMAIN log, log[i].key = k, log[i].exp > now
      PROVE  seen_live(exp_store, k, now)
  BY <1>2 DEF ExpIInv, OpenHeld, seen_live, live
<1> QED
  BY <1>1, <1>2

LEMMA AdmitIInv ==
  ASSUME ExpIInv, NEW ok, NEW k \in ChallengeKeys, NEW req_exp \in Instants,
         Admissible(exp_store, ok, k, req_exp, now),
         NEW f \in reusable(exp_store, now),
         exp_store' = Record(exp_store, f, k, req_exp),
         log' = Append(log, [key |-> k, exp |-> req_exp, at |-> now]),
         now' = now
  PROVE  ExpIInv'
<1> DEFINE new == [key |-> k, exp |-> req_exp, at |-> now]
           n == Len(log) + 1
<1>1. ExpTypeOK /\ now < req_exp /\ ~seen_live(exp_store, k, now)
  BY DEF ExpIInv, Admissible
<1>2. f \in ExpSlots /\ ~(exp_store.exps[f] > now)
  BY DEF reusable, live
<1>3. /\ exp_store' \in ExpStore
      /\ exp_store'.keys[f] = k
      /\ exp_store'.exps[f] = req_exp
      /\ \A g \in ExpSlots \ {f} : /\ exp_store'.keys[g] = exp_store.keys[g]
                                /\ exp_store'.exps[g] = exp_store.exps[g]
  BY <1>1, <1>2, RecordType DEF ExpTypeOK
<1>4. new \in Admission /\ new.key = k /\ new.exp = req_exp /\ new.at = now
  BY <1>1 DEF ExpTypeOK, Admission
<1>5. /\ log' \in Seq(Admission)
      /\ Len(log') = n
      /\ DOMAIN log' = 1..n
      /\ \A i \in DOMAIN log : log'[i] = log[i]
      /\ log'[n] = new
      /\ n \in Nat
      /\ \A i \in DOMAIN log' : i = n \/ i \in DOMAIN log
      /\ \A i \in DOMAIN log : i \in DOMAIN log' /\ i < n
  <2>1. log \in Seq(Admission)
    BY <1>1 DEF ExpTypeOK
  <2> HIDE DEF new
  <2>2. Len(log) \in Nat /\ DOMAIN log = 1..Len(log)
    BY <2>1
  <2>3. /\ log' \in Seq(Admission)
        /\ Len(log') = n
        /\ \A i \in DOMAIN log : log'[i] = log[i]
        /\ log'[n] = new
    BY <2>1, <1>4 DEF new
  <2>4. DOMAIN log' = 1..n
    BY <2>3
  <2> QED
    BY <2>2, <2>3, <2>4
<1>6. \A i \in DOMAIN log : log[i].key = k => ~(log[i].exp > now)
  BY <1>1, SeenIsOpen
<1> HIDE DEF new, n
<1>7. ExpTypeOK'
  BY <1>1, <1>3, <1>5 DEF ExpTypeOK
<1>8. OpenHeld'
  <2> SUFFICES ASSUME NEW i \in DOMAIN log', log'[i].exp > now
               PROVE  \E s \in ExpSlots : /\ exp_store'.keys[s] = log'[i].key
                                       /\ exp_store'.exps[s] = log'[i].exp
    BY DEF OpenHeld
  <2>1. CASE i = n
    BY <2>1, <1>2, <1>3, <1>4, <1>5
  <2>2. CASE i \in DOMAIN log
    <3>1. PICK s \in ExpSlots : /\ exp_store.keys[s] = log[i].key
                             /\ exp_store.exps[s] = log[i].exp
      BY <2>2, <1>5 DEF ExpIInv, OpenHeld
    <3>2. s # f
      BY <3>1, <1>2, <1>5, <2>2
    <3> QED
      BY <3>1, <3>2, <1>3, <1>5, <2>2
  <2> QED
    BY <2>1, <2>2, <1>5
<1>9. LiveLogged'
  <2> SUFFICES ASSUME NEW s \in ExpSlots, exp_store'.exps[s] > now
               PROVE  \E i \in DOMAIN log' : /\ log'[i].key = exp_store'.keys[s]
                                             /\ log'[i].exp = exp_store'.exps[s]
    BY DEF LiveLogged
  <2>1. CASE s = f
    <3>1. n \in DOMAIN log'
      BY <1>1, <1>5, Types DEF n
    <3> QED
      BY <2>1, <3>1, <1>3, <1>4, <1>5
  <2>2. CASE s # f
    BY <2>2, <1>3, <1>5 DEF ExpIInv, LiveLogged
  <2> QED
    BY <2>1, <2>2
<1>10. LiveDistinct'
  <2>1. \A s \in ExpSlots : s # f /\ exp_store'.exps[s] > now => exp_store'.keys[s] # k
    BY <1>1, <1>3 DEF seen_live, live
  <2> QED
    BY <2>1, <1>3 DEF ExpIInv, LiveDistinct
<1>11. MadeBefore'
  <2>1. now <= now
    BY <1>1, Types
  <2> QED
    BY <2>1, <1>4, <1>5 DEF ExpIInv, MadeBefore
<1>12. WindowedSingleUse'
  <2> SUFFICES ASSUME NEW j \in DOMAIN log', NEW i \in 1..(j-1),
                      log'[i].key = log'[j].key
               PROVE  log'[i].exp <= log'[j].at
    BY DEF WindowedSingleUse
  <2>1. j \in Nat /\ i \in DOMAIN log /\ log'[i] = log[i]
    BY <1>1, <1>5, Types
  <2>2. CASE j = n
    <3>1. log'[j].key = k /\ log'[j].at = now
      BY <2>2, <1>4, <1>5
    <3>2. ~(log[i].exp > now)
      BY <1>6, <2>1, <3>1
    <3> QED
      BY <2>1, <3>1, <3>2, <1>1, Types
  <2>3. CASE j \in DOMAIN log
    BY <2>1, <2>3, <1>5 DEF ExpIInv, WindowedSingleUse
  <2> QED
    BY <2>2, <2>3, <1>5
<1> QED
  BY <1>7, <1>8, <1>9, <1>10, <1>11, <1>12 DEF ExpIInv

LEMMA ExpStepIInv == ExpIInv /\ [ExpNext]_exp_vars => ExpIInv'
<1> SUFFICES ASSUME ExpIInv, [ExpNext]_exp_vars PROVE ExpIInv'
  OBVIOUS
<1>1. ASSUME UNCHANGED exp_vars PROVE ExpIInv'
  BY <1>1 DEF exp_vars, ExpIInv, ExpTypeOK, OpenHeld, LiveLogged, LiveDistinct,
              MadeBefore, WindowedSingleUse
<1>2. ASSUME NEW ok \in BOOLEAN, NEW k \in ChallengeKeys,
             NEW req_exp \in Instants, PresentExp(ok, k, req_exp)
      PROVE  ExpIInv'
  <2>1. ExpTypeOK
    BY DEF ExpIInv
  <2>2. \/ UNCHANGED exp_vars
        \/ /\ Admissible(exp_store, ok, k, req_exp, now)
           /\ \E f \in reusable(exp_store, now) :
                exp_store' = Record(exp_store, f, k, req_exp)
           /\ log' = Append(log, [key |-> k, exp |-> req_exp, at |-> now])
           /\ now' = now
    BY <1>2, <2>1, PresentExpCases
  <2> QED
    BY <1>1, <2>2, AdmitIInv
<1>3. ASSUME Tick PROVE ExpIInv'
  BY <1>3, TickIInv
<1> QED
  BY <1>1, <1>2, <1>3 DEF ExpNext

-----------------------------------------------------------------------------
LiveSlots == { s \in ExpSlots : live(exp_store, s, now) }

(* As many slots are live as admissions are open. *)
LEMMA OpenIsLive ==
  ASSUME ExpIInv
  PROVE  /\ IsFiniteSet(OpenAdmissions)
         /\ Cardinality(OpenAdmissions) = Cardinality(LiveSlots)
<1> DEFINE Holds(i, s) == /\ exp_store.keys[s] = log[i].key
                          /\ exp_store.exps[s] = log[i].exp
           slot == [ i \in OpenAdmissions |->
                       CHOOSE s \in LiveSlots : Holds(i, s) ]
<1>1. \A i \in OpenAdmissions : \E s \in LiveSlots : Holds(i, s)
  BY DEF ExpIInv, OpenHeld, OpenAdmissions, LiveSlots, live
<1>2. \A i \in OpenAdmissions : slot[i] \in LiveSlots /\ Holds(i, slot[i])
  BY <1>1
<1>3. \A s \in LiveSlots : \E i \in OpenAdmissions : Holds(i, s)
  BY DEF ExpIInv, LiveLogged, OpenAdmissions, LiveSlots, live
<1>4. \A s, t \in LiveSlots : exp_store.keys[s] = exp_store.keys[t] => s = t
  BY DEF ExpIInv, LiveDistinct, LiveSlots, live
<1>5. \A i, j \in OpenAdmissions : log[i].key = log[j].key => i = j
  <2> SUFFICES ASSUME NEW i \in OpenAdmissions, NEW j \in OpenAdmissions,
                      log[i].key = log[j].key, i < j
               PROVE  FALSE
    BY Types DEF OpenAdmissions, ExpIInv
  <2>1. /\ i \in DOMAIN log /\ j \in DOMAIN log /\ i \in 1..(j-1)
        /\ log[i].exp > now
    BY Types DEF OpenAdmissions, ExpIInv
  <2>2. log[i].exp <= log[j].at /\ log[j].at <= now
    BY <2>1 DEF ExpIInv, WindowedSingleUse, MadeBefore
  <2> QED
    BY <2>1, <2>2, Types DEF ExpIInv
<1> HIDE DEF slot
<1>6. ASSUME NEW i \in OpenAdmissions, NEW j \in OpenAdmissions, slot[i] = slot[j]
      PROVE  i = j
  <2>1. log[i].key = exp_store.keys[slot[i]] /\ log[j].key = exp_store.keys[slot[j]]
    BY <1>2
  <2> QED
    BY <2>1, <1>5, <1>6
<1>7. \A s \in LiveSlots : \E i \in OpenAdmissions : slot[i] = s
  <2> SUFFICES ASSUME NEW s \in LiveSlots
               PROVE  \E i \in OpenAdmissions : slot[i] = s
    OBVIOUS
  <2>1. PICK i \in OpenAdmissions : Holds(i, s)
    BY <1>3
  <2>2. slot[i] = s
    BY <2>1, <1>2, <1>4
  <2> QED
    BY <2>2
<1>8. slot \in [OpenAdmissions -> LiveSlots]
  BY <1>2 DEF slot
<1>9. slot \in Injection(OpenAdmissions, LiveSlots)
  BY <1>6, <1>8, Fun_IsInj
<1>10. slot \in Surjection(OpenAdmissions, LiveSlots)
  BY <1>7, <1>8, Fun_IsSurj
<1>11. IsFiniteSet(LiveSlots)
  <2>1. IsFiniteSet(ExpSlots)
    BY FS_Interval DEF ExpSlots
  <2> QED
    BY <2>1, FS_Subset DEF LiveSlots
<1> QED
  BY <1>9, <1>10, <1>11, FS_Injection

(* The store has room exactly while fewer than QSEAL_EXP_CAP are open. *)
LEMMA RoomIffFewOpen ==
  ASSUME ExpIInv
  PROVE  reusable(exp_store, now) # {} <=> Cardinality(OpenAdmissions) < QSEAL_EXP_CAP
<1>1. /\ IsFiniteSet(ExpSlots)
      /\ Cardinality(ExpSlots) = QSEAL_EXP_CAP
  BY FS_Interval DEF ExpSlots
<1>2. LiveSlots \subseteq ExpSlots /\ reusable(exp_store, now) = ExpSlots \ LiveSlots
  BY DEF LiveSlots, reusable
<1>3. /\ Cardinality(LiveSlots) \in Nat
      /\ Cardinality(LiveSlots) <= QSEAL_EXP_CAP
      /\ Cardinality(LiveSlots) = QSEAL_EXP_CAP => LiveSlots = ExpSlots
  BY <1>1, <1>2, FS_Subset, FS_CardinalityType
<1>4. Cardinality(OpenAdmissions) = Cardinality(LiveSlots)
  BY OpenIsLive
<1> QED
  BY <1>1, <1>2, <1>3, <1>4

-----------------------------------------------------------------------------
(* The inductive invariant of the evicting store (qseal_nonce_exp_accept). *)
THEOREM ExpInvariance == ExpSpec => []ExpIInv
<1> QED
  BY ExpInitIInv, ExpStepIInv, PTL DEF ExpSpec

(* The store keeps its type: no expiry or key beyond those presented          *)
(* (qseal_nonce_exp_accept).                                                  *)
THEOREM ExpTypeCorrect == ExpSpec => []ExpTypeOK
<1>1. ExpIInv => ExpTypeOK
  BY DEF ExpIInv
<1> QED
  BY <1>1, ExpInvariance, PTL

(* No challenge key is admitted twice within the window of the first          *)
(* admission (qseal_nonce_exp_accept).                                        *)
THEOREM NoReplayInWindow == ExpSpec => []WindowedSingleUse
<1>1. ExpIInv => WindowedSingleUse
  BY DEF ExpIInv
<1> QED
  BY <1>1, ExpInvariance, PTL

(* A presentation in time is refused only for an open admission of its key or *)
(* for QSEAL_EXP_CAP open ones (seen_live, has_room).                         *)
THEOREM RefusalsHaveCause == ExpSpec => []RefusalHasCause
<1>1. ExpIInv => RefusalHasCause
  <2> SUFFICES ASSUME ExpIInv, NEW k \in ChallengeKeys,
                      NEW req_exp \in (now+1)..MaxTime,
                      Cardinality(OpenAdmissions) < QSEAL_EXP_CAP,
                      \A i \in OpenAdmissions : log[i].key # k
               PROVE  qseal_nonce_exp_accept(exp_store, TRUE, k, req_exp, now).ok
    BY DEF RefusalHasCause
  <2>1. reusable(exp_store, now) # {}
    BY RoomIffFewOpen
  <2>2. ~seen_live(exp_store, k, now)
    BY SeenIsOpen DEF OpenAdmissions
  <2>3. now < req_exp
    BY Types DEF ExpIInv
  <2>4. Admissible(exp_store, TRUE, k, req_exp, now)
    BY <2>1, <2>2, <2>3 DEF Admissible
  <2> QED
    BY <2>4, ExpAccept
<1> QED
  BY <1>1, ExpInvariance, PTL

(* The evicting store implements the windowed single-use store of             *)
(* QSEAL_EXP_CAP open tokens (qseal_nonce_exp_accept).                        *)
THEOREM WindowedUseRefinement == ExpSpec => ImplementsWindowedUse
<1>1. ExpInit => Windowed!Init
  BY DEF ExpInit, Windowed!Init
<1>2. ExpIInv /\ [ExpNext]_exp_vars => [Windowed!Next]_(Windowed!wvars)
  <2> SUFFICES ASSUME ExpIInv, [ExpNext]_exp_vars
               PROVE  [Windowed!Next]_(Windowed!wvars)
    OBVIOUS
  <2>1. CASE UNCHANGED exp_vars
    BY <2>1 DEF exp_vars, Windowed!wvars
  <2>2. ASSUME NEW ok \in BOOLEAN, NEW k \in ChallengeKeys,
               NEW req_exp \in Instants,
               Admissible(exp_store, ok, k, req_exp, now),
               log' = Append(log, [key |-> k, exp |-> req_exp, at |-> now]),
               now' = now
        PROVE  Windowed!Next
    <3>1. Windowed!Open(now) = OpenAdmissions
      BY DEF Windowed!Open, OpenAdmissions
    <3>2. now < req_exp
      BY <2>2 DEF Admissible
    <3>3. \A i \in OpenAdmissions : log[i].key # k
      BY <2>2, SeenIsOpen DEF Admissible, OpenAdmissions
    <3>4. Cardinality(OpenAdmissions) < QSEAL_EXP_CAP
      BY <2>2, RoomIffFewOpen DEF Admissible
    <3>5. Windowed!Cardinality(OpenAdmissions) = Cardinality(OpenAdmissions)
      BY Zenon DEF Windowed!Cardinality, Cardinality
    <3>6. Windowed!Admit(k, req_exp)
      BY <2>2, <3>1, <3>2, <3>3, <3>4, <3>5 DEF Windowed!Admit
    <3> QED
      BY <3>6 DEF Windowed!Next
  <2>3. ASSUME NEW ok \in BOOLEAN, NEW k \in ChallengeKeys,
               NEW req_exp \in Instants, PresentExp(ok, k, req_exp)
        PROVE  [Windowed!Next]_(Windowed!wvars)
    <3>1. ExpTypeOK
      BY DEF ExpIInv
    <3>2. \/ UNCHANGED exp_vars
          \/ /\ Admissible(exp_store, ok, k, req_exp, now)
             /\ log' = Append(log, [key |-> k, exp |-> req_exp, at |-> now])
             /\ now' = now
      BY <2>3, <3>1, PresentExpCases
    <3> QED
      BY <2>1, <2>2, <3>2
  <2>4. CASE Tick
    <3>1. Windowed!Pass
      BY <2>4 DEF Tick, Windowed!Pass, ExpIInv, ExpTypeOK, Instants
    <3> QED
      BY <3>1 DEF Windowed!Next
  <2> QED
    BY <2>1, <2>3, <2>4 DEF ExpNext
<1> QED
  BY <1>1, <1>2, ExpInvariance, PTL
     DEF ExpSpec, ImplementsWindowedUse, Windowed!Spec

-----------------------------------------------------------------------------
(* The append-only store.                                                     *)

(* The array is the log of its admissions, none of them twice, and the        *)
(* HashSet is the set of its own.                                             *)
StoreIsLog ==
  /\ store.count = Len(admitted)
  /\ \A i \in DOMAIN admitted : store.slots[i - 1] = admitted[i]

KeysDistinct ==
  \A i, j \in DOMAIN admitted : admitted[i] = admitted[j] => i = j

SetIsLog ==
  \A k \in ChallengeKeys :
    k \in set <=> \E i \in DOMAIN demo_admitted : demo_admitted[i] = k

IInv == TypeOK /\ StoreIsLog /\ KeysDistinct /\ SetIsLog /\ TwinsUntilFull

(* The two things each store can do. *)
LEMMA ArrayAccept ==
  ASSUME NEW s \in NonceStore, NEW ok \in BOOLEAN, NEW k
  PROVE  LET r == qseal_nonce_accept(s, ok, k)
         IN \/ /\ ok /\ ~qseal_nonce_seen(s, k) /\ s.count < QSEAL_STORE_CAP
               /\ r.ok
               /\ r.store.count = s.count + 1
               /\ r.store.slots = [s.slots EXCEPT ![s.count] = k]
               /\ r.store = [count |-> r.store.count, slots |-> r.store.slots]
            \/ /\ \/ ~ok
                  \/ qseal_nonce_seen(s, k)
                  \/ s.count = QSEAL_STORE_CAP
               /\ ~r.ok
               /\ r.store = s
<1>1. s.count \in 0..QSEAL_STORE_CAP
  BY DEF NonceStore
<1>2. s.count < QSEAL_STORE_CAP => (s.count + 1) % 256 = s.count + 1
  BY <1>1
<1>3. s.count = QSEAL_STORE_CAP <=> ~(s.count < QSEAL_STORE_CAP)
  BY <1>1
<1>4. CASE ok /\ ~qseal_nonce_seen(s, k) /\ s.count < QSEAL_STORE_CAP
  <2>1. qseal_nonce_accept(s, ok, k) =
          Answer(TRUE, [ count |-> (s.count + 1) % 256,
                         slots |-> [s.slots EXCEPT ![s.count] = k] ])
    BY <1>4, Zenon DEF qseal_nonce_accept
  <2> QED
    <3> DEFINE new == [ count |-> (s.count + 1) % 256,
                        slots |-> [s.slots EXCEPT ![s.count] = k] ]
    <3>1. /\ new.count = s.count + 1
          /\ new.slots = [s.slots EXCEPT ![s.count] = k]
          /\ new = [count |-> new.count, slots |-> new.slots]
      BY <1>4, <1>2
    <3>2. qseal_nonce_accept(s, ok, k) = Answer(TRUE, new)
      BY <2>1
    <3> HIDE DEF new
    <3> QED
      BY <1>4, <3>1, <3>2, AnswerFields
<1>5. CASE ~(ok /\ ~qseal_nonce_seen(s, k) /\ s.count < QSEAL_STORE_CAP)
  <2>1. qseal_nonce_accept(s, ok, k) = Answer(FALSE, s)
    BY <1>5, Zenon DEF qseal_nonce_accept
  <2> QED
    BY <1>5, <2>1, <1>3, AnswerFields
<1> QED
  BY <1>4, <1>5

LEMMA SetAccept ==
  ASSUME NEW s, NEW ok \in BOOLEAN, NEW k
  PROVE  LET r == accept_once(s, ok, k)
         IN \/ ok /\ k \notin s /\ r.ok /\ r.store = s \cup {k}
            \/ ~(ok /\ k \notin s) /\ ~r.ok /\ r.store = s
<1>1. CASE ok /\ k \notin s
  <2>1. accept_once(s, ok, k) = Answer(TRUE, s \cup {k})
    BY <1>1, Zenon DEF accept_once
  <2> QED
    BY <1>1, <2>1, AnswerFields
<1>2. CASE ~(ok /\ k \notin s)
  <2>1. accept_once(s, ok, k) = Answer(FALSE, s)
    BY <1>2, Zenon DEF accept_once
  <2> QED
    BY <1>2, <2>1, AnswerFields
<1> QED
  BY <1>1, <1>2

-----------------------------------------------------------------------------
LEMMA InitIInv == Init => IInv
<1> SUFFICES ASSUME Init PROVE IInv
  OBVIOUS
<1>1. store \in NonceStore /\ store.count = 0
  BY DEF Init, FreshStores
<1>2. set = {} /\ admitted = << >> /\ demo_admitted = << >>
  BY DEF Init
<1>3. TypeOK
  BY <1>1, <1>2 DEF TypeOK
<1>4. StoreIsLog /\ KeysDistinct /\ SetIsLog /\ TwinsUntilFull
  BY <1>1, <1>2 DEF StoreIsLog, KeysDistinct, SetIsLog, TwinsUntilFull
<1> QED
  BY <1>3, <1>4 DEF IInv

(* While the invariant holds, the array has seen exactly what it admitted. *)
LEMMA SeenIsAdmitted ==
  ASSUME TypeOK, StoreIsLog, NEW k
  PROVE  qseal_nonce_seen(store, k) <=> \E i \in DOMAIN admitted : admitted[i] = k
<1>1. /\ admitted \in Seq(ChallengeKeys)
      /\ store.count = Len(admitted)
      /\ Len(admitted) \in 0..QSEAL_STORE_CAP
      /\ \A i \in 1..Len(admitted) : store.slots[i - 1] = admitted[i]
  BY DEF TypeOK, StoreIsLog, NonceStore
<1>2. ASSUME qseal_nonce_seen(store, k)
      PROVE  \E i \in DOMAIN admitted : admitted[i] = k
  <2>1. PICK i \in Slots : i < store.count /\ store.slots[i] = k
    BY <1>2 DEF qseal_nonce_seen
  <2>2. i + 1 \in 1..Len(admitted) /\ (i + 1) - 1 = i
    BY <2>1, <1>1 DEF Slots
  <2>3. admitted[i + 1] = k
    BY <2>1, <2>2, <1>1
  <2>4. DOMAIN admitted = 1..Len(admitted)
    BY <1>1
  <2> QED
    BY <2>2, <2>3, <2>4, Zenon
<1>3. ASSUME NEW i \in DOMAIN admitted, admitted[i] = k
      PROVE  qseal_nonce_seen(store, k)
  <2>1. i - 1 \in Slots /\ i - 1 < store.count /\ store.slots[i - 1] = k
    BY <1>1, <1>3 DEF Slots
  <2> QED
    BY <2>1 DEF qseal_nonce_seen
<1> QED
  BY <1>2, <1>3

(* One presentation: either both stores admit the key, or the array refuses   *)
(* it and the set does too, unless the array is full.                         *)
LEMMA PresentCases ==
  ASSUME IInv, NEW ok \in BOOLEAN, NEW k \in ChallengeKeys, Present(ok, k)
  PROVE  \/ /\ ~qseal_nonce_seen(store, k)
            /\ Len(admitted) < QSEAL_STORE_CAP
            /\ store'.count = store.count + 1
            /\ store'.slots = [store.slots EXCEPT ![store.count] = k]
            /\ store' = [count |-> store'.count, slots |-> store'.slots]
            /\ admitted' = Append(admitted, k)
            /\ set' = set \cup {k}
            /\ demo_admitted' = Append(demo_admitted, k)
         \/ /\ UNCHANGED << store, admitted, set, demo_admitted >>
         \/ /\ UNCHANGED << store, admitted >>
            /\ Len(admitted) = QSEAL_STORE_CAP
            /\ set' = set \cup {k}
            /\ demo_admitted' = Append(demo_admitted, k)
<1> DEFINE c == qseal_nonce_accept(store, ok, k)
           d == accept_once(set, ok, k)
<1>1. /\ store' = c.store
      /\ admitted' = IF c.ok THEN Append(admitted, k) ELSE admitted
      /\ set' = d.store
      /\ demo_admitted' = IF d.ok THEN Append(demo_admitted, k) ELSE demo_admitted
  BY DEF Present, Note
<1>2. store \in NonceStore /\ store.count = Len(admitted)
  BY DEF IInv, TypeOK, StoreIsLog
<1>3. \/ /\ ok /\ ~qseal_nonce_seen(store, k) /\ store.count < QSEAL_STORE_CAP
         /\ c.ok
         /\ c.store.count = store.count + 1
         /\ c.store.slots = [store.slots EXCEPT ![store.count] = k]
         /\ c.store = [count |-> c.store.count, slots |-> c.store.slots]
      \/ /\ \/ ~ok
            \/ qseal_nonce_seen(store, k)
            \/ store.count = QSEAL_STORE_CAP
         /\ ~c.ok
         /\ c.store = store
  BY <1>2, ArrayAccept
<1>4. \/ ok /\ k \notin set /\ d.ok /\ d.store = set \cup {k}
      \/ ~(ok /\ k \notin set) /\ ~d.ok /\ d.store = set
  BY SetAccept
<1>5. qseal_nonce_seen(store, k) => k \in set
  <2>1. qseal_nonce_seen(store, k) => \E i \in DOMAIN admitted : admitted[i] = k
    BY SeenIsAdmitted DEF IInv
  <2>2. \A i \in DOMAIN admitted :
          i \in DOMAIN demo_admitted /\ admitted[i] = demo_admitted[i]
    BY DEF IInv, TypeOK, TwinsUntilFull
  <2> QED
    BY <2>1, <2>2 DEF IInv, SetIsLog
<1>6. ~qseal_nonce_seen(store, k) /\ store.count < QSEAL_STORE_CAP => k \notin set
  <2>1. k \in set => \E i \in DOMAIN demo_admitted : demo_admitted[i] = k
    BY DEF IInv, SetIsLog
  <2>2. store.count < QSEAL_STORE_CAP => admitted = demo_admitted
    BY <1>2 DEF IInv, TwinsUntilFull
  <2>3. (\E i \in DOMAIN admitted : admitted[i] = k) => qseal_nonce_seen(store, k)
    BY SeenIsAdmitted DEF IInv
  <2> QED
    BY <2>1, <2>2, <2>3
<1> HIDE DEF c, d
<1> QED
  BY <1>1, <1>2, <1>3, <1>4, <1>5, <1>6

LEMMA StepIInv == IInv /\ [Next]_vars => IInv'
<1> SUFFICES ASSUME IInv, [Next]_vars PROVE IInv'
  OBVIOUS
<1>0. /\ admitted \in Seq(ChallengeKeys)
      /\ demo_admitted \in Seq(ChallengeKeys)
      /\ set \subseteq ChallengeKeys
      /\ store \in NonceStore
      /\ store.count = Len(admitted)
      /\ store.slots \in [Slots -> ChallengeKeys]
      /\ Len(admitted) \in 0..QSEAL_STORE_CAP
  BY DEF IInv, TypeOK, StoreIsLog, NonceStore
<1>1. CASE UNCHANGED vars
  BY <1>1 DEF vars, IInv, TypeOK, StoreIsLog, KeysDistinct, SetIsLog,
              TwinsUntilFull
<1>2. ASSUME NEW ok \in BOOLEAN, NEW k \in ChallengeKeys, Present(ok, k)
      PROVE  IInv'
  <2>1. CASE UNCHANGED << store, admitted, set, demo_admitted >>
    BY <2>1 DEF IInv, TypeOK, StoreIsLog, KeysDistinct, SetIsLog, TwinsUntilFull
  <2>2. ASSUME set' = set \cup {k}, demo_admitted' = Append(demo_admitted, k)
        PROVE  /\ set' \subseteq ChallengeKeys
               /\ demo_admitted' \in Seq(ChallengeKeys)
               /\ SetIsLog'
    <3>1. /\ demo_admitted' \in Seq(ChallengeKeys)
          /\ DOMAIN demo_admitted' = 1..(Len(demo_admitted) + 1)
          /\ DOMAIN demo_admitted = 1..Len(demo_admitted)
          /\ \A i \in 1..Len(demo_admitted) : demo_admitted'[i] = demo_admitted[i]
          /\ demo_admitted'[Len(demo_admitted) + 1] = k
      BY <1>0, <2>2
    <3>2. ASSUME NEW x \in ChallengeKeys, x \in set'
          PROVE  \E i \in DOMAIN demo_admitted' : demo_admitted'[i] = x
      <4>1. CASE x = k
        BY <3>1, <4>1, <1>0
      <4>2. CASE x \in set
        BY <3>1, <4>2, <1>0 DEF IInv, SetIsLog
      <4> QED
        BY <3>2, <4>1, <4>2, <2>2
    <3>3. ASSUME NEW i \in DOMAIN demo_admitted'
          PROVE  demo_admitted'[i] \in set'
      BY <3>1, <1>0, <2>2 DEF IInv, SetIsLog
    <3> QED
      BY <1>0, <2>2, <3>1, <3>2, <3>3 DEF SetIsLog
  <2>3. CASE /\ UNCHANGED << store, admitted >>
             /\ Len(admitted) = QSEAL_STORE_CAP
             /\ set' = set \cup {k}
             /\ demo_admitted' = Append(demo_admitted, k)
    <3>1. TypeOK' /\ SetIsLog' /\ StoreIsLog' /\ KeysDistinct'
      BY <2>2, <2>3 DEF IInv, TypeOK, StoreIsLog, KeysDistinct
    <3>2. TwinsUntilFull'
      BY <1>0, <2>3 DEF IInv, TwinsUntilFull
    <3> QED
      BY <3>1, <3>2 DEF IInv
  <2>4. CASE /\ ~qseal_nonce_seen(store, k)
             /\ Len(admitted) < QSEAL_STORE_CAP
             /\ store'.count = store.count + 1
             /\ store'.slots = [store.slots EXCEPT ![store.count] = k]
             /\ store' = [count |-> store'.count, slots |-> store'.slots]
             /\ admitted' = Append(admitted, k)
             /\ set' = set \cup {k}
             /\ demo_admitted' = Append(demo_admitted, k)
    <3>1. /\ admitted' \in Seq(ChallengeKeys)
          /\ Len(admitted') = Len(admitted) + 1
          /\ \A i \in 1..Len(admitted) : admitted'[i] = admitted[i]
          /\ admitted'[Len(admitted) + 1] = k
      BY <1>0, <2>4
    <3>2. /\ store'.slots \in [Slots -> ChallengeKeys]
          /\ Len(admitted) \in Slots
          /\ store'.slots[Len(admitted)] = k
          /\ \A i \in Slots \ {Len(admitted)} : store'.slots[i] = store.slots[i]
      <4>0. Len(admitted) \in Nat /\ Len(admitted) < QSEAL_STORE_CAP
        BY <1>0, <2>4
      <4>1. Len(admitted) \in Slots
        BY <4>0 DEF Slots
      <4>2. store'.slots = [store.slots EXCEPT ![Len(admitted)] = k]
        BY <1>0, <2>4
      <4> QED
        BY <1>0, <4>1, <4>2
    <3>3. store' \in NonceStore
      <4>0. store.count \in Nat /\ store.count < QSEAL_STORE_CAP
        BY <1>0, <2>4
      <4>1. store.count + 1 \in 0..QSEAL_STORE_CAP
        BY <4>0
      <4> QED
        BY <2>4, <3>2, <4>1 DEF NonceStore
    <3>4. StoreIsLog'
      <4>1. ASSUME NEW i \in 1..(Len(admitted) + 1)
            PROVE  store'.slots[i - 1] = admitted'[i]
        <5>1. CASE i = Len(admitted) + 1
          BY <5>1, <3>1, <3>2, <1>0
        <5>2. CASE i \in 1..Len(admitted)
          <6>1. i - 1 \in Slots \ {Len(admitted)}
            BY <5>2, <1>0 DEF Slots
          <6>2. store.slots[i - 1] = admitted[i]
            BY <5>2, <1>0 DEF IInv, StoreIsLog
          <6> QED
            BY <5>2, <6>1, <6>2, <3>1, <3>2
        <5> QED
          BY <5>1, <5>2, <1>0
      <4> QED
        BY <4>1, <3>1, <2>4, <1>0 DEF StoreIsLog
    <3>5. KeysDistinct'
      <4>1. \A i \in 1..Len(admitted) : admitted[i] # k
        BY <2>4, <1>0, SeenIsAdmitted DEF IInv
      <4>2. \A i, j \in 1..Len(admitted) : admitted[i] = admitted[j] => i = j
        BY <1>0 DEF IInv, KeysDistinct
      <4>3. \A i \in 1..(Len(admitted) + 1) :
              i = Len(admitted) + 1 \/ i \in 1..Len(admitted)
        BY <1>0
      <4> QED
        BY <4>1, <4>2, <4>3, <3>1 DEF KeysDistinct
    <3>6. TwinsUntilFull'
      <4>1. admitted = demo_admitted
        BY <2>4 DEF IInv, TwinsUntilFull
      <4> QED
        BY <4>1, <2>4, <3>1 DEF TwinsUntilFull
    <3> QED
      BY <2>2, <2>4, <3>1, <3>3, <3>4, <3>5, <3>6 DEF IInv, TypeOK
  <2> QED
    BY <1>2, <2>1, <2>3, <2>4, PresentCases
<1> QED
  BY <1>1, <1>2 DEF Next

-----------------------------------------------------------------------------
(* The inductive invariant of the two stores (Present). *)
THEOREM Invariance == Spec => []IInv
<1> QED
  BY InitIInv, StepIInv, PTL DEF Spec

(* The stores keep their types: the array's count never exceeds the           *)
(* capacity, so the uint8_t increment never wraps (qseal_nonce_accept).       *)
THEOREM TypeCorrect == Spec => []TypeOK
<1>1. IInv => TypeOK
  BY DEF IInv
<1> QED
  BY <1>1, Invariance, PTL

(* The array and the HashSet admit the same keys in the same order until the  *)
(* array is full (qseal_nonce_accept, NonceStore::accept_once).               *)
THEOREM TwinsAgree == Spec => []TwinsUntilFull
<1>1. IInv => TwinsUntilFull
  BY DEF IInv
<1> QED
  BY <1>1, Invariance, PTL

(* The array implements the single-use store of QSEAL_STORE_CAP tokens        *)
(* (qseal_nonce_accept, qseal_nonce_seen).                                    *)
THEOREM SingleUseRefinement == Spec => ImplementsSingleUse
<1> DEFINE admitted_by == [s \in {"qseal"} |-> admitted]
<1>1. Init => Abstract!Init
  BY DEF Init, Abstract!Init
<1>2. IInv /\ [Next]_vars => [Abstract!Next]_admitted_by
  <2> SUFFICES ASSUME IInv, [Next]_vars PROVE [Abstract!Next]_admitted_by
    OBVIOUS
  <2>1. CASE UNCHANGED vars
    BY <2>1 DEF vars
  <2>2. ASSUME NEW ok \in BOOLEAN, NEW k \in ChallengeKeys, Present(ok, k)
        PROVE  [Abstract!Next]_admitted_by
    <3>1. \/ UNCHANGED admitted
          \/ /\ ~qseal_nonce_seen(store, k)
             /\ Len(admitted) < QSEAL_STORE_CAP
             /\ admitted' = Append(admitted, k)
      BY <2>2, PresentCases
    <3>2. CASE UNCHANGED admitted
      BY <3>2
    <3>3. CASE /\ ~qseal_nonce_seen(store, k)
               /\ Len(admitted) < QSEAL_STORE_CAP
               /\ admitted' = Append(admitted, k)
      <4>1. k \notin Abstract!Spent("qseal")
        BY <3>3, SeenIsAdmitted DEF IInv, Abstract!Spent
      <4>2. admitted_by' = [admitted_by EXCEPT !["qseal"] = Append(@, k)]
        BY <3>3
      <4>3. Abstract!Admit("qseal", k)
        BY <3>3, <4>1, <4>2 DEF Abstract!Admit
      <4> QED
        BY <4>3 DEF Abstract!Next
    <3> QED
      BY <3>1, <3>2, <3>3
  <2> QED
    BY <2>1, <2>2 DEF Next
<1> QED
  BY <1>1, <1>2, Invariance, PTL DEF Spec, ImplementsSingleUse, Abstract!Spec
=============================================================================
