----------------------------- MODULE WindowedUse ----------------------------
(***************************************************************************)
(* What an anti-replay store that forgets promises: a token admitted until  *)
(* some instant is not admitted again before it, and at most Capacity       *)
(* admissions are open at once.  Implemented by the evicting challenge      *)
(* store of Q-SEAL (QsealNonceExp).                                         *)
(***************************************************************************)
EXTENDS Naturals, Sequences, FiniteSets

CONSTANTS Tokens, Instants, Capacity

VARIABLES now, log  \* the clock; [key, exp, at] admissions in order

wvars == << now, log >>

(* The admissions still open at instant t. *)
Open(t) == { i \in DOMAIN log : log[i].exp > t }

Init == now = 0 /\ log = << >>

Admit(t, until) ==
  /\ now < until
  /\ \A i \in Open(now) : log[i].key # t
  /\ Cardinality(Open(now)) < Capacity
  /\ log' = Append(log, [key |-> t, exp |-> until, at |-> now])
  /\ now' = now

Pass == /\ now' \in Instants
        /\ now' > now
        /\ log' = log

Next == Pass \/ \E t \in Tokens, until \in Instants : Admit(t, until)

Spec == Init /\ [][Next]_wvars
=============================================================================
