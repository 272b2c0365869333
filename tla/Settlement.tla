----------------------------- MODULE Settlement -----------------------------
(***************************************************************************)
(* What the shop promises its customers, without saying how: every unit of *)
(* a paid order is settled exactly once, with a code nobody else gets or   *)
(* with its money, and a settlement is never revised.                      *)
(***************************************************************************)
CONSTANTS Orders, Items, Codes,
          OrderOf \* [Items -> Orders]

VARIABLES
  paid,    \* the orders that were paid
  outcome  \* what each unit was settled with, or that it is still owed

vars == <<paid, outcome>>

Owed    == <<"owed">>
Money   == <<"money">>
Code(c) == <<"code", c>>

Init == /\ paid = {}
        /\ outcome = [i \in Items |-> Owed]

Pay(o) == /\ paid' = paid \cup {o}
          /\ UNCHANGED outcome

GiveCode(i, c) ==
  /\ OrderOf[i] \in paid
  /\ outcome[i] = Owed
  /\ \A j \in Items : outcome[j] # Code(c)
  /\ outcome' = [outcome EXCEPT ![i] = Code(c)]
  /\ UNCHANGED paid

GiveMoney(i) ==
  /\ OrderOf[i] \in paid
  /\ outcome[i] = Owed
  /\ outcome' = [outcome EXCEPT ![i] = Money]
  /\ UNCHANGED paid

Settle(i) == GiveMoney(i) \/ \E c \in Codes : GiveCode(i, c)

Next == (\E o \in Orders : Pay(o)) \/ (\E i \in Items : Settle(i))

Spec == Init /\ [][Next]_vars

\* A unit that was paid for does not stay owed.
FairSpec == Spec /\ \A i \in Items : WF_vars(Settle(i))
=============================================================================
