----------------------------- MODULE Procurement -----------------------------
(***************************************************************************)
(* What buying from unreliable suppliers promises, without saying how: no  *)
(* chain, no rounds, no retries, no attempt rows. A supplier bills the     *)
(* shop for a code; the shop writes a code off, gives it to the customer,  *)
(* or gives the unit up. The trace is lost when the shop can no longer     *)
(* tell from its tables who may bill it.                                   *)
(***************************************************************************)
CONSTANTS Items, Suppliers, Codes

VARIABLES
  outcome, \* what became of each unit
  bills,   \* by unit, the suppliers' codes that have not been written off
  traced   \* whether the trace has been kept so far

vars == <<outcome, bills, traced>>

Undecided == <<"undecided">>
GivenUp   == <<"given_up">>
Code(c)   == <<"code", c>>

Bill(s, c) == <<s, c>>

Init == /\ outcome = [i \in Items |-> Undecided]
        /\ bills = [i \in Items |-> {}]
        /\ traced = TRUE

\* With the trace kept, nobody bills a unit that is billed or decided.
Charge(i, s, c) ==
  /\ traced' => outcome[i] = Undecided /\ bills[i] = {}
  /\ \A d \in Codes : Bill(s, d) \notin bills[i]
  /\ bills' = [bills EXCEPT ![i] = @ \cup {Bill(s, c)}]
  /\ UNCHANGED outcome

WriteOff(i, s) ==
  /\ outcome[i] = Undecided
  /\ bills' = [bills EXCEPT ![i] = {b \in @ : b[1] # s}]
  /\ UNCHANGED outcome

\* Only what is billed is given, and to nobody else.
GiveCode(i, s, c) ==
  /\ outcome[i] = Undecided
  /\ Bill(s, c) \in bills[i]
  /\ \A j \in Items : outcome[j] # Code(c)
  /\ outcome' = [outcome EXCEPT ![i] = Code(c)]
  /\ UNCHANGED bills

\* With the trace kept, nothing that is given up has to be paid for.
GiveUp(i) ==
  /\ outcome[i] = Undecided
  /\ traced' => bills[i] = {}
  /\ outcome' = [outcome EXCEPT ![i] = GivenUp]
  /\ UNCHANGED bills

Buys(i) == \/ \E s \in Suppliers, c \in Codes : Charge(i, s, c) \/ GiveCode(i, s, c)
           \/ \E s \in Suppliers : WriteOff(i, s)
           \/ GiveUp(i)

\* The trace may be lost at any time, and does not come back.
Next == /\ traced' \in {traced, FALSE}
        /\ (\E i \in Items : Buys(i)) \/ UNCHANGED <<outcome, bills>>

Spec == Init /\ [][Next]_vars
==============================================================================
