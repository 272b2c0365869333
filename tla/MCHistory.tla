------------------------------ MODULE MCHistory ------------------------------
(* Small instances of History for TLC.                                     *)
EXTENDS History, TLC

CONSTANTS o1, i1, i2, s1, c1, c2, l1, l2, e1, e2

OneLine == i1 :> o1
TwoLines == i1 :> o1 @@ i2 :> o1
Lines == i1 :> 0 @@ i2 :> 1
FirstLine == i1 :> 0
OneSku == [i \in {i1, i2} |-> s1]
SkuOfLine == i1 :> s1
OneInStock == s1 :> 1
OnePaid == e1 :> o1
ItIsPaid == e1 :> "paid"

\* One payment of the order, one of an order that does not exist.
OneStray == OnePaid @@ e2 :> NoOrder
BothPaid == [e \in {e1, e2} |-> "paid"]

SymmetryOfLanes == Permutations(Lanes)
=============================================================================
