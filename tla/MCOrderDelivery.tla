--------------------------- MODULE MCOrderDelivery ---------------------------
(* Small instances of OrderDelivery for TLC.                               *)
EXTENDS OrderDelivery, TLC

CONSTANTS o1, o2, i1, i2, i3, s1, c1, c2, l1, l2, e1, e2, e3, e4

TwoLines == i1 :> o1 @@ i2 :> o1
ThreeLines == TwoLines @@ i3 :> o2
Lines == i1 :> 0 @@ i2 :> 1 @@ i3 :> 0
OneSku == [i \in {i1, i2, i3} |-> s1]
OneInStock == s1 :> 1

OnePaidEach == e1 :> o1 @@ e2 :> o2
AllPaid == [e \in {e1, e2} |-> "paid"]

\* o1: paid and failed, in any order. o2: another amount and paid, in any order.
TwoEventsEach == e1 :> o1 @@ e2 :> o1 @@ e3 :> o2 @@ e4 :> o2
ManyKinds == e1 :> "paid" @@ e2 :> "failed" @@ e3 :> "paid" @@ e4 :> "paid_other_amount"
OneLineEach == i1 :> o1 @@ i2 :> o2
FirstLines == [i \in {i1, i2} |-> 0]
SameSku == [i \in {i1, i2} |-> s1]

OneLine == i1 :> o1
FirstLine == i1 :> 0
SkuOfLine == i1 :> s1
OnePaid == e1 :> o1
ItIsPaid == e1 :> "paid"

SymmetryOfLanesAndCodes == Permutations(Lanes) \cup Permutations(Codes)
=============================================================================
